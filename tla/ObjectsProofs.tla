--------------------------- MODULE ObjectsProofs ----------------------------
(***************************************************************************)
(* Kernel objects.  The timers of the tick interrupt are in order and fire *)
(* on time, for any timers and users, any range of the tick count and any  *)
(* of the times that rt_timer_start accepts, however often the count       *)
(* wraps.  The blocks of a memory heap divide its pool, for any sizes.     *)
(* For any threads, sizes and messages, a mailbox and a message queue are  *)
(* bounded channels, no wakeup is lost by a mailbox, a queue, an event or  *)
(* a pool, and an event gives the bits that are cleared once.              *)
(***************************************************************************)
EXTENDS MCObjects, BlockingProofs

-----------------------------------------------------------------------------
(* The inductive invariant, of a state ts of the timers.                   *)

Use == {<< >>} \cup {"compute", "insert", "clear"} \X Timer

TimersState ==
    [tick : 0 .. TickRange - 1, list : Seq(Timer), active : SUBSET Timer,
     init : [Timer -> InitTick], deadline : [Timer -> 0 .. TickRange - 1],
     left : [Timer -> Int], checking : BOOLEAN, use : [TimerUser -> Use]]

\* the deadline of t is as many ticks away as are left
DeadlineTells(ts, t) == ts.deadline[t] = (ts.tick + ts.left[t]) % TickRange

\* the ticks left are few enough to be told from a deadline that has passed,
\* and no deadline has passed long since
WithinReach(ts, t, late) == -late <= ts.left[t] /\ ts.left[t] + MaxLate < HalfRange

MostLate(ts) == IF ts.checking THEN MaxLate + 1 ELSE MaxLate

ListInv(ts) ==
    /\ ts \in TimersState
    /\ IsInjective(ts.list)
    /\ SortedBy(ts.list, ts.left)
    /\ \A t \in ToSet(ts.list) : DeadlineTells(ts, t) /\ WithinReach(ts, t, MostLate(ts))

\* a timer in the hands of a thread is not in the list, and in no other's; the
\* deadline of one that is about to be put there has been computed
HandsInv(ts) ==
    \A u \in TimerUser : ts.use[u] # << >> =>
        /\ ts.use[u][2] \notin ToSet(ts.list)
        /\ \A v \in TimerUser \ {u} : ts.use[v] # << >> => ts.use[v][2] # ts.use[u][2]
        /\ ts.use[u][1] = "insert" =>
              DeadlineTells(ts, ts.use[u][2]) /\ WithinReach(ts, ts.use[u][2], MaxLate)

TimersInv == ListInv(timers) /\ HandsInv(timers)

-----------------------------------------------------------------------------
(* Times modulo the range of the count.                                    *)

LEMMA Ranges ==
    /\ TickRange \in Nat \ {0} /\ HalfRange \in Nat /\ 2 * HalfRange < TickRange
    /\ MaxLate \in Nat
BY TimersAssumption DEF HalfRange

LEMMA ModRange == ASSUME NEW x \in Int PROVE x % TickRange \in 0 .. TickRange - 1
BY Ranges

LEMMA ModParts ==
    ASSUME NEW x \in Int
    PROVE  /\ x \div TickRange \in Int
           /\ x = (x \div TickRange) * TickRange + (x % TickRange)
BY Ranges

LEMMA ModUnique ==
    ASSUME NEW x \in Int, NEW q \in Int, NEW r \in 0 .. TickRange - 1,
           x = q * TickRange + r
    PROVE  x % TickRange = r
BY Ranges

LEMMA ModShift ==
    ASSUME NEW x \in Int, NEW q \in Int
    PROVE  (x + q * TickRange) % TickRange = x % TickRange
<1> DEFINE d == x \div TickRange
           r == x % TickRange
           y == x + q * TickRange
           e == d + q
<1>1. d \in Int /\ r \in 0 .. TickRange - 1 /\ x = d * TickRange + r
  BY ModRange, ModParts
<1> HIDE DEF d, r
<1>2. y \in Int /\ e \in Int /\ y = e * TickRange + r
  BY <1>1, Ranges
<1> HIDE DEF y, e
<1>3. y % TickRange = r
  BY <1>1, <1>2, ModUnique
<1> QED BY <1>3 DEF y, r

\* The difference of two times that have wrapped is that of the times.
LEMMA MinusOfWrapped ==
    ASSUME NEW x \in Int, NEW y \in Int
    PROVE  Minus(x % TickRange, y % TickRange) = (x - y) % TickRange
<1> DEFINE a == x \div TickRange
           b == y \div TickRange
           r == x % TickRange
           t == y % TickRange
<1>1. a \in Int /\ r \in 0 .. TickRange - 1 /\ x = a * TickRange + r
  BY ModRange, ModParts
<1>2. b \in Int /\ t \in 0 .. TickRange - 1 /\ y = b * TickRange + t
  BY ModRange, ModParts
<1> HIDE DEF a, b, r, t
<1>3. r - t \in Int /\ b - a \in Int /\ (x - y) + (b - a) * TickRange = r - t
  BY <1>1, <1>2, Ranges
<1>4. x - y \in Int
  OBVIOUS
<1>5. ((x - y) + (b - a) * TickRange) % TickRange = (x - y) % TickRange
  BY <1>3, <1>4, ModShift
<1> QED BY <1>3, <1>5 DEF r, t, Minus

\* A difference within the range is itself, or counted from the range down.
LEMMA ModOfSmall ==
    ASSUME NEW d \in Int, -TickRange < d, d < TickRange
    PROVE  d % TickRange = IF 0 <= d THEN d ELSE d + TickRange
<1>1. CASE 0 <= d
  <2>1. d \in 0 .. TickRange - 1 /\ d = 0 * TickRange + d  BY <1>1, Ranges
  <2> QED BY <1>1, <2>1, ModUnique
<1>2. CASE ~(0 <= d)
  <2> DEFINE e == d + TickRange
  <2>1. e \in 0 .. TickRange - 1 /\ -1 \in Int /\ d = (-1) * TickRange + e
    BY <1>2, Ranges
  <2> HIDE DEF e
  <2>2. d % TickRange = e
    BY <2>1, ModUnique
  <2> QED BY <1>2, <2>2 DEF e
<1> QED BY <1>1, <1>2

\* A time that has wrapped is a tick further, or nearer.
LEMMA WrapTwice ==
    ASSUME NEW x \in Int, NEW y \in Int
    PROVE  ((x % TickRange) + y) % TickRange = (x + y) % TickRange
<1> DEFINE a == x \div TickRange
           r == x % TickRange
<1>1. a \in Int /\ r \in 0 .. TickRange - 1 /\ x = a * TickRange + r
  BY ModRange, ModParts
<1> HIDE DEF a, r
<1>2. r + y \in Int /\ x + y = (r + y) + a * TickRange
  BY <1>1, Ranges
<1>3. ((r + y) + a * TickRange) % TickRange = (r + y) % TickRange
  BY <1>1, <1>2, ModShift
<1> QED BY <1>2, <1>3 DEF r

-----------------------------------------------------------------------------
(* The operations on the list.                                             *)

LEMMA Fields ==
    ASSUME NEW ts \in TimersState
    PROVE  /\ ts.tick \in 0 .. TickRange - 1 /\ ts.list \in Seq(Timer)
           /\ ts.active \in SUBSET Timer /\ ts.init \in [Timer -> InitTick]
           /\ ts.deadline \in [Timer -> 0 .. TickRange - 1]
           /\ ts.left \in [Timer -> Int] /\ ts.checking \in BOOLEAN
           /\ ts.use \in [TimerUser -> Use]
           /\ ToSet(ts.list) \subseteq Timer
<1>1. /\ ts.tick \in 0 .. TickRange - 1 /\ ts.list \in Seq(Timer)
      /\ ts.active \in SUBSET Timer /\ ts.init \in [Timer -> InitTick]
      /\ ts.deadline \in [Timer -> 0 .. TickRange - 1]
      /\ ts.left \in [Timer -> Int] /\ ts.checking \in BOOLEAN
      /\ ts.use \in [TimerUser -> Use]
  BY DEF TimersState
<1>2. ToSet(ts.list) \subseteq Timer
  BY <1>1, LenProperties DEF ToSet
<1> QED BY <1>1, <1>2

\* The order of a list depends on the ranks of its elements only.
LEMMA SameOrder ==
    ASSUME NEW seq, NEW rank, NEW other, SortedBy(seq, rank),
           \A t \in ToSet(seq) : other[t] = rank[t]
    PROVE  SortedBy(seq, other)
BY DEF SortedBy, ToSet

LEMMA RemovedKeeps ==
    ASSUME NEW ts, ListInv(ts), NEW t \in Timer
    PROVE  LET r == Removed(ts, t) IN
           /\ ListInv(r) /\ ToSet(r.list) = ToSet(ts.list) \ {t}
           /\ \A v \in Timer \ {t} : r.left[v] = ts.left[v] /\ r.deadline[v] = ts.deadline[v]
           /\ r.tick = ts.tick /\ r.active = ts.active /\ r.init = ts.init
           /\ r.checking = ts.checking /\ r.use = ts.use
<1> DEFINE l == Without(ts.list, t)
           d == [ts.deadline EXCEPT ![t] = 0]
           m == [ts.left EXCEPT ![t] = 0]
           r == [ts EXCEPT !.list = l, !.deadline = d, !.left = m]
<1>1. ts \in TimersState /\ IsInjective(ts.list) /\ SortedBy(ts.list, ts.left)
  BY DEF ListInv
<1>2. /\ l \in Seq(Timer) /\ IsInjective(l) /\ ToSet(l) = ToSet(ts.list) \ {t}
      /\ SortedBy(l, ts.left)
  BY <1>1, Fields, WithoutElements, WithoutOrder
<1>3. d \in [Timer -> 0 .. TickRange - 1] /\ m \in [Timer -> Int]
  BY <1>1, Fields, Ranges
<1>4. \A v \in Timer \ {t} : m[v] = ts.left[v] /\ d[v] = ts.deadline[v]
  BY <1>1, Fields
<1>5. Removed(ts, t) = r
  BY <1>1 DEF Removed, TimersState
<1> HIDE DEF l, d, m
<1>6. /\ r \in TimersState /\ r.list = l /\ r.deadline = d /\ r.left = m
      /\ r.tick = ts.tick /\ r.active = ts.active /\ r.init = ts.init
      /\ r.checking = ts.checking /\ r.use = ts.use
  BY <1>1, <1>2, <1>3 DEF TimersState
<1> HIDE DEF r
<1>7. ToSet(ts.list) \subseteq Timer
  BY <1>1, Fields
<1>8. SortedBy(l, m)
  BY <1>2, <1>4, <1>7, SameOrder
<1>9. \A v \in ToSet(l) : DeadlineTells(r, v) /\ WithinReach(r, v, MostLate(r))
  <2> SUFFICES ASSUME NEW v \in ToSet(l)
               PROVE  DeadlineTells(r, v) /\ WithinReach(r, v, MostLate(r))
    OBVIOUS
  <2>1. v \in ToSet(ts.list) /\ v \in Timer \ {t}
    BY <1>2, <1>7
  <2>2. DeadlineTells(ts, v) /\ WithinReach(ts, v, MostLate(ts))
    BY <2>1 DEF ListInv
  <2> QED BY <1>4, <1>6, <2>1, <2>2 DEF DeadlineTells, WithinReach, MostLate
<1>10. ListInv(r)
  BY <1>2, <1>6, <1>8, <1>9 DEF ListInv
<1> QED BY <1>2, <1>4, <1>5, <1>6, <1>10

\* The times that rt_timer_start accepts are within reach.
LEMMA InitWithinReach ==
    ASSUME NEW i \in InitTick
    PROVE  i \in Int /\ 0 < i /\ i + MaxLate < HalfRange
BY TimersAssumption, Ranges

LEMMA ComputedKeeps ==
    ASSUME NEW ts, ListInv(ts), NEW t \in Timer, t \notin ToSet(ts.list)
    PROVE  LET r == Computed(ts, t) IN
           /\ ListInv(r) /\ r.list = ts.list
           /\ DeadlineTells(r, t) /\ WithinReach(r, t, 0)
           /\ \A v \in Timer \ {t} : r.left[v] = ts.left[v] /\ r.deadline[v] = ts.deadline[v]
           /\ r.tick = ts.tick /\ r.active = ts.active /\ r.init = ts.init
           /\ r.checking = ts.checking /\ r.use = ts.use
<1> DEFINE c == (ts.tick + ts.init[t]) % TickRange
           d == [ts.deadline EXCEPT ![t] = c]
           m == [ts.left EXCEPT ![t] = ts.init[t]]
           r == [ts EXCEPT !.deadline = d, !.left = m]
<1>1. ts \in TimersState /\ IsInjective(ts.list) /\ SortedBy(ts.list, ts.left)
  BY DEF ListInv
<1>2. /\ ts.tick \in Int /\ ts.init[t] \in Int /\ 0 < ts.init[t]
      /\ ts.init[t] + MaxLate < HalfRange
  <2>1. ts.init[t] \in InitTick /\ ts.tick \in Int  BY <1>1, Fields, Ranges
  <2> QED BY <2>1, InitWithinReach
<1>3. c \in 0 .. TickRange - 1
  <2>1. ts.tick + ts.init[t] \in Int  BY <1>2
  <2> QED BY <2>1, ModRange
<1> HIDE DEF c
<1>4. /\ d \in [Timer -> 0 .. TickRange - 1] /\ d[t] = c
      /\ m \in [Timer -> Int] /\ m[t] = ts.init[t]
      /\ \A v \in Timer \ {t} : m[v] = ts.left[v] /\ d[v] = ts.deadline[v]
  BY <1>1, <1>2, <1>3, Fields
<1>5. Computed(ts, t) = r
  BY <1>1 DEF Computed, TimersState, c
<1> HIDE DEF d, m
<1>6. /\ r \in TimersState /\ r.list = ts.list /\ r.deadline = d /\ r.left = m
      /\ r.tick = ts.tick /\ r.active = ts.active /\ r.init = ts.init
      /\ r.checking = ts.checking /\ r.use = ts.use
  BY <1>1, <1>4 DEF TimersState
<1> HIDE DEF r
<1>7. \A v \in ToSet(ts.list) : v \in Timer \ {t}
  BY <1>1, Fields
<1>8. SortedBy(ts.list, m)
  BY <1>1, <1>4, <1>7, SameOrder
<1>9. \A v \in ToSet(ts.list) : DeadlineTells(r, v) /\ WithinReach(r, v, MostLate(r))
  <2> SUFFICES ASSUME NEW v \in ToSet(ts.list)
               PROVE  DeadlineTells(r, v) /\ WithinReach(r, v, MostLate(r))
    OBVIOUS
  <2>1. DeadlineTells(ts, v) /\ WithinReach(ts, v, MostLate(ts))
    BY DEF ListInv
  <2> QED BY <1>4, <1>6, <1>7, <2>1 DEF DeadlineTells, WithinReach, MostLate
<1>10. DeadlineTells(r, t)
  BY <1>4, <1>6 DEF DeadlineTells, c
<1>11. WithinReach(r, t, 0)
  BY <1>2, <1>4, <1>6 DEF WithinReach
<1>12. ListInv(r)
  BY <1>1, <1>6, <1>8, <1>9 DEF ListInv
<1> QED BY <1>4, <1>5, <1>6, <1>10, <1>11, <1>12

\* Two timers within reach are told apart by their deadlines, wherever the count
\* wraps.
LEMMA DeadlinesInOrder ==
    ASSUME NEW ts \in TimersState, NEW t \in Timer, NEW v \in Timer,
           DeadlineTells(ts, t), DeadlineTells(ts, v),
           -HalfRange <= ts.left[v] - ts.left[t], ts.left[v] - ts.left[t] < HalfRange
    PROVE  Precedes(ts, t, v) <=> ts.left[t] < ts.left[v]
<1> DEFINE d == ts.left[v] - ts.left[t]
           x == ts.tick + ts.left[v]
           y == ts.tick + ts.left[t]
<1>1. /\ ts.left[v] \in Int /\ ts.left[t] \in Int /\ ts.tick \in Int
      /\ ts.deadline[v] \in 0 .. TickRange - 1 /\ ts.deadline[t] \in 0 .. TickRange - 1
  BY Fields, Ranges
<1>2. /\ d \in Int /\ x \in Int /\ y \in Int /\ x - y = d
      /\ d < HalfRange /\ -HalfRange <= d
      /\ (d > 0 <=> ts.left[t] < ts.left[v]) /\ ts.left[v] = ts.left[t] + d
  BY <1>1
<1>3. ts.deadline[v] = x % TickRange /\ ts.deadline[t] = y % TickRange
  BY DEF DeadlineTells
<1> HIDE DEF d, x, y
<1>4. Minus(ts.deadline[v], ts.deadline[t]) = d % TickRange
  BY <1>2, <1>3, MinusOfWrapped
<1>5. /\ -TickRange < d /\ d < TickRange /\ HalfRange \in Int /\ TickRange \in Int
      /\ ~(d + TickRange < HalfRange)
  BY <1>2, Ranges
<1>6. d % TickRange = IF 0 <= d THEN d ELSE d + TickRange
  BY <1>2, <1>5, ModOfSmall
<1>7. CASE d = 0
  <2>1. x = y  BY <1>2, <1>7
  <2>2. ~(ts.left[t] < ts.left[v])  BY <1>2, <1>7
  <2> QED BY <1>3, <2>1, <2>2 DEF Precedes
<1>8. CASE d > 0
  <2>1. d % TickRange = d  BY <1>2, <1>6, <1>8
  <2>2. ts.deadline[v] # ts.deadline[t]
    <3>1. SUFFICES ASSUME ts.deadline[v] = ts.deadline[t] PROVE FALSE
      OBVIOUS
    <3>2. Minus(ts.deadline[v], ts.deadline[t]) = 0
      <4>1. ts.deadline[v] - ts.deadline[t] = 0  BY <1>1, <3>1, Ranges
      <4>2. 0 % TickRange = 0  BY Ranges
      <4> QED BY <4>1, <4>2 DEF Minus
    <3> QED BY <1>2, <1>4, <1>8, <2>1, <3>2
  <2> QED BY <1>2, <1>4, <1>8, <2>1, <2>2 DEF Precedes
<1>9. CASE d < 0
  BY <1>2, <1>4, <1>5, <1>6, <1>9 DEF Precedes
<1> QED BY <1>2, <1>7, <1>8, <1>9

\* how late a timer may be that rt_timer_start puts into the list
MayBeLate(ts) == IF ts.checking THEN 0 ELSE MaxLate

LEMMA PrecedesMeans ==
    ASSUME NEW ts, ListInv(ts), NEW t \in Timer, NEW v \in ToSet(ts.list),
           DeadlineTells(ts, t), WithinReach(ts, t, MayBeLate(ts))
    PROVE  Precedes(ts, t, v) <=> ts.left[t] < ts.left[v]
<1>1. /\ ts \in TimersState /\ v \in Timer /\ DeadlineTells(ts, v)
      /\ WithinReach(ts, v, MostLate(ts))
  BY Fields DEF ListInv
<1>2. ts.left[v] \in Int /\ ts.left[t] \in Int
  BY <1>1, Fields
<1>3. -HalfRange <= ts.left[v] - ts.left[t] /\ ts.left[v] - ts.left[t] < HalfRange
  <2>1. CASE ts.checking
    BY <1>1, <1>2, <2>1, Ranges DEF WithinReach, MayBeLate, MostLate
  <2>2. CASE ~ts.checking
    BY <1>1, <1>2, <2>2, Ranges DEF WithinReach, MayBeLate, MostLate
  <2> QED BY <2>1, <2>2
<1> QED BY <1>1, <1>3, DeadlinesInOrder

\* The search of rt_timer_start ends at a place, behind the timers that are due
\* before the new one or with it and before those that are due after it.
LEMMA PlaceOfIsPlace ==
    ASSUME NEW ts, ListInv(ts), NEW t \in Timer, DeadlineTells(ts, t),
           WithinReach(ts, t, MayBeLate(ts))
    PROVE  LET i == PlaceOf(ts, t) IN
           /\ i \in 1 .. Len(ts.list) + 1
           /\ \A j \in 1 .. i - 1 : ts.left[ts.list[j]] <= ts.left[t]
           /\ i <= Len(ts.list) => ts.left[t] < ts.left[ts.list[i]]
<1> DEFINE l == ts.list
           B == {j \in 1 .. Len(l) : Precedes(ts, t, l[j])}
           Place(i) == /\ \A j \in 1 .. i - 1 : ~Precedes(ts, t, l[j])
                       /\ i <= Len(l) => Precedes(ts, t, l[i])
           i == CHOOSE i \in 1 .. Len(l) + 1 : Place(i)
<1>1. ts \in TimersState
  BY DEF ListInv
<1>2. /\ l \in Seq(Timer) /\ Len(l) \in Nat /\ DOMAIN l = 1 .. Len(l)
      /\ ts.left \in [Timer -> Int]
  BY <1>1, Fields, LenProperties
<1>3. \A j \in 1 .. Len(l) : l[j] \in ToSet(l) /\ l[j] \in Timer
  BY <1>2 DEF ToSet
<1>4. \A j \in 1 .. Len(l) : Precedes(ts, t, l[j]) <=> ts.left[t] < ts.left[l[j]]
  BY <1>3, PrecedesMeans
<1>5. PlaceOf(ts, t) = i
  BY DEF PlaceOf
<1>6. \E n \in 1 .. Len(l) + 1 : Place(n)
  <2>1. B \in SUBSET (1 .. Len(l))  OBVIOUS
  <2>2. PICK n \in 1 .. Len(l) + 1 :
            (\A j \in 1 .. n - 1 : j \notin B) /\ (n <= Len(l) => n \in B)
    <3> HIDE DEF B, l
    <3> QED BY <1>2, <2>1, PlaceExists
  <2>3. \A j \in 1 .. n - 1 : j \in 1 .. Len(l)  BY <1>2, <2>2
  <2> QED BY <2>2, <2>3
<1>7. i \in 1 .. Len(l) + 1 /\ Place(i)
  BY <1>6
<1> HIDE DEF i
<1>8. ASSUME NEW j \in 1 .. i - 1 PROVE ts.left[l[j]] <= ts.left[t]
  <2>1. j \in 1 .. Len(l) /\ ~Precedes(ts, t, l[j])  BY <1>2, <1>7
  <2>2. ~(ts.left[t] < ts.left[l[j]])  BY <1>4, <2>1
  <2>3. ts.left[t] \in Int /\ ts.left[l[j]] \in Int  BY <1>2, <1>3, <2>1
  <2> QED BY <2>2, <2>3
<1>9. ASSUME i <= Len(l) PROVE ts.left[t] < ts.left[l[i]]
  <2>1. i \in 1 .. Len(l) /\ Precedes(ts, t, l[i])  BY <1>2, <1>7, <1>9
  <2> QED BY <1>4, <2>1
<1> QED BY <1>5, <1>7, <1>8, <1>9

LEMMA LinkedKeeps ==
    ASSUME NEW ts, ListInv(ts), NEW t \in Timer, t \notin ToSet(ts.list),
           DeadlineTells(ts, t), WithinReach(ts, t, MayBeLate(ts))
    PROVE  LET r == Linked(ts, t) IN
           /\ ListInv(r) /\ ToSet(r.list) = ToSet(ts.list) \cup {t}
           /\ r.tick = ts.tick /\ r.active = ts.active \cup {t} /\ r.init = ts.init
           /\ r.deadline = ts.deadline /\ r.left = ts.left
           /\ r.checking = ts.checking /\ r.use = ts.use
<1> DEFINE i == PlaceOf(ts, t)
           l == InsertAt(ts.list, i, t)
           a == ts.active \cup {t}
           r == [ts EXCEPT !.list = l, !.active = a]
<1>1. /\ ts \in TimersState /\ IsInjective(ts.list) /\ SortedBy(ts.list, ts.left)
      /\ ts.list \in Seq(Timer) /\ ToSet(ts.list) \subseteq Timer
      /\ ts.left \in [Timer -> Int] /\ a \in SUBSET Timer
  BY Fields DEF ListInv
<1>2. Linked(ts, t) = r
  BY <1>1 DEF Linked, TimersState
<1>3. /\ i \in 1 .. Len(ts.list) + 1
      /\ \A j \in 1 .. i - 1 : ts.left[ts.list[j]] <= ts.left[t]
      /\ i <= Len(ts.list) => ts.left[t] < ts.left[ts.list[i]]
  BY PlaceOfIsPlace
<1> HIDE DEF i
<1>4. l \in Seq(Timer) /\ IsInjective(l) /\ ToSet(l) = ToSet(ts.list) \cup {t}
  BY <1>1, <1>3, InsertAtHolds
<1>5. SortedBy(l, ts.left)
  <2>1. \A u \in ToSet(ts.list) \cup {t} : ts.left[u] \in Int
    BY <1>1
  <2> QED BY <1>1, <1>3, <2>1, InsertInOrder
<1> HIDE DEF l, a
<1>6. /\ r \in TimersState /\ r.list = l /\ r.active = a
      /\ r.tick = ts.tick /\ r.init = ts.init /\ r.checking = ts.checking
      /\ r.deadline = ts.deadline /\ r.left = ts.left /\ r.use = ts.use
  BY <1>1, <1>4 DEF TimersState
<1> HIDE DEF r
<1>7. WithinReach(ts, t, MostLate(ts))
  BY <1>1, Ranges DEF WithinReach, MayBeLate, MostLate
<1>8. \A v \in ToSet(l) : DeadlineTells(r, v) /\ WithinReach(r, v, MostLate(r))
  <2> SUFFICES ASSUME NEW v \in ToSet(l)
               PROVE  DeadlineTells(r, v) /\ WithinReach(r, v, MostLate(r))
    OBVIOUS
  <2>1. DeadlineTells(ts, v) /\ WithinReach(ts, v, MostLate(ts))
    BY <1>4, <1>7 DEF ListInv
  <2> QED BY <1>6, <2>1 DEF DeadlineTells, WithinReach, MostLate
<1>9. ListInv(r)
  BY <1>4, <1>5, <1>6, <1>8 DEF ListInv
<1> QED BY <1>2, <1>4, <1>6, <1>9 DEF a

LEMMA StartedKeeps ==
    ASSUME NEW ts, ListInv(ts), NEW t \in Timer
    PROVE  LET r == Started(ts, t) IN
           /\ ListInv(r) /\ ToSet(r.list) = ToSet(ts.list) \cup {t}
           /\ \A v \in Timer \ {t} : r.left[v] = ts.left[v] /\ r.deadline[v] = ts.deadline[v]
           /\ r.tick = ts.tick /\ r.active = ts.active \cup {t}
           /\ r.checking = ts.checking /\ r.use = ts.use
<1> DEFINE a == Removed(ts, t)
           b == Computed(a, t)
           r == Linked(b, t)
<1>1. /\ ListInv(a) /\ ToSet(a.list) = ToSet(ts.list) \ {t}
      /\ \A v \in Timer \ {t} : a.left[v] = ts.left[v] /\ a.deadline[v] = ts.deadline[v]
      /\ a.tick = ts.tick /\ a.active = ts.active /\ a.checking = ts.checking
      /\ a.use = ts.use
  BY RemovedKeeps
<1> HIDE DEF a
<1>2. /\ ListInv(b) /\ b.list = a.list
      /\ DeadlineTells(b, t) /\ WithinReach(b, t, 0)
      /\ \A v \in Timer \ {t} : b.left[v] = a.left[v] /\ b.deadline[v] = a.deadline[v]
      /\ b.tick = a.tick /\ b.active = a.active /\ b.checking = a.checking
      /\ b.use = a.use
  BY <1>1, ComputedKeeps
<1> HIDE DEF b
<1>3. WithinReach(b, t, MayBeLate(b))
  <2>1. b.left[t] \in Int  BY <1>2, Fields DEF ListInv
  <2> QED BY <1>2, <2>1, Ranges DEF WithinReach, MayBeLate
<1>4. t \notin ToSet(b.list)
  BY <1>1, <1>2
<1>5. /\ ListInv(r) /\ ToSet(r.list) = ToSet(b.list) \cup {t}
      /\ r.deadline = b.deadline /\ r.left = b.left
      /\ r.tick = b.tick /\ r.active = b.active \cup {t} /\ r.checking = b.checking
      /\ r.use = b.use
  BY <1>2, <1>3, <1>4, LinkedKeeps
<1>6. Started(ts, t) = r
  BY DEF Started, a, b
<1> HIDE DEF r
<1> QED BY <1>1, <1>2, <1>5, <1>6

\* The list, its times and the tick make the invariant of the list.
LEMMA SameTimes ==
    ASSUME NEW ts, ListInv(ts), NEW r \in TimersState,
           r.tick = ts.tick, r.list = ts.list, r.deadline = ts.deadline,
           r.left = ts.left, r.checking = ts.checking
    PROVE  ListInv(r)
<1> USE DEF DeadlineTells, WithinReach, MostLate
<1> QED BY DEF ListInv

LEMMA StoppedKeeps ==
    ASSUME NEW ts, ListInv(ts), NEW t \in Timer
    PROVE  LET r == Stopped(ts, t) IN
           /\ ListInv(r) /\ ToSet(r.list) \subseteq ToSet(ts.list)
           /\ \A v \in Timer \ {t} : r.left[v] = ts.left[v] /\ r.deadline[v] = ts.deadline[v]
           /\ r.tick = ts.tick /\ r.checking = ts.checking /\ r.use = ts.use
<1>1. CASE t \notin ts.active
  BY <1>1 DEF Stopped
<1>2. CASE t \in ts.active
  <2> DEFINE a == Removed(ts, t)
             c == a.active \ {t}
             r == [a EXCEPT !.active = c]
  <2>1. /\ ListInv(a) /\ ToSet(a.list) = ToSet(ts.list) \ {t}
        /\ \A v \in Timer \ {t} : a.left[v] = ts.left[v] /\ a.deadline[v] = ts.deadline[v]
        /\ a.tick = ts.tick /\ a.checking = ts.checking /\ a.use = ts.use
    BY RemovedKeeps
  <2>2. Stopped(ts, t) = r
    BY <1>2 DEF Stopped
  <2> HIDE DEF a
  <2>3. a \in TimersState /\ c \in SUBSET Timer
    BY <2>1, Fields DEF ListInv
  <2> HIDE DEF c
  <2>4. /\ r \in TimersState /\ r.tick = a.tick /\ r.list = a.list
        /\ r.deadline = a.deadline /\ r.left = a.left /\ r.checking = a.checking
        /\ r.use = a.use
    BY <2>3 DEF TimersState
  <2> HIDE DEF r
  <2>5. ListInv(r)
    BY <2>1, <2>4, SameTimes
  <2> QED BY <2>1, <2>2, <2>4, <2>5
<1> QED BY <1>1, <1>2

-----------------------------------------------------------------------------
(* The timers in the hands of threads.                                     *)

LEMMA HandsHoldTimers ==
    ASSUME NEW ts \in TimersState, NEW u \in TimerUser, ts.use[u] # << >>
    PROVE  /\ ts.use[u] = <<ts.use[u][1], ts.use[u][2]>>
           /\ ts.use[u][2] \in Timer
BY Fields DEF Use

\* A section of the user u with the timer t, that no other has in its hands.
LEMMA HandsAfter ==
    ASSUME NEW ts \in TimersState, HandsInv(ts), NEW r, NEW u \in TimerUser, NEW t \in Timer,
           r.tick = ts.tick,
           \A v \in TimerUser \ {u} :
               /\ r.use[v] = ts.use[v]
               /\ ts.use[v] # << >> => ts.use[v][2] # t,
           \A v \in Timer \ {t} : r.left[v] = ts.left[v] /\ r.deadline[v] = ts.deadline[v],
           ToSet(r.list) \ {t} \subseteq ToSet(ts.list),
           r.use[u] # << >> =>
               /\ r.use[u][2] = t /\ t \notin ToSet(r.list)
               /\ r.use[u][1] = "insert" => DeadlineTells(r, t) /\ WithinReach(r, t, MaxLate)
    PROVE  HandsInv(r)
<1> SUFFICES ASSUME NEW v \in TimerUser, r.use[v] # << >>
             PROVE  /\ r.use[v][2] \notin ToSet(r.list)
                    /\ \A w \in TimerUser \ {v} :
                           r.use[w] # << >> => r.use[w][2] # r.use[v][2]
                    /\ r.use[v][1] = "insert" =>
                           DeadlineTells(r, r.use[v][2]) /\ WithinReach(r, r.use[v][2], MaxLate)
  BY DEF HandsInv
<1>1. CASE v = u
  BY <1>1
<1>2. CASE v # u
  <2> DEFINE x == ts.use[v][2]
  <2>1. r.use[v] = ts.use[v] /\ ts.use[v] # << >> /\ x \in Timer \ {t}
    BY <1>2, HandsHoldTimers
  <2>2. x \notin ToSet(r.list)
    BY <2>1 DEF HandsInv
  <2>3. ASSUME NEW w \in TimerUser \ {v}, r.use[w] # << >> PROVE r.use[w][2] # x
    <3>1. CASE w = u
      BY <2>1, <2>3, <3>1
    <3>2. CASE w # u
      BY <2>1, <2>3, <3>2 DEF HandsInv
    <3> QED BY <3>1, <3>2
  <2>4. ASSUME ts.use[v][1] = "insert"
        PROVE  DeadlineTells(r, x) /\ WithinReach(r, x, MaxLate)
    <3>1. DeadlineTells(ts, x) /\ WithinReach(ts, x, MaxLate)
      BY <2>1, <2>4 DEF HandsInv
    <3> HIDE DEF x
    <3> QED BY <2>1, <3>1 DEF DeadlineTells, WithinReach
  <2> QED BY <2>1, <2>2, <2>3, <2>4
<1> QED BY <1>1, <1>2

\* The interrupt changes the times of timers that are in nobody's hands.
LEMMA HandsKept ==
    ASSUME NEW ts \in TimersState, HandsInv(ts), NEW r,
           r.tick = ts.tick, r.use = ts.use,
           \A u \in TimerUser : ts.use[u] # << >> =>
               /\ ts.use[u][2] \notin ToSet(r.list)
               /\ r.left[ts.use[u][2]] = ts.left[ts.use[u][2]]
               /\ r.deadline[ts.use[u][2]] = ts.deadline[ts.use[u][2]]
    PROVE  HandsInv(r)
<1> USE DEF DeadlineTells, WithinReach
<1> QED BY DEF HandsInv

-----------------------------------------------------------------------------
(* The steps.                                                              *)

\* What a call finds: its timer is in no other thread's hands.
LEMMA NotInHands ==
    ASSUME NEW t \in Timer, ~InHands(t)
    PROVE  \A v \in TimerUser : timers.use[v] # << >> => timers.use[v][2] # t
BY DEF InHands

\* a user reaches another place, and maybe clears a flag
Reaches(ts, u, x, A) == [ts EXCEPT !.active = A, !.use[u] = x]

LEMMA UseChanges ==
    ASSUME NEW ts, ListInv(ts), NEW u \in TimerUser, NEW x \in Use, NEW A \in SUBSET Timer
    PROVE  LET r == Reaches(ts, u, x, A) IN
           /\ ListInv(r) /\ r.tick = ts.tick /\ r.list = ts.list
           /\ r.deadline = ts.deadline /\ r.left = ts.left /\ r.checking = ts.checking
           /\ r.use[u] = x /\ \A v \in TimerUser \ {u} : r.use[v] = ts.use[v]
<1> DEFINE us == [ts.use EXCEPT ![u] = x]
           r == Reaches(ts, u, x, A)
<1>1. ts \in TimersState
  BY DEF ListInv
<1>2. /\ us \in [TimerUser -> Use] /\ us[u] = x
      /\ \A v \in TimerUser \ {u} : us[v] = ts.use[v]
  BY <1>1, Fields
<1> HIDE DEF us
<1>3. r = [ts EXCEPT !.active = A, !.use = us]
  BY <1>1 DEF TimersState, Reaches, us
<1> HIDE DEF r
<1>4. /\ r \in TimersState /\ r.tick = ts.tick /\ r.list = ts.list
      /\ r.deadline = ts.deadline /\ r.left = ts.left /\ r.checking = ts.checking
      /\ r.use = us
  BY <1>1, <1>2, <1>3 DEF TimersState
<1>5. ListInv(r)
  BY <1>4, SameTimes
<1>6. r.use[u] = x /\ \A v \in TimerUser \ {u} : r.use[v] = ts.use[v]
  BY <1>2, <1>4
<1> QED BY <1>4, <1>5, <1>6 DEF r

LEMMA StartStep ==
    ASSUME TimersInv, NEW u \in TimerUser, NEW t \in Timer, TimerStart(u, t)
    PROVE  TimersInv'
<1> DEFINE a == Removed(timers, t)
<1>1. /\ ListInv(a) /\ ToSet(a.list) = ToSet(timers.list) \ {t}
      /\ \A v \in Timer \ {t} : a.left[v] = timers.left[v] /\ a.deadline[v] = timers.deadline[v]
      /\ a.tick = timers.tick /\ a.use = timers.use
  BY RemovedKeeps DEF TimersInv
<1>2. timers' = Reaches(a, u, <<"compute", t>>, a.active \ {t})
  BY DEF TimerStart, Reaches
<1>3. timers.use[u] = << >> /\ ~InHands(t)
  BY DEF TimerStart, UserCalls
<1> HIDE DEF a
<1>4. a.active \ {t} \in SUBSET Timer /\ <<"compute", t>> \in Use
  BY <1>1, Fields DEF ListInv, Use
<1>5. /\ ListInv(timers') /\ timers'.tick = a.tick /\ timers'.list = a.list
      /\ timers'.deadline = a.deadline /\ timers'.left = a.left
      /\ timers'.use[u] = <<"compute", t>>
      /\ \A v \in TimerUser \ {u} : timers'.use[v] = a.use[v]
  BY <1>1, <1>2, <1>4, UseChanges
<1>6. timers \in TimersState /\ HandsInv(timers)
  BY DEF TimersInv, ListInv
<1>7. \A v \in TimerUser \ {u} : timers.use[v] # << >> => timers.use[v][2] # t
  BY <1>3, NotInHands
<1>8. HandsInv(timers')
  BY <1>1, <1>5, <1>6, <1>7, HandsAfter
<1> QED BY <1>5, <1>8 DEF TimersInv

LEMMA StopStep ==
    ASSUME TimersInv, NEW u \in TimerUser, NEW t \in Timer, TimerStop(u, t)
    PROVE  TimersInv'
<1> DEFINE a == Removed(timers, t)
<1>1. /\ ListInv(a) /\ ToSet(a.list) = ToSet(timers.list) \ {t}
      /\ \A v \in Timer \ {t} : a.left[v] = timers.left[v] /\ a.deadline[v] = timers.deadline[v]
      /\ a.tick = timers.tick /\ a.use = timers.use
  BY RemovedKeeps DEF TimersInv
<1>2. timers' = Reaches(a, u, <<"clear", t>>, a.active)
  <2>1. a \in TimersState  BY <1>1 DEF ListInv
  <2>2. timers' = [a EXCEPT !.use[u] = <<"clear", t>>]  BY DEF TimerStop
  <2> HIDE DEF a
  <2> QED BY <2>1, <2>2 DEF TimersState, Reaches
<1>3. timers.use[u] = << >> /\ ~InHands(t)
  BY DEF TimerStop, UserCalls
<1> HIDE DEF a
<1>4. a.active \in SUBSET Timer /\ <<"clear", t>> \in Use
  BY <1>1, Fields DEF ListInv, Use
<1>5. /\ ListInv(timers') /\ timers'.tick = a.tick /\ timers'.list = a.list
      /\ timers'.deadline = a.deadline /\ timers'.left = a.left
      /\ timers'.use[u] = <<"clear", t>>
      /\ \A v \in TimerUser \ {u} : timers'.use[v] = a.use[v]
  BY <1>1, <1>2, <1>4, UseChanges
<1>6. timers \in TimersState /\ HandsInv(timers)
  BY DEF TimersInv, ListInv
<1>7. \A v \in TimerUser \ {u} : timers.use[v] # << >> => timers.use[v][2] # t
  BY <1>3, NotInHands
<1>8. HandsInv(timers')
  BY <1>1, <1>5, <1>6, <1>7, HandsAfter
<1> QED BY <1>5, <1>8 DEF TimersInv

\* A user within a call has a timer that is not in the list.
LEMMA WithinCall ==
    ASSUME TimersInv, NEW u \in TimerUser, NEW step, UserAt(u, step)
    PROVE  /\ timers \in TimersState /\ ListInv(timers) /\ HandsInv(timers)
           /\ ~timers.checking
           /\ timers.use[u] = <<step, timers.use[u][2]>>
           /\ timers.use[u][2] \in Timer /\ timers.use[u][2] \notin ToSet(timers.list)
           /\ \A v \in TimerUser \ {u} :
                  timers.use[v] # << >> => timers.use[v][2] # timers.use[u][2]
           /\ step = "insert" =>
                  /\ DeadlineTells(timers, timers.use[u][2])
                  /\ WithinReach(timers, timers.use[u][2], MaxLate)
<1>1. timers \in TimersState /\ ListInv(timers) /\ HandsInv(timers)
  BY DEF TimersInv, ListInv
<1>2. ~timers.checking /\ timers.use[u] # << >> /\ timers.use[u][1] = step
  BY DEF UserAt
<1>3. timers.use[u] = <<timers.use[u][1], timers.use[u][2]>> /\ timers.use[u][2] \in Timer
  BY <1>1, <1>2, HandsHoldTimers
<1> QED BY <1>1, <1>2, <1>3 DEF HandsInv

LEMMA ComputeStep ==
    ASSUME TimersInv, NEW u \in TimerUser, TimerCompute(u)
    PROVE  TimersInv'
<1> DEFINE t == timers.use[u][2]
           a == Computed(timers, t)
<1>1. /\ timers \in TimersState /\ ListInv(timers) /\ HandsInv(timers)
      /\ t \in Timer /\ t \notin ToSet(timers.list)
      /\ \A v \in TimerUser \ {u} : timers.use[v] # << >> => timers.use[v][2] # t
  BY WithinCall DEF TimerCompute
<1>2. timers' = [a EXCEPT !.use[u] = <<"insert", t>>]
  BY DEF TimerCompute
<1> HIDE DEF t
<1>3. /\ ListInv(a) /\ a.list = timers.list
      /\ DeadlineTells(a, t) /\ WithinReach(a, t, 0)
      /\ \A v \in Timer \ {t} : a.left[v] = timers.left[v] /\ a.deadline[v] = timers.deadline[v]
      /\ a.tick = timers.tick /\ a.use = timers.use
  BY <1>1, ComputedKeeps
<1> HIDE DEF a
<1>4. timers' = Reaches(a, u, <<"insert", t>>, a.active)
  BY <1>2, <1>3 DEF ListInv, TimersState, Reaches
<1>5. /\ a.active \in SUBSET Timer /\ <<"insert", t>> \in Use /\ a.left[t] \in Int
  BY <1>1, <1>3, Fields DEF ListInv, Use
<1>6. /\ ListInv(timers') /\ timers'.tick = a.tick /\ timers'.list = a.list
      /\ timers'.deadline = a.deadline /\ timers'.left = a.left
      /\ timers'.use[u] = <<"insert", t>>
      /\ \A v \in TimerUser \ {u} : timers'.use[v] = a.use[v]
  BY <1>3, <1>4, <1>5, UseChanges
<1>7. DeadlineTells(timers', t) /\ WithinReach(timers', t, MaxLate)
  BY <1>3, <1>5, <1>6, Ranges DEF DeadlineTells, WithinReach
<1>8. HandsInv(timers')
  BY <1>1, <1>3, <1>6, <1>7, HandsAfter
<1> QED BY <1>6, <1>8 DEF TimersInv

LEMMA InsertStep ==
    ASSUME TimersInv, NEW u \in TimerUser, TimerInsert(u)
    PROVE  TimersInv'
<1> DEFINE t == timers.use[u][2]
           a == Linked(timers, t)
<1>1. /\ timers \in TimersState /\ ListInv(timers) /\ HandsInv(timers)
      /\ ~timers.checking /\ t \in Timer /\ t \notin ToSet(timers.list)
      /\ \A v \in TimerUser \ {u} : timers.use[v] # << >> => timers.use[v][2] # t
      /\ DeadlineTells(timers, t) /\ WithinReach(timers, t, MaxLate)
  BY WithinCall DEF TimerInsert
<1>2. timers' = [a EXCEPT !.use[u] = << >>]
  BY DEF TimerInsert
<1> HIDE DEF t
<1>3. WithinReach(timers, t, MayBeLate(timers))
  BY <1>1 DEF MayBeLate
<1>4. /\ ListInv(a) /\ ToSet(a.list) = ToSet(timers.list) \cup {t}
      /\ a.tick = timers.tick /\ a.deadline = timers.deadline /\ a.left = timers.left
      /\ a.use = timers.use
  BY <1>1, <1>3, LinkedKeeps
<1> HIDE DEF a
<1>5. timers' = Reaches(a, u, << >>, a.active)
  BY <1>2, <1>4 DEF ListInv, TimersState, Reaches
<1>6. a.active \in SUBSET Timer /\ << >> \in Use
  BY <1>4, Fields DEF ListInv, Use
<1>7. /\ ListInv(timers') /\ timers'.tick = a.tick /\ timers'.list = a.list
      /\ timers'.deadline = a.deadline /\ timers'.left = a.left
      /\ timers'.use[u] = << >>
      /\ \A v \in TimerUser \ {u} : timers'.use[v] = a.use[v]
  BY <1>4, <1>5, <1>6, UseChanges
<1>8. HandsInv(timers')
  BY <1>1, <1>4, <1>7, HandsAfter
<1> QED BY <1>7, <1>8 DEF TimersInv

LEMMA ClearStep ==
    ASSUME TimersInv, NEW u \in TimerUser, TimerClear(u)
    PROVE  TimersInv'
<1> DEFINE t == timers.use[u][2]
           A == timers.active \ {t}
<1>1. /\ timers \in TimersState /\ ListInv(timers) /\ HandsInv(timers)
      /\ t \in Timer
      /\ \A v \in TimerUser \ {u} : timers.use[v] # << >> => timers.use[v][2] # t
  BY WithinCall DEF TimerClear
<1>2. timers' = Reaches(timers, u, << >>, A)
  BY DEF TimerClear, Reaches
<1>3. A \in SUBSET Timer /\ << >> \in Use
  BY <1>1, Fields DEF Use
<1> HIDE DEF t, A
<1>4. /\ ListInv(timers') /\ timers'.tick = timers.tick /\ timers'.list = timers.list
      /\ timers'.deadline = timers.deadline /\ timers'.left = timers.left
      /\ timers'.use[u] = << >>
      /\ \A v \in TimerUser \ {u} : timers'.use[v] = timers.use[v]
  BY <1>1, <1>2, <1>3, UseChanges
<1>5. HandsInv(timers')
  BY <1>1, <1>4, HandsAfter
<1> QED BY <1>4, <1>5 DEF TimersInv

LEMMA SetTimeStep ==
    ASSUME TimersInv, NEW u \in TimerUser, NEW t \in Timer, TimerSetTime(u, t)
    PROVE  TimersInv'
<1>1. PICK i \in InitTick : timers' = [timers EXCEPT !.init[t] = i]
  BY DEF TimerSetTime
<1>2. timers \in TimersState /\ ListInv(timers) /\ HandsInv(timers)
  BY DEF TimersInv, ListInv
<1>3. /\ timers' \in TimersState /\ timers'.tick = timers.tick
      /\ timers'.list = timers.list /\ timers'.deadline = timers.deadline
      /\ timers'.left = timers.left /\ timers'.checking = timers.checking
      /\ timers'.use = timers.use
  BY <1>1, <1>2 DEF TimersState
<1>4. ListInv(timers')
  BY <1>2, <1>3, SameTimes
<1>5. HandsInv(timers')
  <2>1. \A v \in TimerUser : timers.use[v] # << >> =>
            timers.use[v][2] \notin ToSet(timers.list)
    BY <1>2 DEF HandsInv
  <2> QED BY <1>2, <1>3, <2>1, HandsKept
<1> QED BY <1>4, <1>5 DEF TimersInv

\* The interrupt counts a tick, and the ticks left of the timers that have a
\* deadline become one less.
LEMMA TickStep ==
    ASSUME TimersInv, TimerTick
    PROVE  TimersInv'
<1> DEFINE c == (timers.tick + 1) % TickRange
           Due(t) == t \in ToSet(timers.list) \/ InsertDue(t)
           m == [t \in Timer |-> IF Due(t) THEN timers.left[t] - 1 ELSE timers.left[t]]
<1>1. timers \in TimersState /\ ListInv(timers) /\ HandsInv(timers)
  BY DEF TimersInv, ListInv
<1>2. /\ timers.tick \in Int /\ timers.left \in [Timer -> Int]
      /\ ToSet(timers.list) \subseteq Timer
  BY <1>1, Fields, Ranges
<1>3. ~timers.checking /\ MayTick
      /\ timers' = [timers EXCEPT !.tick = c, !.checking = TRUE, !.left = m]
  BY <1>1 DEF TimerTick, TimersState
<1>4. c \in 0 .. TickRange - 1
  <2>1. timers.tick + 1 \in Int  BY <1>2
  <2> QED BY <2>1, ModRange
<1>5. /\ m \in [Timer -> Int]
      /\ \A t \in Timer : Due(t) => m[t] = timers.left[t] - 1
  BY <1>2
<1> HIDE DEF m
<1>6. ASSUME NEW t \in Timer, Due(t), DeadlineTells(timers, t)
      PROVE  timers.deadline[t] = (c + m[t]) % TickRange
  <2>1. /\ timers.tick + 1 \in Int /\ m[t] \in Int /\ m[t] = timers.left[t] - 1
        /\ timers.left[t] \in Int
    BY <1>2, <1>5, <1>6
  <2>2. (timers.tick + 1) + m[t] = timers.tick + timers.left[t]
    BY <1>2, <2>1
  <2>3. (c + m[t]) % TickRange = ((timers.tick + 1) + m[t]) % TickRange
    BY <2>1, WrapTwice
  <2> QED BY <1>6, <2>2, <2>3 DEF DeadlineTells
<1> HIDE DEF c
<1>7. /\ timers' \in TimersState /\ timers'.tick = c /\ timers'.checking = TRUE
      /\ timers'.left = m /\ timers'.list = timers.list
      /\ timers'.deadline = timers.deadline /\ timers'.use = timers.use
  BY <1>1, <1>3, <1>4, <1>5 DEF TimersState
<1>8. ASSUME NEW t \in ToSet(timers.list)
      PROVE  DeadlineTells(timers', t) /\ WithinReach(timers', t, MostLate(timers'))
  <2>1. t \in Timer /\ Due(t)
    BY <1>2
  <2>2. DeadlineTells(timers, t) /\ WithinReach(timers, t, MostLate(timers))
    BY <1>1 DEF ListInv
  <2>3. DeadlineTells(timers', t)
    BY <1>6, <1>7, <2>1, <2>2 DEF DeadlineTells
  <2>4. m[t] = timers.left[t] - 1 /\ timers.left[t] \in Int
    BY <1>2, <1>5, <2>1
  <2>5. WithinReach(timers', t, MostLate(timers'))
    BY <1>3, <1>7, <2>2, <2>4, Ranges DEF WithinReach, MostLate
  <2> QED BY <2>3, <2>5
<1>9. SortedBy(timers.list, m)
  <2> SUFFICES ASSUME NEW i \in DOMAIN timers.list, NEW j \in DOMAIN timers.list, i < j
               PROVE  m[timers.list[i]] <= m[timers.list[j]]
    BY DEF SortedBy
  <2>1. timers.left[timers.list[i]] <= timers.left[timers.list[j]]
    BY <1>1 DEF ListInv, SortedBy
  <2>2. timers.list[i] \in ToSet(timers.list) /\ timers.list[j] \in ToSet(timers.list)
    BY DEF ToSet
  <2>3. /\ m[timers.list[i]] = timers.left[timers.list[i]] - 1
        /\ m[timers.list[j]] = timers.left[timers.list[j]] - 1
        /\ timers.left[timers.list[i]] \in Int /\ timers.left[timers.list[j]] \in Int
    BY <1>2, <1>5, <2>2
  <2> QED BY <2>1, <2>3
<1>10. ListInv(timers')
  BY <1>1, <1>7, <1>8, <1>9 DEF ListInv
<1>11. ASSUME NEW u \in TimerUser, timers.use[u] # << >>, timers.use[u][1] = "insert"
       PROVE  /\ DeadlineTells(timers', timers.use[u][2])
              /\ WithinReach(timers', timers.use[u][2], MaxLate)
  <2> DEFINE t == timers.use[u][2]
  <2>1. t \in Timer /\ timers.use[u] = <<"insert", t>>
    BY <1>1, <1>11, HandsHoldTimers
  <2>2. InsertDue(t)
    BY <2>1 DEF InsertDue
  <2>3. DeadlineTells(timers, t) /\ WithinReach(timers, t, MaxLate)
    BY <1>1, <1>11 DEF HandsInv
  <2>4. timers.left[t] > -MaxLate
    BY <1>3, <1>11 DEF MayTick, UserAt
  <2> HIDE DEF t
  <2>5. DeadlineTells(timers', t)
    BY <1>6, <1>7, <2>1, <2>2, <2>3 DEF DeadlineTells
  <2>6. m[t] = timers.left[t] - 1 /\ timers.left[t] \in Int
    BY <1>2, <1>5, <2>1, <2>2
  <2>7. WithinReach(timers', t, MaxLate)
    BY <1>7, <2>3, <2>4, <2>6, Ranges DEF WithinReach
  <2> QED BY <2>5, <2>7 DEF t
<1>12. HandsInv(timers')
  BY <1>1, <1>7, <1>11 DEF HandsInv
<1> QED BY <1>10, <1>12 DEF TimersInv

\* what a timeout function leaves alone: whatever is in the hands of a thread
HandsLeftAlone(r) ==
    /\ ListInv(r) /\ r.tick = timers.tick /\ r.use = timers.use
    /\ r.checking = timers.checking
    /\ \A u \in TimerUser : timers.use[u] # << >> =>
           /\ timers.use[u][2] \notin ToSet(r.list)
           /\ r.left[timers.use[u][2]] = timers.left[timers.use[u][2]]
           /\ r.deadline[timers.use[u][2]] = timers.deadline[timers.use[u][2]]

\* Three of its operations do, on a timer that nobody has in hands.
LEMMA OperationLeavesHands ==
    ASSUME timers \in TimersState, NEW a, HandsLeftAlone(a), NEW t \in Timer, ~InHands(t)
    PROVE  /\ HandsLeftAlone(Removed(a, t))
           /\ HandsLeftAlone(Started(a, t))
           /\ HandsLeftAlone(Stopped(a, t))
<1>1. ASSUME NEW r, ListInv(r), r.tick = a.tick, r.use = a.use, r.checking = a.checking,
             ToSet(r.list) \subseteq ToSet(a.list) \cup {t},
             \A v \in Timer \ {t} : r.left[v] = a.left[v] /\ r.deadline[v] = a.deadline[v]
      PROVE  HandsLeftAlone(r)
  <2>1. ASSUME NEW u \in TimerUser, timers.use[u] # << >>
        PROVE  timers.use[u][2] \in Timer \ {t}
    BY <2>1, HandsHoldTimers, NotInHands
  <2> QED BY <1>1, <2>1 DEF HandsLeftAlone
<1>2. ListInv(a)
  BY DEF HandsLeftAlone
<1>3. HandsLeftAlone(Removed(a, t))
  <2> DEFINE r == Removed(a, t)
  <2>1. /\ ListInv(r) /\ ToSet(r.list) = ToSet(a.list) \ {t}
        /\ \A v \in Timer \ {t} : r.left[v] = a.left[v] /\ r.deadline[v] = a.deadline[v]
        /\ r.tick = a.tick /\ r.checking = a.checking /\ r.use = a.use
    BY <1>2, RemovedKeeps
  <2> HIDE DEF r
  <2>2. HandsLeftAlone(r)  BY <1>1, <2>1
  <2> QED BY <2>2 DEF r
<1>4. HandsLeftAlone(Started(a, t))
  <2> DEFINE r == Started(a, t)
  <2>1. /\ ListInv(r) /\ ToSet(r.list) = ToSet(a.list) \cup {t}
        /\ \A v \in Timer \ {t} : r.left[v] = a.left[v] /\ r.deadline[v] = a.deadline[v]
        /\ r.tick = a.tick /\ r.checking = a.checking /\ r.use = a.use
    BY SMTT(30), <1>2, StartedKeeps
  <2> HIDE DEF r
  <2>2. HandsLeftAlone(r)  BY <1>1, <2>1
  <2> QED BY <2>2 DEF r
<1>5. HandsLeftAlone(Stopped(a, t))
  <2> DEFINE r == Stopped(a, t)
  <2>1. /\ ListInv(r) /\ ToSet(r.list) \subseteq ToSet(a.list)
        /\ \A v \in Timer \ {t} : r.left[v] = a.left[v] /\ r.deadline[v] = a.deadline[v]
        /\ r.tick = a.tick /\ r.checking = a.checking /\ r.use = a.use
    BY <1>2, StoppedKeeps
  <2> HIDE DEF r
  <2>2. HandsLeftAlone(r)  BY <1>1, <2>1
  <2> QED BY <2>2 DEF r
<1> QED BY <1>3, <1>4, <1>5

\* The test of rt_timer_check tells a timer whose time has come.
LEMMA FirstIsDueMeans ==
    ASSUME TimersInv, timers.list # << >>
    PROVE  /\ timers.list[1] \in ToSet(timers.list) /\ timers.list[1] \in Timer
           /\ timers.left[timers.list[1]] \in Int
           /\ FirstIsDue <=> timers.left[timers.list[1]] <= 0
<1> DEFINE f == timers.list[1]
           d == -timers.left[f]
           y == timers.tick + timers.left[f]
<1>1. timers \in TimersState /\ ListInv(timers)
  BY DEF TimersInv, ListInv
<1>2. f \in ToSet(timers.list)
  <2>1. timers.list \in Seq(Timer)  BY <1>1, Fields
  <2>2. Head(timers.list) = f /\ Head(timers.list) \in ToSet(timers.list)
    BY <2>1, EmptyList
  <2> QED BY <2>2
<1>3. /\ f \in Timer /\ DeadlineTells(timers, f)
      /\ WithinReach(timers, f, MostLate(timers))
  BY <1>1, <1>2, Fields DEF ListInv
<1> HIDE DEF f
<1>4. /\ timers.left[f] \in Int /\ timers.tick \in 0 .. TickRange - 1 /\ timers.tick \in Int
      /\ timers.init[f] \in InitTick
  BY <1>1, <1>3, Fields, Ranges
<1>5. /\ d \in Int /\ y \in Int /\ timers.tick - y = d
      /\ (0 <= d <=> timers.left[f] <= 0) /\ d = -timers.left[f]
  BY <1>4
<1>6. timers.deadline[f] = y % TickRange
  BY <1>3 DEF DeadlineTells
<1> HIDE DEF d, y
<1>7. timers.tick % TickRange = timers.tick
  <2>1. timers.tick = 0 * TickRange + timers.tick /\ 0 \in Int  BY <1>4, Ranges
  <2> QED BY <1>4, <2>1, ModUnique
<1>8. Minus(timers.tick, timers.deadline[f]) = d % TickRange
  BY <1>4, <1>5, <1>6, <1>7, MinusOfWrapped
<1>9. MaxLate + 1 < HalfRange
  <2>1. /\ timers.init[f] \in Int /\ 0 < timers.init[f]
        /\ timers.init[f] + MaxLate < HalfRange
    BY <1>4, InitWithinReach
  <2> QED BY <2>1, Ranges
<1>10. d < HalfRange /\ -HalfRange < d
  BY <1>3, <1>4, <1>5, <1>9, Ranges DEF WithinReach, MostLate
<1>11. /\ -TickRange < d /\ d < TickRange /\ HalfRange \in Int /\ TickRange \in Int
       /\ ~(d + TickRange < HalfRange)
  BY <1>5, <1>10, Ranges
<1>12. d % TickRange = IF 0 <= d THEN d ELSE d + TickRange
  BY <1>5, <1>11, ModOfSmall
<1>13. d % TickRange < HalfRange <=> timers.left[f] <= 0
  BY <1>5, <1>10, <1>11, <1>12
<1>14. FirstIsDue <=> timers.left[f] <= 0
  BY <1>8, <1>13 DEF FirstIsDue, f
<1> QED BY <1>2, <1>3, <1>4, <1>14 DEF f

LEMMA FiresStep ==
    ASSUME TimersInv, TimerFires
    PROVE  TimersInv' /\ timers'.checking
<1> DEFINE t == timers.list[1]
           taken == Removed(timers, t)
<1>1. timers \in TimersState /\ ListInv(timers) /\ HandsInv(timers)
  BY DEF TimersInv, ListInv
<1>2. timers.checking /\ timers.list # << >>
  BY DEF TimerFires, FirstIsDue
<1>3. t \in ToSet(timers.list) /\ t \in Timer
  BY <1>2, FirstIsDueMeans
<1>4. \E after \in {taken} \cup {Started(taken, v) : v \in {w \in Timer : ~InHands(w)}}
                           \cup {Stopped(taken, v) : v \in {w \in Timer : ~InHands(w)}} :
          timers' = IF t \in Periodic /\ t \in after.active THEN Started(after, t)
                    ELSE [after EXCEPT !.active = after.active \ {t}]
  BY DEF TimerFires
<1> HIDE DEF t
<1>5. ~InHands(t)
  BY <1>1, <1>3 DEF InHands, HandsInv
<1>6. HandsLeftAlone(timers)
  BY <1>1 DEF HandsLeftAlone, HandsInv
<1>7. HandsLeftAlone(taken)
  BY <1>1, <1>3, <1>5, <1>6, OperationLeavesHands
<1> HIDE DEF taken
<1>8. PICK after :
          /\ HandsLeftAlone(after)
          /\ timers' = IF t \in Periodic /\ t \in after.active THEN Started(after, t)
                       ELSE [after EXCEPT !.active = after.active \ {t}]
  <2>1. PICK after \in {taken} \cup {Started(taken, v) : v \in {w \in Timer : ~InHands(w)}}
                               \cup {Stopped(taken, v) : v \in {w \in Timer : ~InHands(w)}} :
            timers' = IF t \in Periodic /\ t \in after.active THEN Started(after, t)
                      ELSE [after EXCEPT !.active = after.active \ {t}]
    BY <1>4
  <2>2. \A v \in {w \in Timer : ~InHands(w)} :
            HandsLeftAlone(Started(taken, v)) /\ HandsLeftAlone(Stopped(taken, v))
    BY <1>1, <1>7, OperationLeavesHands
  <2>3. HandsLeftAlone(after)
    BY <1>7, <2>1, <2>2
  <2> QED BY <2>1, <2>3
<1>9. HandsLeftAlone(timers')
  <2>1. CASE t \in Periodic /\ t \in after.active
    BY <1>1, <1>3, <1>5, <1>8, <2>1, OperationLeavesHands
  <2>2. CASE ~(t \in Periodic /\ t \in after.active)
    <3> DEFINE A == after.active \ {t}
    <3>1. timers' = [after EXCEPT !.active = A]
      BY <1>8, <2>2
    <3>2. ListInv(after) /\ after \in TimersState
      BY <1>8 DEF HandsLeftAlone, ListInv
    <3>3. A \in SUBSET Timer
      BY <3>2, Fields
    <3> HIDE DEF A
    <3>4. /\ timers' \in TimersState /\ timers'.tick = after.tick
          /\ timers'.list = after.list /\ timers'.deadline = after.deadline
          /\ timers'.left = after.left /\ timers'.checking = after.checking
          /\ timers'.use = after.use
      BY <3>1, <3>2, <3>3 DEF TimersState
    <3>5. ListInv(timers')
      BY <3>2, <3>4, SameTimes
    <3> QED BY <1>8, <3>4, <3>5 DEF HandsLeftAlone
  <2> QED BY <2>1, <2>2
<1>10. ListInv(timers') /\ HandsInv(timers') /\ timers'.checking
  BY <1>1, <1>2, <1>9, HandsKept DEF HandsLeftAlone
<1> QED BY <1>10 DEF TimersInv

\* A check ends with no timer in the list whose time has come.
LEMMA NoneIsDue ==
    ASSUME TimersInv, ~FirstIsDue, NEW t \in ToSet(timers.list)
    PROVE  timers.left[t] \in Int /\ timers.left[t] > 0
<1> DEFINE f == timers.list[1]
<1>1. /\ timers \in TimersState /\ timers.list \in Seq(Timer) /\ t \in Timer
      /\ timers.left \in [Timer -> Int] /\ SortedBy(timers.list, timers.left)
  BY Fields DEF TimersInv, ListInv
<1>2. timers.list # << >>
  BY <1>1, EmptyList
<1>3. timers.left[f] \in Int /\ timers.left[f] > 0
  BY <1>2, FirstIsDueMeans
<1>4. timers.left[f] <= timers.left[t]
  <2>1. Head(timers.list) = f  BY <1>1, <1>2
  <2>2. timers.left[Head(timers.list)] <= timers.left[t]
    BY <1>1, HeadIsBest
  <2> QED BY <2>1, <2>2
<1> QED BY <1>1, <1>3, <1>4

LEMMA CheckEndsStep ==
    ASSUME TimersInv, TimerCheckEnds
    PROVE  TimersInv'
<1>1. timers \in TimersState /\ ListInv(timers) /\ HandsInv(timers)
  BY DEF TimersInv, ListInv
<1>2. ~FirstIsDue /\ timers' = [timers EXCEPT !.checking = FALSE]
  BY DEF TimerCheckEnds
<1>3. /\ timers' \in TimersState /\ timers'.tick = timers.tick
      /\ timers'.list = timers.list /\ timers'.deadline = timers.deadline
      /\ timers'.left = timers.left /\ timers'.checking = FALSE
      /\ timers'.use = timers.use
  BY <1>1, <1>2 DEF TimersState
<1>4. ASSUME NEW t \in ToSet(timers.list)
      PROVE  DeadlineTells(timers', t) /\ WithinReach(timers', t, MostLate(timers'))
  <2>1. DeadlineTells(timers, t) /\ WithinReach(timers, t, MostLate(timers))
    BY <1>1 DEF ListInv
  <2>2. timers.left[t] \in Int /\ timers.left[t] > 0
    BY <1>2, NoneIsDue
  <2>3. WithinReach(timers', t, MostLate(timers'))
    BY <1>3, <2>1, <2>2, Ranges DEF WithinReach, MostLate
  <2>4. DeadlineTells(timers', t)
    BY <1>3, <2>1 DEF DeadlineTells
  <2> QED BY <2>3, <2>4
<1>5. ListInv(timers')
  BY <1>1, <1>3, <1>4 DEF ListInv
<1>6. HandsInv(timers')
  <2>1. \A u \in TimerUser : timers.use[u] # << >> =>
            timers.use[u][2] \notin ToSet(timers.list)
    BY <1>1 DEF HandsInv
  <2> QED BY <1>1, <1>3, <2>1, HandsKept
<1> QED BY <1>5, <1>6 DEF TimersInv

-----------------------------------------------------------------------------
(* The theorems.                                                           *)

LEMMA TimersStep == TimersInv /\ [TimersNext]_timers => TimersInv'
<1> SUFFICES ASSUME TimersInv, [TimersNext]_timers PROVE TimersInv'
  OBVIOUS
<1>1. ASSUME NEW u \in TimerUser, TimerCompute(u) PROVE TimersInv'
  BY <1>1, ComputeStep
<1>2. ASSUME NEW u \in TimerUser, TimerInsert(u) PROVE TimersInv'
  BY <1>2, InsertStep
<1>3. ASSUME NEW u \in TimerUser, TimerClear(u) PROVE TimersInv'
  BY <1>3, ClearStep
<1>4. ASSUME NEW u \in TimerUser, NEW t \in Timer, TimerStart(u, t) PROVE TimersInv'
  BY <1>4, StartStep
<1>5. ASSUME NEW u \in TimerUser, NEW t \in Timer, TimerStop(u, t) PROVE TimersInv'
  BY <1>5, StopStep
<1>6. ASSUME NEW u \in TimerUser, NEW t \in Timer, TimerSetTime(u, t) PROVE TimersInv'
  BY <1>6, SetTimeStep
<1>7. CASE TimerTick
  BY <1>7, TickStep
<1>8. CASE TimerFires
  BY <1>8, FiresStep
<1>9. CASE TimerCheckEnds
  BY <1>9, CheckEndsStep
<1>10. CASE UNCHANGED timers
  BY <1>10 DEF TimersInv
<1> QED BY <1>1, <1>2, <1>3, <1>4, <1>5, <1>6, <1>7, <1>8, <1>9, <1>10 DEF TimersNext

LEMMA TimersBegin == TimersInit => TimersInv
<1> SUFFICES ASSUME TimersInit PROVE TimersInv
  OBVIOUS
<1>1. PICK init \in [Timer -> InitTick], tick \in 0 .. TickRange - 1 :
          timers = [tick |-> tick, list |-> << >>, active |-> {}, init |-> init,
                    deadline |-> [t \in Timer |-> 0], left |-> [t \in Timer |-> 0],
                    checking |-> FALSE, use |-> [u \in TimerUser |-> << >>]]
  BY DEF TimersInit
<1>2. timers \in TimersState
  BY <1>1, Ranges DEF TimersState, Use
<1>3. timers.list = << >> /\ ToSet(timers.list) = {}
  BY <1>1 DEF ToSet
<1>4. IsInjective(timers.list) /\ SortedBy(timers.list, timers.left)
  BY <1>3 DEF IsInjective, SortedBy
<1>5. ListInv(timers)
  BY <1>2, <1>3, <1>4 DEF ListInv
<1>6. HandsInv(timers)
  BY <1>1 DEF HandsInv
<1> QED BY <1>5, <1>6 DEF TimersInv

LEMMA TimersInvariance == TimersSpec => []TimersInv
BY TimersBegin, TimersStep, PTL DEF TimersSpec

\* The list that rt_timer_start searches and rt_timer_check reads is always in
\* the order of the ticks that are left, and the deadlines tell how many those
\* are, wherever the count of ticks wraps.
THEOREM TimersAlwaysInOrder == TimersSpec => []TimersInOrder
<1>1. TimersInv => TimersInOrder
  <2> SUFFICES ASSUME TimersInv PROVE TimersInOrder
    OBVIOUS
  <2>1. timers \in TimersState /\ ListInv(timers)
    BY DEF TimersInv, ListInv
  <2>2. IsInjective(timers.list) /\ SortedBy(timers.list, timers.left)
    BY <2>1 DEF ListInv
  <2>3. ASSUME NEW t \in Listed
        PROVE  Minus(timers.deadline[t], timers.tick) = timers.left[t] % TickRange
    <3> DEFINE x == timers.tick + timers.left[t]
               y == -timers.tick
    <3>1. /\ t \in Timer /\ timers.tick \in Int /\ timers.left[t] \in Int
          /\ timers.deadline[t] \in Int /\ timers.deadline[t] = x % TickRange
      BY <2>1, Fields, Ranges DEF Listed, ListInv, DeadlineTells
    <3>2. x \in Int /\ y \in Int /\ x + y = timers.left[t]
          /\ \A i \in Int : i - timers.tick = i + y
      BY <3>1
    <3> HIDE DEF x, y
    <3>3. ((x % TickRange) + y) % TickRange = timers.left[t] % TickRange
      BY <3>2, WrapTwice
    <3>4. timers.deadline[t] - timers.tick = (x % TickRange) + y
      BY <3>1, <3>2
    <3> QED BY <3>3, <3>4 DEF Minus
  <2> QED BY <2>2, <2>3 DEF TimersInOrder, SortedBy
<1> QED BY <1>1, TimersInvariance, PTL

\* rt_timer_check calls no timeout function early, and leaves none behind whose
\* time has come.
THEOREM TimersAlwaysFireOnTime == TimersSpec => TimersFireOnTime
<1> DEFINE OnTime ==
        /\ timers.checking /\ timers'.checking => timers.left[timers.list[1]] <= 0
        /\ timers.checking /\ ~timers'.checking => \A t \in Listed : timers.left[t] > 0
<1>1. TimersInv /\ [TimersNext]_timers => [OnTime]_timers
  <2> SUFFICES ASSUME TimersInv, TimersNext, timers.checking PROVE OnTime
    OBVIOUS
  <2>1. ~\E u \in TimerUser :
            \/ TimerCompute(u) \/ TimerInsert(u) \/ TimerClear(u)
            \/ \E t \in Timer : TimerStart(u, t) \/ TimerStop(u, t) \/ TimerSetTime(u, t)
    BY DEF TimerCompute, TimerInsert, TimerClear, TimerStart, TimerStop, TimerSetTime,
           UserAt, UserCalls
  <2>2. TimerFires \/ TimerCheckEnds
    BY <2>1 DEF TimersNext, TimerTick
  <2>3. CASE TimerFires
    <3>1. FirstIsDue /\ timers.list # << >>
      BY <2>3 DEF TimerFires, FirstIsDue
    <3>2. timers.left[timers.list[1]] <= 0
      BY <3>1, FirstIsDueMeans
    <3>3. timers'.checking
      BY <2>3, FiresStep
    <3> QED BY <3>2, <3>3
  <2>4. CASE TimerCheckEnds
    <3>1. ~FirstIsDue /\ timers' = [timers EXCEPT !.checking = FALSE]
      BY <2>4 DEF TimerCheckEnds
    <3>2. timers'.checking = FALSE
      BY <3>1 DEF TimersInv, ListInv, TimersState
    <3> QED BY <3>1, <3>2, NoneIsDue DEF Listed
  <2> QED BY <2>2, <2>3, <2>4
<1>2. TimersFireOnTime <=> [][OnTime]_timers
  BY DEF TimersFireOnTime
<1> HIDE DEF OnTime
<1> QED BY <1>1, <1>2, TimersInvariance, PTL DEF TimersSpec

-----------------------------------------------------------------------------
(* The memory heap: the headers item, and the heap h.                      *)

Address == 0 .. Tailer
Header == [next : Address, prev : Address, used : BOOLEAN]

\* what lies behind a header reaches up to the next one
Behind(item, a) == item[a].next - a - HeaderSize

Chained(item) ==
    /\ {0, Tailer} \subseteq DOMAIN item /\ DOMAIN item \subseteq Address
    /\ item \in [DOMAIN item -> Header]
    /\ item[Tailer].next = 0 /\ item[Tailer].used
    /\ \A a \in DOMAIN item :
          /\ item[a].next \in DOMAIN item /\ item[a].prev \in DOMAIN item
          /\ item[item[a].next].prev = a /\ item[item[a].prev].next = a
          /\ a # Tailer => /\ a + HeaderSize + MinAlloc <= item[a].next
                           /\ \A b \in DOMAIN item : ~(a < b /\ b < item[a].next)

FreeIn(item) == {a \in DOMAIN item : ~item[a].used}

\* no two free blocks are neighbours
Apart(item) == \A a \in FreeIn(item) : item[a].next \notin FreeIn(item)

\* what the blocks F have together
UnitsOf(item, F) ==
    {x \in 0..PoolSize : \E a \in F : a + HeaderSize <= x /\ x < item[a].next}

HeapShape(h) ==
    h = [item |-> h.item, free |-> h.free, available |-> h.available, moving |-> h.moving]

\* the free list and the counter say what is free
FreeCounted(h) ==
    /\ h.free \in Seq(Address) /\ IsInjective(h.free) /\ ToSet(h.free) = FreeIn(h.item)
    /\ h.available = Cardinality(UnitsOf(h.item, FreeIn(h.item)))

HeapGood(h) ==
    /\ HeapShape(h) /\ Chained(h.item) /\ Apart(h.item) /\ FreeCounted(h)
    /\ h.moving \subseteq DOMAIN h.item \ FreeIn(h.item) /\ Tailer \notin h.moving

LEMMA HeapSizes ==
    /\ HeaderSize \in Nat /\ HeaderSize > 0 /\ MinAlloc \in Nat /\ MinAlloc > 0
    /\ PoolSize \in Nat /\ Tailer \in Nat /\ Tailer = PoolSize - HeaderSize /\ Tailer > 0
    /\ HeapRequest \subseteq Nat
BY MemHeapAssumption DEF Tailer

LEMMA ChainFacts ==
    ASSUME NEW item, Chained(item), NEW a \in DOMAIN item
    PROVE  /\ a \in 0 .. Tailer /\ item[a] \in Header
           /\ item[a].next \in 0 .. Tailer /\ item[a].prev \in 0 .. Tailer
           /\ item[a].next \in DOMAIN item /\ item[a].prev \in DOMAIN item
           /\ item[a].used \in BOOLEAN
           /\ item[item[a].next].prev = a /\ item[item[a].prev].next = a
           /\ a # Tailer => /\ a + HeaderSize + MinAlloc <= item[a].next
                            /\ \A b \in DOMAIN item : ~(a < b /\ b < item[a].next)
           /\ ~item[a].used => a # Tailer
<1>1. item \in [DOMAIN item -> Header] /\ DOMAIN item \subseteq Address
  BY DEF Chained
<1>2. item[a] \in Header
  BY <1>1
<1> QED BY <1>1, <1>2 DEF Chained, Header, Address

\* Block a takes in the block behind it.
TakesIn(item, w, a) ==
    LET b == item[a].next
        c == item[b].next
    IN  /\ DOMAIN w = DOMAIN item \ {b} /\ w \in [DOMAIN w -> Header]
        /\ w[a].next = c /\ w[c].prev = a
        /\ \A x \in DOMAIN item \ {a, b} : w[x].next = item[x].next
        /\ \A x \in DOMAIN item \ {b, c} : w[x].prev = item[x].prev
        /\ \A x \in DOMAIN item \ {b} : w[x].used = item[x].used

LEMMA TakenInChained ==
    ASSUME NEW item, Chained(item), NEW a \in DOMAIN item, a # Tailer,
           item[a].next # Tailer, NEW w, TakesIn(item, w, a)
    PROVE  Chained(w)
<1> DEFINE b == item[a].next
           c == item[b].next
           D == DOMAIN item
           N(x) == item[x].next
           P(x) == item[x].prev
           U(x) == item[x].used
           E == DOMAIN w
           M(x) == w[x].next
           Q(x) == w[x].prev
           V(x) == w[x].used
<1>1. /\ a \in D /\ b \in D /\ a \in Int /\ b \in Int /\ 0 <= a
      /\ a + HeaderSize + MinAlloc <= b
      /\ N(a) = b /\ P(b) = a
  <2>1. a \in D /\ b \in D /\ N(a) = b /\ P(b) = a
    BY ChainFacts
  <2>2. a \in 0 .. Tailer /\ b \in 0 .. Tailer /\ a + HeaderSize + MinAlloc <= b
    BY ChainFacts
  <2> HIDE DEF b, D, N, P
  <2> QED BY <2>1, <2>2, HeapSizes
<1>0. N(b) = c
  OBVIOUS
<1>3. \A x \in D : x \in Int /\ x \in Address
  BY ChainFacts DEF Address
<1>4. \A x \in D : N(x) \in D /\ P(x) \in D /\ P(N(x)) = x /\ N(P(x)) = x
  BY ChainFacts
<1>5. \A x \in D : x # Tailer => x + HeaderSize + MinAlloc <= N(x)
  BY ChainFacts
<1>6. \A x \in D : x # Tailer => \A y \in D : ~(x < y /\ y < N(x))
  BY ChainFacts
<1>7. 0 \in D /\ Tailer \in D /\ N(Tailer) = 0 /\ U(Tailer) /\ a # Tailer /\ b # Tailer
  BY DEF Chained
<1>8. E = D \ {b} /\ M(a) = c /\ Q(c) = a /\ w \in [E -> Header]
  BY DEF TakesIn
<1>9. /\ \A x \in D : x # a /\ x # b => M(x) = N(x)
      /\ \A x \in D : x # c /\ x # b => Q(x) = P(x)
      /\ \A x \in D : x # b => V(x) = U(x)
  BY DEF TakesIn
<1> HIDE DEF b, c, D, N, P, U, E, M, Q, V
<1>2. /\ c \in D /\ c \in Int
      /\ b + HeaderSize + MinAlloc <= c
      /\ N(b) = c /\ P(c) = b
  BY <1>0, <1>1, <1>3, <1>4, <1>5, <1>7
<1>10. a < b /\ b < c /\ b # 0 /\ a + HeaderSize + MinAlloc <= c
  BY <1>1, <1>2, HeapSizes
<1>11. \A x \in D : (N(x) = b => x = a) /\ (P(x) = b => x = c)
  BY <1>1, <1>2, <1>4
<1>12. \A x \in E : M(x) \in E /\ Q(x) \in E
  BY <1>1, <1>2, <1>4, <1>8, <1>9, <1>10, <1>11
<1>13. \A x \in E : Q(M(x)) = x
  BY <1>1, <1>2, <1>4, <1>8, <1>9, <1>12
<1>14. \A x \in E : M(Q(x)) = x
  BY <1>1, <1>2, <1>4, <1>8, <1>9, <1>12
<1>15. \A x \in E : x # Tailer => x + HeaderSize + MinAlloc <= M(x)
  BY <1>5, <1>8, <1>9, <1>10
<1>16. \A x \in E : x # Tailer => \A y \in E : ~(x < y /\ y < M(x))
  <2>1. \A y \in D : ~(a < y /\ y < b) /\ ~(b < y /\ y < c)
    BY <1>1, <1>2, <1>6, <1>7
  <2>2. \A y \in E : ~(a < y /\ y < c)
    BY <1>1, <1>3, <1>8, <2>1
  <2> QED BY <1>6, <1>8, <1>9, <2>2
<1>17. {0, Tailer} \subseteq E /\ E \subseteq Address /\ M(Tailer) = 0 /\ V(Tailer)
  BY <1>1, <1>3, <1>7, <1>8, <1>9, <1>10
<1> USE DEF E, M, Q, V
<1> QED BY <1>8, <1>12, <1>13, <1>14, <1>15, <1>16, <1>17 DEF Chained

\* Block b is cut off block a, whose header stays.
CutsOff(item, w, a, b) ==
    LET c == item[a].next
    IN  /\ DOMAIN w = DOMAIN item \cup {b} /\ w \in [DOMAIN w -> Header]
        /\ w[a].next = b /\ w[b].next = c /\ w[b].prev = a /\ w[c].prev = b
        /\ ~w[b].used
        /\ \A x \in DOMAIN item \ {a} : w[x].next = item[x].next
        /\ \A x \in DOMAIN item \ {c} : w[x].prev = item[x].prev
        /\ \A x \in DOMAIN item : w[x].used = item[x].used

LEMMA CutOffChained ==
    ASSUME NEW item, Chained(item), NEW a \in DOMAIN item, a # Tailer, NEW b \in Int,
           a + HeaderSize + MinAlloc <= b, b + HeaderSize + MinAlloc <= item[a].next,
           NEW w, CutsOff(item, w, a, b)
    PROVE  Chained(w) /\ b \notin DOMAIN item
<1> DEFINE c == item[a].next
           D == DOMAIN item
           N(x) == item[x].next
           P(x) == item[x].prev
           U(x) == item[x].used
           E == DOMAIN w
           M(x) == w[x].next
           Q(x) == w[x].prev
           V(x) == w[x].used
<1>1. /\ a \in D /\ c \in D /\ a \in Int /\ 0 <= a /\ c \in Int
      /\ N(a) = c /\ P(c) = a /\ c <= Tailer
      /\ a + HeaderSize + MinAlloc <= b /\ b + HeaderSize + MinAlloc <= c
  BY ChainFacts, HeapSizes, SMTT(30)
<1>2. \A x \in D : x \in Int /\ x \in Address
  BY ChainFacts DEF Address
<1>3. \A x \in D : N(x) \in D /\ P(x) \in D /\ P(N(x)) = x /\ N(P(x)) = x
  BY ChainFacts
<1>4. \A x \in D : x # Tailer => x + HeaderSize + MinAlloc <= N(x)
  BY ChainFacts
<1>5. \A x \in D : x # Tailer => \A y \in D : ~(x < y /\ y < N(x))
  BY ChainFacts
<1>6. 0 \in D /\ Tailer \in D /\ N(Tailer) = 0 /\ U(Tailer) /\ a # Tailer
  BY DEF Chained
<1>7. /\ E = D \cup {b} /\ M(a) = b /\ M(b) = c /\ Q(b) = a /\ Q(c) = b
      /\ w \in [E -> Header]
  BY DEF CutsOff
<1>8. /\ \A x \in D : x # a => M(x) = N(x)
      /\ \A x \in D : x # c => Q(x) = P(x)
      /\ \A x \in D : V(x) = U(x)
  BY DEF CutsOff
<1> HIDE DEF c, D, N, P, U, E, M, Q, V
<1>9. a < b /\ b < c /\ b # Tailer /\ b # 0 /\ b \in Address
  BY <1>1, HeapSizes DEF Address
<1>10. b \notin D
  BY <1>1, <1>5, <1>6, <1>9
<1>11. \A x \in D : (N(x) = c => x = a) /\ (P(x) = a => x = c)
  BY <1>1, <1>3
<1>12. \A x \in E : M(x) \in E /\ Q(x) \in E
  BY <1>1, <1>3, <1>7, <1>8
<1>13. \A x \in E : Q(M(x)) = x
  BY <1>1, <1>3, <1>7, <1>8, <1>10, <1>11
<1>14. \A x \in E : M(Q(x)) = x
  BY <1>1, <1>3, <1>7, <1>8, <1>10, <1>11
<1>15. \A x \in E : x # Tailer => x + HeaderSize + MinAlloc <= M(x)
  BY <1>1, <1>4, <1>7, <1>8
<1>16. \A x \in E : x # Tailer => \A y \in E : ~(x < y /\ y < M(x))
  <2>1. \A y \in D : ~(a < y /\ y < c)
    BY <1>1, <1>5, <1>6
  <2>2. \A y \in E : ~(a < y /\ y < b) /\ ~(b < y /\ y < c)
    BY <1>1, <1>2, <1>7, <1>9, <2>1
  <2>3. \A x \in D : x # Tailer /\ x # a => \A y \in E : ~(x < y /\ y < N(x))
    <3>1. ASSUME NEW x \in D, x # Tailer, x # a PROVE ~(x < b /\ b < N(x))
      <4>1. ~(x < a /\ a < N(x)) /\ ~(x < c /\ c < N(x)) /\ ~(a < x /\ x < c)
        BY <1>1, <1>5, <2>1, <3>1
      <4>2. x \in Int /\ N(x) \in Int /\ N(x) # c
        BY <1>2, <1>3, <1>11, <3>1
      <4> QED BY <1>1, <1>9, <3>1, <4>1, <4>2
    <3> QED BY <1>5, <1>7, <3>1
  <2> QED BY <1>7, <1>8, <2>2, <2>3
<1>17. {0, Tailer} \subseteq E /\ E \subseteq Address /\ M(Tailer) = 0 /\ V(Tailer)
  BY <1>2, <1>6, <1>7, <1>8, <1>9
<1> USE DEF D, E, M, Q, V
<1> QED BY <1>7, <1>10, <1>12, <1>13, <1>14, <1>15, <1>16, <1>17 DEF Chained

\* Only the flags differ.
MarksOnly(item, w) ==
    /\ DOMAIN w = DOMAIN item /\ w \in [DOMAIN w -> Header] /\ w[Tailer].used
    /\ \A x \in DOMAIN item : w[x].next = item[x].next /\ w[x].prev = item[x].prev

LEMMA MarkedChained ==
    ASSUME NEW item, Chained(item), NEW w, MarksOnly(item, w)
    PROVE  Chained(w)
<1> DEFINE D == DOMAIN item
           E == DOMAIN w
           N(x) == item[x].next
           P(x) == item[x].prev
           M(x) == w[x].next
           Q(x) == w[x].prev
<1>1. E = D /\ w \in [E -> Header] /\ w[Tailer].used
  BY DEF MarksOnly
<1>2. \A x \in D : M(x) = N(x) /\ Q(x) = P(x)
  BY DEF MarksOnly
<1>3. \A x \in D : N(x) \in D /\ P(x) \in D /\ P(N(x)) = x /\ N(P(x)) = x
  BY ChainFacts
<1>4. \A x \in D : x # Tailer => x + HeaderSize + MinAlloc <= N(x)
  BY ChainFacts
<1>5. \A x \in D : x # Tailer => \A y \in D : ~(x < y /\ y < N(x))
  BY ChainFacts
<1>6. {0, Tailer} \subseteq D /\ D \subseteq Address /\ N(Tailer) = 0
  BY DEF Chained
<1> HIDE DEF D, E, N, P, M, Q
<1>7. \A x \in E : M(x) \in E /\ Q(x) \in E /\ Q(M(x)) = x /\ M(Q(x)) = x
  BY <1>1, <1>2, <1>3
<1>8. \A x \in E : x # Tailer => x + HeaderSize + MinAlloc <= M(x)
  BY <1>1, <1>2, <1>4
<1>9. \A x \in E : x # Tailer => \A y \in E : ~(x < y /\ y < M(x))
  BY <1>1, <1>2, <1>5
<1>10. M(Tailer) = 0
  BY <1>2, <1>6
<1> USE DEF E, M, Q
<1> QED BY <1>1, <1>6, <1>7, <1>8, <1>9, <1>10 DEF Chained

LEMMA AbsorbedTakesIn ==
    ASSUME NEW h, HeapShape(h), Chained(h.item), NEW a \in DOMAIN h.item, a # Tailer,
           h.item[a].next # Tailer
    PROVE  LET g == Absorbed(h, a) IN
           /\ HeapShape(g) /\ TakesIn(h.item, g.item, a)
           /\ g.free = h.free /\ g.available = h.available /\ g.moving = h.moving
<1> DEFINE item == h.item
           b == item[a].next
           c == item[b].next
           without == [x \in DOMAIN item \ {b} |-> item[x]]
           w == [without EXCEPT ![a].next = c, ![c].prev = a]
           g == Absorbed(h, a)
<1>1. \A x \in DOMAIN item : item[x] \in Header /\ x \in Int
  BY ChainFacts
<1>2. /\ b \in DOMAIN item /\ a \in Int /\ a + HeaderSize + MinAlloc <= b
      /\ b \in Int
  BY ChainFacts, SMTT(30)
<1>3. /\ c \in DOMAIN item /\ b + HeaderSize + MinAlloc <= c
  BY <1>2, ChainFacts
<1>4. g = [h EXCEPT !.item = w]
  BY DEF Absorbed
<1>0. a \in Address /\ c \in Address
  BY <1>3 DEF Chained
<1> HIDE DEF b, c, g
<1>5. c \in Int /\ a # b /\ a # c /\ b # c
  BY <1>1, <1>2, <1>3, HeapSizes
<1>6. without \in [DOMAIN item \ {b} -> Header]
  BY <1>1
<1>7. /\ DOMAIN w = DOMAIN item \ {b}
      /\ w[a] = [item[a] EXCEPT !.next = c]
      /\ w[c] = [item[c] EXCEPT !.prev = a]
      /\ \A x \in DOMAIN item \ {a, b, c} : w[x] = item[x]
  BY <1>3, <1>5
<1> HIDE DEF w, without
<1>8. w[a] \in Header /\ w[a].next = c /\ w[a].prev = item[a].prev /\ w[a].used = item[a].used
  BY <1>0, <1>1, <1>5, <1>7 DEF Header
<1>9. w[c] \in Header /\ w[c].prev = a /\ w[c].next = item[c].next /\ w[c].used = item[c].used
  BY <1>0, <1>1, <1>3, <1>5, <1>7 DEF Header
<1>10. \A x \in DOMAIN w : w[x] \in Header
  BY <1>1, <1>7, <1>8, <1>9
<1>11. w \in [DOMAIN w -> Header]
  <2>1. w = [x \in DOMAIN w |-> w[x]]
    BY DEF w
  <2> QED BY <1>10, <2>1
<1>12. TakesIn(item, w, a)
  <2>1. \A x \in DOMAIN item \ {a, b} : w[x].next = item[x].next
    BY <1>7, <1>9
  <2>2. \A x \in DOMAIN item \ {b, c} : w[x].prev = item[x].prev
    BY <1>7, <1>8
  <2>3. \A x \in DOMAIN item \ {b} : w[x].used = item[x].used
    BY <1>7, <1>8, <1>9
  <2> QED BY <1>7, <1>8, <1>9, <1>11, <2>1, <2>2, <2>3 DEF TakesIn, b, c
<1> HIDE DEF item
<1>13. HeapShape(g) /\ g.item = w /\ g.free = h.free /\ g.available = h.available
       /\ g.moving = h.moving
  BY <1>4 DEF HeapShape
<1> QED BY <1>12, <1>13 DEF g, item

LEMMA InsertedCutsOff ==
    ASSUME NEW h, HeapShape(h), Chained(h.item), NEW a \in DOMAIN h.item, a # Tailer,
           NEW b \in Int, a + HeaderSize + MinAlloc <= b,
           b + HeaderSize + MinAlloc <= h.item[a].next
    PROVE  LET g == Inserted(h, a, b) IN
           /\ HeapShape(g) /\ CutsOff(h.item, g.item, a, b)
           /\ g.free = h.free /\ g.available = h.available /\ g.moving = h.moving
<1> DEFINE item == h.item
           c == item[a].next
           new == [next |-> c, prev |-> a, used |-> FALSE]
           with == [x \in DOMAIN item \cup {b} |-> IF x = b THEN new ELSE item[x]]
           w == [with EXCEPT ![a].next = b, ![c].prev = b]
           g == Inserted(h, a, b)
<1>1. \A x \in DOMAIN item : item[x] \in Header /\ x \in Int
  BY ChainFacts
<1>2. c \in DOMAIN item /\ a \in 0 .. Tailer /\ c \in 0 .. Tailer
  BY ChainFacts
<1>3. \A x \in DOMAIN item : ~(a < x /\ x < c)
  BY ChainFacts
<1>4. g = [h EXCEPT !.item = w]
  BY DEF Inserted
<1>5. /\ a # b /\ a # c /\ b # c /\ a \in Address /\ b \in Address /\ c \in Address
      /\ b \notin DOMAIN item
  BY <1>1, <1>2, <1>3, HeapSizes DEF Address
<1> HIDE DEF c, g
<1>6. new \in Header /\ new.next = c /\ new.prev = a /\ ~new.used
  BY <1>5 DEF Header
<1> HIDE DEF new
<1>7. /\ DOMAIN w = DOMAIN item \cup {b}
      /\ w[a] = [item[a] EXCEPT !.next = b]
      /\ w[c] = [item[c] EXCEPT !.prev = b]
      /\ w[b] = new
      /\ \A x \in DOMAIN item \ {a, c} : w[x] = item[x]
  BY <1>2, <1>5
<1>0. w = [x \in DOMAIN w |-> w[x]]
  OBVIOUS
<1> HIDE DEF w, with
<1>8. w[a] \in Header /\ w[a].next = b /\ w[a].prev = item[a].prev /\ w[a].used = item[a].used
  BY <1>1, <1>5, <1>7 DEF Header
<1>9. w[c] \in Header /\ w[c].prev = b /\ w[c].next = item[c].next /\ w[c].used = item[c].used
  BY <1>1, <1>2, <1>5, <1>7 DEF Header
<1>10. \A x \in DOMAIN w : w[x] \in Header
  BY <1>1, <1>6, <1>7, <1>8, <1>9
<1>11. w \in [DOMAIN w -> Header]
  BY <1>0, <1>10
<1>12. CutsOff(item, w, a, b)
  <2>1. \A x \in DOMAIN item \ {a} : w[x].next = item[x].next
    BY <1>7, <1>9
  <2>2. \A x \in DOMAIN item \ {c} : w[x].prev = item[x].prev
    BY <1>7, <1>8
  <2>3. \A x \in DOMAIN item : w[x].used = item[x].used
    BY <1>7, <1>8, <1>9
  <2> QED BY <1>6, <1>7, <1>8, <1>9, <1>11, <2>1, <2>2, <2>3 DEF CutsOff, c
<1> HIDE DEF item
<1>13. HeapShape(g) /\ g.item = w /\ g.free = h.free /\ g.available = h.available
       /\ g.moving = h.moving
  BY <1>4 DEF HeapShape
<1> QED BY <1>12, <1>13 DEF g, item

\* A block more has as many units more as there are behind its header.
LEMMA UnitsMore ==
    ASSUME NEW item, Chained(item), NEW F \in SUBSET (DOMAIN item \ {Tailer}),
           NEW a \in DOMAIN item \ {Tailer}, a \notin F
    PROVE  /\ Cardinality(UnitsOf(item, F)) \in Nat /\ Behind(item, a) \in Int
           /\ Cardinality(UnitsOf(item, F \cup {a}))
                 = Cardinality(UnitsOf(item, F)) + Behind(item, a)
<1> DEFINE b == item[a].next
           low == a + HeaderSize
           own == low .. b - 1
           rest == UnitsOf(item, F)
<1>1. a \in 0 .. Tailer /\ b \in 0 .. Tailer /\ low + MinAlloc <= b
  BY ChainFacts
<1>2. low \in Int /\ b - 1 \in Int /\ low <= b - 1 /\ own \subseteq 0 .. PoolSize
  BY <1>1, HeapSizes
<1>3. IsFiniteSet(own) /\ Cardinality(own) = b - low
  <2> DEFINE high == b - 1
  <2> HIDE DEF high, low
  <2>1. low \in Int /\ high \in Int /\ low <= high
    BY <1>2 DEF high
  <2>2. IsFiniteSet(low .. high) /\ Cardinality(low .. high) = high - low + 1
    BY <2>1, FS_Interval
  <2>3. high - low + 1 = b - low
    BY <1>1, <2>1 DEF high
  <2> QED BY <2>2, <2>3 DEF high
<1>4. IsFiniteSet(rest) /\ Cardinality(rest) \in Nat
  <2>1. 0 \in Int /\ PoolSize \in Int
    BY HeapSizes
  <2>2. IsFiniteSet(0 .. PoolSize)
    BY <2>1, FS_Interval
  <2>3. rest \subseteq 0 .. PoolSize
    BY DEF UnitsOf
  <2> HIDE DEF rest
  <2> QED BY <2>2, <2>3, FS_Subset, FS_CardinalityType
<1>5. UnitsOf(item, F \cup {a}) = rest \cup own
  <2>1. \A x \in Int : x \in own <=> low <= x /\ x < b
    BY <1>1, <1>2
  <2>2. \A x \in 0 .. PoolSize : x \in Int
    BY HeapSizes
  <2> HIDE DEF own
  <2>3. \A x \in 0 .. PoolSize :
           x \in UnitsOf(item, F \cup {a}) <=> x \in UnitsOf(item, F) \/ x \in own
    BY <2>1, <2>2 DEF UnitsOf
  <2> QED BY <1>2, <2>3 DEF UnitsOf
<1>6. rest \cap own = {}
  <2>1. SUFFICES ASSUME NEW x \in Int, NEW f \in F, f + HeaderSize <= x, x < item[f].next,
                        low <= x, x < b
                 PROVE  FALSE
    <3>1. \A x \in own : x \in Int /\ low <= x /\ x < b
      BY <1>1, <1>2
    <3>2. \A x \in rest : \E f \in F : f + HeaderSize <= x /\ x < item[f].next
      BY DEF UnitsOf
    <3> HIDE DEF own, rest
    <3> QED BY <3>1, <3>2
  <2>2. f \in 0 .. Tailer /\ item[f].next \in 0 .. Tailer
        /\ \A y \in DOMAIN item : ~(f < y /\ y < item[f].next)
    BY ChainFacts
  <2>3. \A y \in DOMAIN item : ~(a < y /\ y < b)
    BY ChainFacts
  <2>4. ~(f < a /\ a < item[f].next) /\ ~(a < f /\ f < b) /\ f # a
    BY <2>2, <2>3
  <2> QED BY <1>1, <2>1, <2>2, <2>4, HeapSizes
<1> HIDE DEF rest, own
<1>7. Cardinality(rest \cup own) = Cardinality(rest) + Cardinality(own) - Cardinality(rest \cap own)
  BY <1>3, <1>4, FS_Union
<1>8. Cardinality(rest \cap own) = 0
  BY <1>6, FS_EmptySet
<1>9. b - low = Behind(item, a) /\ b - low \in Int
  <2> HIDE DEF b
  <2> QED BY <1>1, <1>2, HeapSizes DEF Behind, b
<1>10. Cardinality(rest \cup own) = Cardinality(rest) + Behind(item, a)
  BY <1>3, <1>4, <1>7, <1>8, <1>9
<1> QED BY <1>4, <1>5, <1>9, <1>10 DEF rest

LEMMA UnitsSame ==
    ASSUME NEW item, NEW w, NEW F, \A x \in F : w[x].next = item[x].next
    PROVE  UnitsOf(w, F) = UnitsOf(item, F)
BY DEF UnitsOf

LEMMA FreeFacts ==
    ASSUME NEW item, Chained(item)
    PROVE  /\ FreeIn(item) \in SUBSET (DOMAIN item \ {Tailer})
           /\ \A x \in FreeIn(item) : x \in DOMAIN item /\ x \in Address /\ ~item[x].used
BY DEF FreeIn, Chained

\* The flag of one block.
LEMMA OneMarked ==
    ASSUME NEW item, Chained(item), NEW a \in DOMAIN item \ {Tailer}, NEW v \in BOOLEAN
    PROVE  LET w == [item EXCEPT ![a].used = v] IN
           /\ MarksOnly(item, w)
           /\ v => FreeIn(w) = FreeIn(item) \ {a}
           /\ ~v => FreeIn(w) = FreeIn(item) \cup {a}
<1> DEFINE w == [item EXCEPT ![a].used = v]
<1>1. \A x \in DOMAIN item : item[x] \in Header
  BY ChainFacts
<1>2. item = [x \in DOMAIN item |-> item[x]] /\ item[Tailer].used /\ Tailer \in DOMAIN item
  BY DEF Chained
<1>3. /\ DOMAIN w = DOMAIN item /\ w[a] = [item[a] EXCEPT !.used = v]
      /\ \A x \in DOMAIN item \ {a} : w[x] = item[x]
      /\ w = [x \in DOMAIN item |-> w[x]]
  BY <1>2
<1> HIDE DEF w
<1>4. w[a] \in Header /\ w[a].next = item[a].next /\ w[a].prev = item[a].prev /\ w[a].used = v
  BY <1>1, <1>3 DEF Header
<1>5. w \in [DOMAIN w -> Header]
  BY <1>1, <1>3, <1>4
<1>6. MarksOnly(item, w)
  BY <1>2, <1>3, <1>4, <1>5 DEF MarksOnly
<1>7. /\ v => FreeIn(w) = FreeIn(item) \ {a}
      /\ ~v => FreeIn(w) = FreeIn(item) \cup {a}
  BY <1>3, <1>4 DEF FreeIn
<1> QED BY <1>6, <1>7 DEF w

\* What allocation and its like leave: blocks in use stay in use.
KeepsUsed(item, w) ==
    \A x \in DOMAIN item : item[x].used => x \in DOMAIN w /\ w[x].used

LEMMA FirstFits ==
    ASSUME HeapGood(heap), NEW size \in Nat, CanAlloc(size)
    PROVE  LET a == heap.free[FirstFit(size)] IN
           a \in FreeIn(heap.item) /\ Behind(heap.item, a) >= size
<1> DEFINE i == FirstFit(size)
           I == {k \in 1 .. Len(heap.free) : ItemSize(heap, heap.free[k]) >= size}
<1>1. heap.free \in Seq(Address) /\ ToSet(heap.free) = FreeIn(heap.item)
  BY DEF HeapGood, FreeCounted
<1>2. i = IF I # {} THEN Min(I) ELSE 0
  BY DEF FirstFit, SelectInSeq
<1>3. i > 0
  BY DEF CanAlloc
<1>4. I # {} /\ I \in SUBSET Nat
  BY <1>2, <1>3
<1> HIDE DEF i, I
<1>5. \E k \in I : \A j \in I : k <= j
  BY <1>4, LeastElement
<1>6. i \in I
  BY <1>2, <1>4, <1>5 DEF Min
<1>7. i \in 1 .. Len(heap.free) /\ ItemSize(heap, heap.free[i]) >= size
  BY <1>6 DEF I
<1>8. heap.free[i] \in FreeIn(heap.item)
  BY <1>1, <1>7 DEF ToSet
<1> QED BY <1>7, <1>8 DEF i, ItemSize, Behind

\* how much the free blocks have together
UnitCount(item) == Cardinality(UnitsOf(item, FreeIn(item)))

LEMMA UnitCountType ==
    ASSUME NEW item, Chained(item)
    PROVE  UnitCount(item) \in Nat /\ \A a \in DOMAIN item : Behind(item, a) \in Int
<1>1. \A a \in DOMAIN item : a \in Int /\ item[a].next \in Int
  BY ChainFacts
<1>2. \A a \in DOMAIN item : Behind(item, a) \in Int
  BY <1>1, HeapSizes DEF Behind
<1>3. 0 \in Int /\ PoolSize \in Int
  BY HeapSizes
<1>4. IsFiniteSet(0 .. PoolSize)
  BY <1>3, FS_Interval
<1>5. UnitsOf(item, FreeIn(item)) \subseteq 0 .. PoolSize
  BY DEF UnitsOf
<1>6. UnitCount(item) \in Nat
  BY <1>4, <1>5, FS_Subset, FS_CardinalityType DEF UnitCount
<1> QED BY <1>2, <1>6

\* A block that is free counts with all that lies behind its header.
LEMMA FreeBlockCounts ==
    ASSUME NEW item, Chained(item), NEW a \in FreeIn(item)
    PROVE  /\ Cardinality(UnitsOf(item, FreeIn(item) \ {a})) \in Nat
           /\ Behind(item, a) \in Int
           /\ UnitCount(item)
                 = Cardinality(UnitsOf(item, FreeIn(item) \ {a})) + Behind(item, a)
<1> DEFINE F == FreeIn(item) \ {a}
<1>1. F \in SUBSET (DOMAIN item \ {Tailer}) /\ a \in DOMAIN item \ {Tailer} /\ a \notin F
  BY FreeFacts
<1>2. FreeIn(item) = F \cup {a}
  OBVIOUS
<1> HIDE DEF F
<1>3. /\ Cardinality(UnitsOf(item, F)) \in Nat /\ Behind(item, a) \in Int
      /\ Cardinality(UnitsOf(item, F \cup {a}))
            = Cardinality(UnitsOf(item, F)) + Behind(item, a)
  BY <1>1, UnitsMore
<1> QED BY <1>2, <1>3 DEF F, UnitCount

LEMMA MarkedCounts ==
    ASSUME NEW item, Chained(item), NEW a \in DOMAIN item \ {Tailer}, NEW v \in BOOLEAN
    PROVE  LET w == [item EXCEPT ![a].used = v] IN
           /\ Chained(w) /\ MarksOnly(item, w)
           /\ v => FreeIn(w) = FreeIn(item) \ {a}
           /\ ~v => FreeIn(w) = FreeIn(item) \cup {a}
           /\ v /\ a \in FreeIn(item) => UnitCount(w) = UnitCount(item) - Behind(item, a)
           /\ ~v /\ a \notin FreeIn(item) => UnitCount(w) = UnitCount(item) + Behind(item, a)
<1> DEFINE w == [item EXCEPT ![a].used = v]
<1>1. /\ MarksOnly(item, w)
      /\ v => FreeIn(w) = FreeIn(item) \ {a}
      /\ ~v => FreeIn(w) = FreeIn(item) \cup {a}
  BY OneMarked
<1> HIDE DEF w
<1>2. Chained(w)
  BY <1>1, MarkedChained
<1>3. \A x \in DOMAIN item : w[x].next = item[x].next
  BY <1>1 DEF MarksOnly
<1>4. FreeIn(item) \in SUBSET (DOMAIN item \ {Tailer})
  BY FreeFacts
<1>5. UnitsOf(w, FreeIn(item) \ {a}) = UnitsOf(item, FreeIn(item) \ {a})
  BY <1>3, <1>4, UnitsSame
<1>6. ASSUME v, a \in FreeIn(item)
      PROVE  UnitCount(w) = UnitCount(item) - Behind(item, a)
  BY <1>1, <1>5, <1>6, FreeBlockCounts DEF UnitCount
<1>7. ASSUME ~v, a \notin FreeIn(item)
      PROVE  UnitCount(w) = UnitCount(item) + Behind(item, a)
  <2>1. a \in FreeIn(w) /\ FreeIn(w) \ {a} = FreeIn(item) /\ FreeIn(item) \ {a} = FreeIn(item)
    BY <1>1, <1>7
  <2>2. Behind(w, a) = Behind(item, a)
    BY <1>3 DEF Behind
  <2>3. UnitCount(w) = Cardinality(UnitsOf(w, FreeIn(w) \ {a})) + Behind(w, a)
    BY <1>2, <2>1, FreeBlockCounts
  <2> QED BY <1>5, <2>1, <2>2, <2>3 DEF UnitCount
<1> QED BY <1>1, <1>2, <1>6, <1>7 DEF w

\* Two free neighbours that become one have the second one's header, too.
LEMMA MergedCounts ==
    ASSUME NEW item, Chained(item), NEW a \in FreeIn(item), item[a].next \in FreeIn(item),
           NEW w, TakesIn(item, w, a)
    PROVE  /\ Chained(w) /\ FreeIn(w) = FreeIn(item) \ {item[a].next}
           /\ UnitCount(w) = UnitCount(item) + HeaderSize
           /\ Behind(w, a) = Behind(item, a) + HeaderSize + Behind(item, item[a].next)
<1> DEFINE b == item[a].next
           F == FreeIn(item) \ {a, b}
<1>1. a \in DOMAIN item /\ a # Tailer /\ b \in DOMAIN item /\ b # Tailer /\ a \in Int /\ b \in Int
  BY SMTT(30), ChainFacts, FreeFacts
<1>2. /\ Chained(w) /\ FreeIn(w) = FreeIn(item) \ {b}
      /\ \A x \in DOMAIN w : x # a => w[x].next = item[x].next
      /\ DOMAIN w = DOMAIN item \ {b} /\ w[a].next = item[b].next
  <2>1. Chained(w)
    BY <1>1, TakenInChained
  <2>2. /\ FreeIn(w) = FreeIn(item) \ {b}
        /\ \A x \in DOMAIN w : x # a => w[x].next = item[x].next
        /\ DOMAIN w = DOMAIN item \ {b} /\ w[a].next = item[b].next
    BY <1>1 DEF TakesIn, FreeIn
  <2> QED BY <2>1, <2>2
<1>3. a # b /\ item[b].next \in Int
  <2>1. a + HeaderSize + MinAlloc <= b
    BY <1>1, ChainFacts
  <2>2. item[b].next \in 0 .. Tailer
    BY <1>1, ChainFacts
  <2> QED BY <1>1, <2>1, <2>2, HeapSizes
<1>4. Behind(w, a) = Behind(item, a) + HeaderSize + Behind(item, b)
  <2> DEFINE c == item[b].next
  <2>1. Behind(w, a) = c - a - HeaderSize /\ Behind(item, a) = b - a - HeaderSize
        /\ Behind(item, b) = c - b - HeaderSize /\ c \in Int
    BY <1>2, <1>3 DEF Behind
  <2> HIDE DEF b, c
  <2> QED BY <1>1, <2>1, HeapSizes
<1>5. FreeIn(w) \ {a} = F /\ a \in FreeIn(w)
  BY <1>2, <1>3
<1>6. UnitsOf(w, F) = UnitsOf(item, F)
  <2>1. \A x \in F : x \in DOMAIN w /\ x # a
    BY <1>2, FreeFacts
  <2> QED BY <1>2, <2>1, UnitsSame
<1>7. UnitCount(w) = Cardinality(UnitsOf(w, F)) + Behind(w, a)
  BY <1>2, <1>5, FreeBlockCounts
<1>8. /\ UnitCount(item) = Cardinality(UnitsOf(item, F \cup {b})) + Behind(item, a)
      /\ Behind(item, a) \in Int
  <2>1. FreeIn(item) \ {a} = F \cup {b}
    BY <1>3
  <2> QED BY <2>1, FreeBlockCounts
<1>9. /\ Cardinality(UnitsOf(item, F)) \in Nat /\ Behind(item, b) \in Int
      /\ Cardinality(UnitsOf(item, F \cup {b})) = Cardinality(UnitsOf(item, F)) + Behind(item, b)
  <2>1. F \in SUBSET (DOMAIN item \ {Tailer}) /\ b \in DOMAIN item \ {Tailer} /\ b \notin F
    BY <1>1, FreeFacts
  <2> HIDE DEF F, b
  <2> QED BY <2>1, UnitsMore
<1>10. UnitCount(w) = UnitCount(item) + HeaderSize
  <2> DEFINE u == Cardinality(UnitsOf(item, F))
             q == Behind(item, b)
             p == Behind(item, a)
  <2>1. UnitCount(w) = u + (p + HeaderSize + q) /\ UnitCount(item) = u + q + p
        /\ u \in Int /\ p \in Int /\ q \in Int
    BY <1>4, <1>6, <1>7, <1>8, <1>9
  <2> HIDE DEF u, p, q
  <2> QED BY <2>1, HeapSizes
<1> QED BY <1>2, <1>4, <1>10

\* A used block that takes in a free one.
LEMMA GivenCounts ==
    ASSUME NEW item, Chained(item), NEW a \in DOMAIN item \ FreeIn(item), a # Tailer,
           item[a].next \in FreeIn(item), NEW w, TakesIn(item, w, a)
    PROVE  /\ Chained(w) /\ FreeIn(w) = FreeIn(item) \ {item[a].next}
           /\ UnitCount(w) = UnitCount(item) - Behind(item, item[a].next)
<1> DEFINE b == item[a].next
<1>1. b \in DOMAIN item /\ b # Tailer /\ a \in DOMAIN item
  BY FreeFacts
<1>2. Chained(w)
  BY <1>1, TakenInChained
<1>3. /\ FreeIn(w) = FreeIn(item) \ {b} /\ DOMAIN w = DOMAIN item \ {b}
      /\ \A x \in DOMAIN w : x # a => w[x].next = item[x].next
  BY <1>1 DEF TakesIn, FreeIn
<1>4. \A x \in FreeIn(item) \ {b} : w[x].next = item[x].next
  BY <1>3, FreeFacts
<1>5. UnitsOf(w, FreeIn(w)) = UnitsOf(item, FreeIn(item) \ {b})
  BY <1>3, <1>4, UnitsSame
<1>6. UnitCount(item) = UnitCount(w) + Behind(item, b)
  BY <1>5, FreeBlockCounts DEF UnitCount
<1> QED BY <1>2, <1>3, <1>6, UnitCountType, <1>1

\* A block that is cut off a used one adds what lies behind its header, one
\* that is cut off a free one costs its header.
LEMMA CutOffCounts ==
    ASSUME NEW item, Chained(item), NEW a \in DOMAIN item, a # Tailer, NEW b \in Int,
           a + HeaderSize + MinAlloc <= b, b + HeaderSize + MinAlloc <= item[a].next,
           NEW w, CutsOff(item, w, a, b)
    PROVE  /\ Chained(w) /\ b \notin DOMAIN item /\ b \in Address
           /\ FreeIn(w) = FreeIn(item) \cup {b}
           /\ a \notin FreeIn(item) => UnitCount(w) = UnitCount(item) + Behind(w, b)
           /\ a \in FreeIn(item) => UnitCount(w) = UnitCount(item) - HeaderSize
           /\ Behind(w, b) = item[a].next - b - HeaderSize
           /\ Behind(w, a) = b - a - HeaderSize
<1> DEFINE F == FreeIn(item)
           c == item[a].next
<1>1. Chained(w) /\ b \notin DOMAIN item
  BY CutOffChained
<1>2. /\ FreeIn(w) = F \cup {b} /\ b \notin F /\ DOMAIN w = DOMAIN item \cup {b}
      /\ \A x \in DOMAIN item : x # a => w[x].next = item[x].next
      /\ w[a].next = b /\ w[b].next = c
  BY <1>1 DEF CutsOff, FreeIn
<1>3. b \in Address
  <2>1. b \in DOMAIN w
    BY <1>2
  <2> QED BY <1>1, <2>1 DEF Chained
<1>4. Behind(w, b) = c - b - HeaderSize /\ Behind(w, a) = b - a - HeaderSize
  BY <1>2 DEF Behind
<1>5. a \in Int /\ c \in Int
  BY SMTT(30), ChainFacts
<1>6. ASSUME a \notin F PROVE UnitCount(w) = UnitCount(item) + Behind(w, b)
  <2>1. \A x \in F : w[x].next = item[x].next
    BY <1>2, <1>6, FreeFacts
  <2>2. UnitsOf(w, F) = UnitsOf(item, F)
    BY <2>1, UnitsSame
  <2>3. FreeIn(w) \ {b} = F /\ b \in FreeIn(w)
    BY <1>2
  <2> QED BY <1>1, <2>2, <2>3, FreeBlockCounts DEF UnitCount
<1>7. ASSUME a \in F PROVE UnitCount(w) = UnitCount(item) - HeaderSize
  <2> DEFINE G == F \ {a}
             u == Cardinality(UnitsOf(item, G))
  <2>1. \A x \in G : w[x].next = item[x].next
    BY <1>2, FreeFacts
  <2>2. UnitsOf(w, G) = UnitsOf(item, G)
    BY <2>1, UnitsSame
  <2>3. UnitCount(item) = u + Behind(item, a) /\ u \in Nat
    BY <1>7, FreeBlockCounts
  <2>4. UnitCount(w) = Cardinality(UnitsOf(w, FreeIn(w) \ {b})) + Behind(w, b)
    BY <1>1, <1>2, FreeBlockCounts
  <2>5. FreeIn(w) \ {b} = G \cup {a}
    BY <1>2, <1>7
  <2>6. Cardinality(UnitsOf(w, G \cup {a})) = Cardinality(UnitsOf(w, G)) + Behind(w, a)
    <3>1. G \in SUBSET (DOMAIN w \ {Tailer}) /\ a \in DOMAIN w \ {Tailer} /\ a \notin G
      BY <1>2, FreeFacts
    <3> HIDE DEF G
    <3> QED BY <1>1, <3>1, UnitsMore
  <2>7. UnitCount(w) = u + (b - a - HeaderSize) + (c - b - HeaderSize)
    BY <1>4, <2>2, <2>4, <2>5, <2>6
  <2>8. UnitCount(item) = u + (c - a - HeaderSize)
    BY <2>3 DEF Behind
  <2> HIDE DEF u, c
  <2> QED BY <1>5, <2>3, <2>7, <2>8, HeapSizes
<1> QED BY <1>1, <1>2, <1>3, <1>4, <1>6, <1>7

\* The list holds the blocks L, each once.
FreeListHas(h, L) ==
    h.free \in Seq(Address) /\ IsInjective(h.free) /\ ToSet(h.free) = L

LEMMA OffFreeListLeaves ==
    ASSUME NEW h, HeapShape(h), NEW L, FreeListHas(h, L), NEW a
    PROVE  LET g == OffFreeList(h, a) IN
           /\ HeapShape(g) /\ FreeListHas(g, L \ {a})
           /\ g.item = h.item /\ g.available = h.available /\ g.moving = h.moving
<1> DEFINE g == OffFreeList(h, a)
           f == Without(h.free, a)
<1>1. f \in Seq(Address) /\ IsInjective(f) /\ ToSet(f) = L \ {a}
  BY WithoutElements DEF FreeListHas
<1>2. g = [h EXCEPT !.free = f]
  BY DEF OffFreeList
<1> HIDE DEF f, g
<1>3. /\ HeapShape(g) /\ g.free = f
      /\ g.item = h.item /\ g.available = h.available /\ g.moving = h.moving
  BY <1>2 DEF HeapShape
<1>4. FreeListHas(g, L \ {a})
  BY <1>1, <1>3 DEF FreeListHas
<1> QED BY <1>3, <1>4 DEF g

LEMMA OnFreeListHas ==
    ASSUME NEW h, HeapShape(h), NEW L, FreeListHas(h, L), NEW a \in Address, a \notin L
    PROVE  LET g == OnFreeList(h, a) IN
           /\ HeapShape(g) /\ FreeListHas(g, L \cup {a})
           /\ g.item = h.item /\ g.available = h.available /\ g.moving = h.moving
<1> DEFINE g == OnFreeList(h, a)
           f == <<a>> \o h.free
<1>1. f \in Seq(Address) /\ IsInjective(f) /\ ToSet(f) = L \cup {a}
  BY PrependElements DEF FreeListHas
<1>2. g = [h EXCEPT !.free = f]
  BY DEF OnFreeList
<1> HIDE DEF f, g
<1>3. /\ HeapShape(g) /\ g.free = f
      /\ g.item = h.item /\ g.available = h.available /\ g.moving = h.moving
  BY <1>2 DEF HeapShape
<1>4. FreeListHas(g, L \cup {a})
  BY <1>1, <1>3 DEF FreeListHas
<1> QED BY <1>3, <1>4 DEF g

LEMMA HeapGoodParts ==
    ASSUME NEW h, HeapGood(h)
    PROVE  /\ HeapShape(h) /\ Chained(h.item) /\ Apart(h.item)
           /\ FreeListHas(h, FreeIn(h.item)) /\ h.available = UnitCount(h.item)
BY DEF HeapGood, FreeCounted, FreeListHas, UnitCount

\* The agreement, put together; what callers moved is used before and after.
LEMMA HeapGoodIs ==
    ASSUME NEW g, HeapShape(g), Chained(g.item), Apart(g.item),
           FreeListHas(g, FreeIn(g.item)), g.available = UnitCount(g.item),
           NEW h, HeapGood(h), g.moving = h.moving, KeepsUsed(h.item, g.item)
    PROVE  HeapGood(g)
<1>1. \A x \in h.moving : x \in DOMAIN h.item /\ h.item[x].used /\ x # Tailer
  BY DEF HeapGood, FreeIn
<1>2. \A x \in g.moving : x \in DOMAIN g.item /\ x \notin FreeIn(g.item) /\ x # Tailer
  BY <1>1 DEF KeepsUsed, FreeIn
<1> QED BY <1>2 DEF HeapGood, FreeCounted, FreeListHas, UnitCount

\* An allocation, up to its last two assignments: the block is off the list.
AllocatedAs(h, a, less) == [h EXCEPT !.available = @ - less, !.item[a].used = TRUE]

LEMMA AllocatedMarks ==
    ASSUME NEW h, HeapShape(h), NEW a, NEW less, NEW g, g = AllocatedAs(h, a, less)
    PROVE  /\ HeapShape(g) /\ g.item = [h.item EXCEPT ![a].used = TRUE]
           /\ g.free = h.free /\ g.available = h.available - less /\ g.moving = h.moving
<1> DEFINE n == h.available - less
           f == [h.item EXCEPT ![a].used = TRUE]
           h1 == [h EXCEPT !.available = n]
<1>1. g = [h1 EXCEPT !.item = [h1.item EXCEPT ![a].used = TRUE]]
  BY DEF AllocatedAs
<1> HIDE DEF n
<1>2. /\ HeapShape(h1) /\ h1.item = h.item /\ h1.free = h.free /\ h1.available = n
      /\ h1.moving = h.moving
  BY DEF HeapShape
<1> HIDE DEF h1, f
<1>3. g = [h1 EXCEPT !.item = f]
  BY <1>1, <1>2 DEF f
<1>4. HeapShape(g) /\ g.item = f /\ g.free = h1.free /\ g.available = h1.available
      /\ g.moving = h1.moving
  BY <1>2, <1>3 DEF HeapShape
<1> QED BY <1>2, <1>4 DEF n, f

LEMMA AllocatedWhole ==
    ASSUME HeapGood(heap), NEW a \in FreeIn(heap.item),
           NEW g, g = AllocatedAs(OffFreeList(heap, a), a, ItemSize(heap, a))
    PROVE  HeapGood(g) /\ KeepsUsed(heap.item, g.item) /\ g.moving = heap.moving
<1> DEFINE item == heap.item
           cut == OffFreeList(heap, a)
           w == [item EXCEPT ![a].used = TRUE]
           F == FreeIn(item)
<1>1. /\ HeapShape(heap) /\ Chained(item) /\ Apart(item)
      /\ FreeListHas(heap, F) /\ heap.available = UnitCount(item)
  BY HeapGoodParts
<1>2. /\ HeapShape(cut) /\ FreeListHas(cut, F \ {a})
      /\ cut.item = item /\ cut.available = heap.available /\ cut.moving = heap.moving
  BY <1>1, OffFreeListLeaves
<1>3. a \in DOMAIN item \ {Tailer}
  BY <1>1, FreeFacts
<1>4. /\ HeapShape(g) /\ g.item = w /\ g.free = cut.free
      /\ g.available = heap.available - Behind(item, a) /\ g.moving = heap.moving
  <2> DEFINE less == ItemSize(heap, a)
  <2>1. less = Behind(item, a)
    BY DEF ItemSize, Behind
  <2> HIDE DEF less, cut
  <2>2. /\ HeapShape(g) /\ g.item = [cut.item EXCEPT ![a].used = TRUE] /\ g.free = cut.free
        /\ g.available = cut.available - less /\ g.moving = cut.moving
    <3>1. g = AllocatedAs(cut, a, less)
      BY DEF cut, less
    <3> QED BY <1>2, <1>3, <3>1, AllocatedMarks
  <2> QED BY <1>2, <2>1, <2>2
<1> HIDE DEF cut
<1>5. /\ Chained(w) /\ MarksOnly(item, w) /\ FreeIn(w) = F \ {a}
      /\ UnitCount(w) = UnitCount(item) - Behind(item, a)
  BY <1>1, <1>3, MarkedCounts
<1> HIDE DEF w
<1>6. FreeListHas(g, FreeIn(g.item)) /\ g.available = UnitCount(g.item)
  BY <1>1, <1>2, <1>4, <1>5 DEF FreeListHas
<1>7. Apart(w)
  BY <1>1, <1>5 DEF Apart, MarksOnly, FreeIn
<1>8. KeepsUsed(item, w)
  BY <1>5 DEF KeepsUsed, FreeIn, MarksOnly
<1>9. HeapGood(g)
  BY <1>4, <1>5, <1>6, <1>7, <1>8, HeapGoodIs
<1> QED BY <1>4, <1>8, <1>9

LEMMA AllocatedSplit ==
    ASSUME HeapGood(heap), NEW a \in FreeIn(heap.item), NEW size \in Nat, size >= MinAlloc,
           Behind(heap.item, a) >= size + HeaderSize + MinAlloc,
           NEW new, new = a + size + HeaderSize,
           NEW g, g = AllocatedAs(OnFreeList(OffFreeList(Inserted(heap, a, new), a), new),
                                  a, size + HeaderSize)
    PROVE  HeapGood(g) /\ KeepsUsed(heap.item, g.item) /\ g.moving = heap.moving
<1> DEFINE item == heap.item
           F == FreeIn(item)
           h1 == Inserted(heap, a, new)
           h2 == OffFreeList(h1, a)
           h3 == OnFreeList(h2, new)
           v == h1.item
           w == [v EXCEPT ![a].used = TRUE]
<1>1. /\ HeapShape(heap) /\ Chained(item) /\ Apart(item)
      /\ FreeListHas(heap, F) /\ heap.available = UnitCount(item)
  BY HeapGoodParts
<1>2. /\ a \in DOMAIN item /\ a # Tailer /\ a \in Int /\ item[a].next \in Int
      /\ new \in Int /\ a + HeaderSize + MinAlloc <= new
      /\ new + HeaderSize + MinAlloc <= item[a].next
  <2> DEFINE c == item[a].next
  <2>1. a \in DOMAIN item /\ a # Tailer /\ a \in Int /\ c \in Int
    BY <1>1, FreeFacts, ChainFacts
  <2>2. c - a - HeaderSize >= size + HeaderSize + MinAlloc
    BY DEF Behind
  <2> HIDE DEF c
  <2>3. /\ new \in Int /\ a + HeaderSize + MinAlloc <= new
        /\ new + HeaderSize + MinAlloc <= c
    BY <2>1, <2>2, HeapSizes
  <2> QED BY <2>1, <2>3 DEF c
<1>3. /\ HeapShape(h1) /\ CutsOff(item, v, a, new)
      /\ h1.free = heap.free /\ h1.available = heap.available /\ h1.moving = heap.moving
  BY <1>1, <1>2, InsertedCutsOff
<1> HIDE DEF h1, v
<1>4. /\ Chained(v) /\ new \notin DOMAIN item /\ new \in Address
      /\ FreeIn(v) = F \cup {new}
      /\ UnitCount(v) = UnitCount(item) - HeaderSize
      /\ Behind(v, a) = size
  <2>1. /\ Chained(v) /\ new \notin DOMAIN item /\ new \in Address
        /\ FreeIn(v) = F \cup {new}
        /\ UnitCount(v) = UnitCount(item) - HeaderSize
        /\ Behind(v, a) = new - a - HeaderSize
    BY <1>1, <1>2, <1>3, CutOffCounts
  <2>2. new - a - HeaderSize = size
    BY <1>2, HeapSizes
  <2> QED BY <2>1, <2>2
<1>5. /\ HeapShape(h2) /\ FreeListHas(h2, F \ {a})
      /\ h2.item = v /\ h2.available = heap.available /\ h2.moving = heap.moving
  <2>1. FreeListHas(h1, F)
    BY <1>1, <1>3 DEF FreeListHas
  <2> QED BY <1>3, <2>1, OffFreeListLeaves DEF v
<1> HIDE DEF h2
<1>6. new \notin F \ {a}
  BY <1>1, <1>4, FreeFacts
<1>7. /\ HeapShape(h3) /\ FreeListHas(h3, (F \ {a}) \cup {new})
      /\ h3.item = v /\ h3.available = heap.available /\ h3.moving = heap.moving
  BY <1>4, <1>5, <1>6, OnFreeListHas
<1>8. a \in DOMAIN v \ {Tailer} /\ a \in FreeIn(v)
  BY <1>2, <1>3, <1>4 DEF CutsOff
<1>9. /\ HeapShape(g) /\ g.item = w /\ g.free = h3.free
      /\ g.available = heap.available - (size + HeaderSize) /\ g.moving = heap.moving
  <2>1. g = AllocatedAs(h3, a, size + HeaderSize)
    BY DEF h3, h2, h1
  <2> HIDE DEF h3
  <2> QED BY <1>7, <1>8, <2>1, AllocatedMarks
<1> HIDE DEF h3
<1>10. /\ Chained(w) /\ MarksOnly(v, w) /\ FreeIn(w) = FreeIn(v) \ {a}
       /\ UnitCount(w) = UnitCount(v) - Behind(v, a)
  BY <1>4, <1>8, MarkedCounts
<1> HIDE DEF w
<1>11. FreeIn(w) = (F \ {a}) \cup {new}
  BY <1>2, <1>4, <1>10
<1>12. FreeListHas(g, FreeIn(g.item))
  BY <1>7, <1>9, <1>11 DEF FreeListHas
<1>13. g.available = UnitCount(g.item)
  <2>1. UnitCount(item) \in Nat
    BY <1>1, UnitCountType
  <2>2. UnitCount(w) = UnitCount(item) - HeaderSize - size
    BY <1>4, <1>10
  <2> DEFINE u == UnitCount(item)
  <2>3. u \in Int /\ HeaderSize \in Int /\ g.available = u - (size + HeaderSize)
        /\ UnitCount(g.item) = u - HeaderSize - size
    BY <1>1, <1>9, <2>1, <2>2, HeapSizes
  <2> HIDE DEF u
  <2>4. u - HeaderSize - size = u - (size + HeaderSize)
    BY <2>3
  <2> QED BY <2>3, <2>4
<1>14. Apart(w)
  <2>1. \A x \in F : x \in DOMAIN item /\ item[x].next \in DOMAIN item /\ item[x].next \notin F
    BY <1>1, FreeFacts, ChainFacts DEF Apart
  <2>2. \A x \in F \ {a} : w[x].next = item[x].next
    BY <1>3, <1>10, <2>1 DEF CutsOff, MarksOnly
  <2>3. w[new].next = item[a].next
    BY <1>3, <1>10 DEF CutsOff, MarksOnly
  <2>4. \A x \in FreeIn(w) : w[x].next \in DOMAIN item /\ w[x].next \notin F
    BY <1>11, <2>1, <2>2, <2>3
  <2> QED BY <1>4, <1>11, <2>4 DEF Apart
<1>15. KeepsUsed(item, w)
  <2>1. \A x \in DOMAIN item : x \in DOMAIN w /\ v[x].used = item[x].used
    BY <1>3, <1>10 DEF CutsOff, MarksOnly
  <2>2. \A x \in DOMAIN item : item[x].used => x \notin FreeIn(v)
    BY <2>1 DEF FreeIn
  <2>3. \A x \in DOMAIN item : item[x].used => x \notin FreeIn(w)
    BY <1>10, <2>2
  <2>4. \A x \in DOMAIN w : w[x].used \in BOOLEAN
    BY <1>10, ChainFacts
  <2> QED BY <2>1, <2>3, <2>4 DEF KeepsUsed, FreeIn
<1>16. HeapGood(g)
  BY <1>9, <1>10, <1>12, <1>13, <1>14, <1>15, HeapGoodIs
<1> QED BY <1>9, <1>15, <1>16

-----------------------------------------------------------------------------
(* A release: the block is free, and merges to the left and to the right.  *)

\* All that the agreement says but for the list and the blocks that move.
HeapCounts(h) == HeapShape(h) /\ Chained(h.item) /\ h.available = UnitCount(h.item)

\* Blocks a of another heap stay in use, but for those in X.
StayUsed(item, w, X) ==
    \A x \in DOMAIN item \ X : item[x].used => x \in DOMAIN w /\ w[x].used

LEMMA AvailableMore ==
    ASSUME NEW h, HeapShape(h), NEW n, NEW g, g = [h EXCEPT !.available = @ + n]
    PROVE  /\ HeapShape(g) /\ g.item = h.item /\ g.free = h.free
           /\ g.available = h.available + n /\ g.moving = h.moving
BY DEF HeapShape

LEMMA FreedCounts ==
    ASSUME NEW h, HeapCounts(h), NEW a \in DOMAIN h.item \ FreeIn(h.item), a # Tailer
    PROVE  LET g == MarkedFree(h, a) IN
           /\ HeapCounts(g) /\ g.free = h.free /\ g.moving = h.moving
           /\ FreeIn(g.item) = FreeIn(h.item) \cup {a} /\ MarksOnly(h.item, g.item)
<1> DEFINE w == [h.item EXCEPT ![a].used = FALSE]
           h1 == [h EXCEPT !.item = w]
           n == ItemSize(h, a)
           g == MarkedFree(h, a)
<1>1. g = [h1 EXCEPT !.available = @ + n]
  BY DEF MarkedFree
<1>2. n = Behind(h.item, a)
  BY DEF ItemSize, Behind
<1>3. /\ Chained(w) /\ MarksOnly(h.item, w) /\ FreeIn(w) = FreeIn(h.item) \cup {a}
      /\ UnitCount(w) = UnitCount(h.item) + Behind(h.item, a)
  BY MarkedCounts DEF HeapCounts
<1> HIDE DEF w, n, g
<1>4. /\ HeapShape(h1) /\ h1.item = w /\ h1.free = h.free
      /\ h1.available = h.available /\ h1.moving = h.moving
  BY DEF HeapShape, HeapCounts
<1> HIDE DEF h1
<1>5. /\ HeapShape(g) /\ g.item = w /\ g.free = h.free
      /\ g.available = h.available + n /\ g.moving = h.moving
  BY <1>1, <1>4, AvailableMore
<1>6. HeapCounts(g)
  BY <1>2, <1>3, <1>5 DEF HeapCounts
<1> QED BY <1>3, <1>5, <1>6 DEF g

LEMMA MergedHeap ==
    ASSUME NEW h, HeapCounts(h), NEW a \in FreeIn(h.item), h.item[a].next \in FreeIn(h.item)
    PROVE  LET g == MergedWithNext(h, a) IN
           /\ HeapCounts(g) /\ g.free = h.free /\ g.moving = h.moving
           /\ TakesIn(h.item, g.item, a)
           /\ FreeIn(g.item) = FreeIn(h.item) \ {h.item[a].next}
<1> DEFINE h1 == Absorbed(h, a)
           g == MergedWithNext(h, a)
<1>1. a \in DOMAIN h.item /\ a # Tailer /\ h.item[a].next # Tailer
  BY FreeFacts DEF HeapCounts
<1>2. /\ HeapShape(h1) /\ TakesIn(h.item, h1.item, a)
      /\ h1.free = h.free /\ h1.available = h.available /\ h1.moving = h.moving
  BY <1>1, AbsorbedTakesIn DEF HeapCounts
<1>3. g = [h1 EXCEPT !.available = @ + HeaderSize]
  BY DEF MergedWithNext
<1> HIDE DEF h1, g
<1>4. /\ Chained(h1.item) /\ FreeIn(h1.item) = FreeIn(h.item) \ {h.item[a].next}
      /\ UnitCount(h1.item) = UnitCount(h.item) + HeaderSize
  BY <1>2, MergedCounts DEF HeapCounts
<1>5. /\ HeapShape(g) /\ g.item = h1.item /\ g.free = h1.free
      /\ g.available = h1.available + HeaderSize /\ g.moving = h1.moving
  BY <1>2, <1>3, AvailableMore
<1>6. HeapCounts(g)
  BY <1>2, <1>4, <1>5 DEF HeapCounts
<1> QED BY <1>2, <1>4, <1>5, <1>6 DEF g

\* Of two free neighbours, the first is block b.
ApartBut(item, b) == \A x \in FreeIn(item) \ {b} : item[x].next \notin FreeIn(item)

LEMMA RightMergedHeap ==
    ASSUME NEW h, HeapCounts(h), NEW b \in FreeIn(h.item), ApartBut(h.item, b),
           NEW L \in SUBSET FreeIn(h.item), FreeListHas(h, L)
    PROVE  LET g == RightMerged(h, b) IN
           /\ HeapCounts(g) /\ Apart(g.item) /\ g.moving = h.moving
           /\ FreeIn(g.item) \subseteq FreeIn(h.item) /\ b \in FreeIn(g.item)
           /\ FreeListHas(g, L \cap FreeIn(g.item))
           /\ StayUsed(h.item, g.item, {})
<1> DEFINE item == h.item
           c == item[b].next
           F == FreeIn(item)
           g == RightMerged(h, b)
<1>1. /\ b \in DOMAIN item /\ b # Tailer /\ c \in DOMAIN item /\ c # b
      /\ Chained(item) /\ item[c].used \in BOOLEAN
  <2>1. Chained(item) /\ b \in DOMAIN item /\ b # Tailer
    BY FreeFacts DEF HeapCounts
  <2> HIDE DEF item
  <2>2. b \in Int /\ c \in Int /\ b + HeaderSize + MinAlloc <= c /\ c \in DOMAIN item
    BY <2>1, ChainFacts, SMTT(30)
  <2>3. c # b
    BY <2>2, HeapSizes
  <2>4. item[c].used \in BOOLEAN
    BY <2>1, <2>2, ChainFacts
  <2> QED BY <2>1, <2>2, <2>3, <2>4
<1>2. CASE item[c].used
  <2>1. g = h
    BY <1>2 DEF RightMerged
  <2>2. c \notin F
    BY <1>2 DEF FreeIn
  <2>3. Apart(item)
    BY <2>2 DEF Apart, ApartBut
  <2>4. L \cap F = L
    OBVIOUS
  <2> QED BY <2>1, <2>3, <2>4 DEF StayUsed
<1>3. CASE ~item[c].used
  <2> DEFINE h1 == MergedWithNext(h, b)
             w == h1.item
  <2>1. c \in F
    BY <1>1, <1>3 DEF FreeIn
  <2>2. /\ HeapCounts(h1) /\ h1.free = h.free /\ h1.moving = h.moving
        /\ TakesIn(item, w, b) /\ FreeIn(w) = F \ {c}
    BY <2>1, MergedHeap
  <2>3. g = OffFreeList(h1, c)
    BY <1>3 DEF RightMerged
  <2>4. FreeListHas(h1, L)
    BY <2>2 DEF FreeListHas
  <2> HIDE DEF h1, g
  <2>5. /\ HeapShape(g) /\ FreeListHas(g, L \ {c})
        /\ g.item = w /\ g.available = h1.available /\ g.moving = h1.moving
    BY <2>2, <2>3, <2>4, OffFreeListLeaves DEF HeapCounts
  <2> HIDE DEF w
  <2>7. HeapCounts(g)
    BY <2>2, <2>5 DEF HeapCounts, w
  <2>8. L \cap FreeIn(w) = L \ {c}
    BY <2>2
  <2>9. FreeListHas(g, L \cap FreeIn(w))
    BY <2>5, <2>8
  <2>10. Apart(w)
    <3>1. \A x \in F \ {b, c} : w[x].next = item[x].next
      BY <2>2, <1>1 DEF TakesIn, FreeIn
    <3>2. w[b].next = item[c].next /\ item[c].next \notin F
      BY <1>1, <2>1, <2>2 DEF TakesIn, ApartBut
    <3>3. \A x \in F \ {b} : item[x].next \notin F
      BY DEF ApartBut
    <3> QED BY <2>2, <3>1, <3>2, <3>3 DEF Apart
  <2>11. StayUsed(item, w, {})
    BY <1>3, <2>2 DEF TakesIn, StayUsed
  <2> QED BY <1>1, <2>2, <2>5, <2>7, <2>9, <2>10, <2>11 DEF g
<1> QED BY <1>1, <1>2, <1>3

\* The agreement, but for the blocks that move.
HeapSound(h) == HeapCounts(h) /\ Apart(h.item) /\ FreeListHas(h, FreeIn(h.item))

LEMMA ReleasedHeap ==
    ASSUME NEW h, HeapSound(h), NEW a \in DOMAIN h.item \ FreeIn(h.item), a # Tailer
    PROVE  LET g == Released(h, a) IN
           /\ HeapSound(g) /\ g.moving = h.moving /\ StayUsed(h.item, g.item, {a})
<1> DEFINE item == h.item
           F == FreeIn(item)
           p == item[a].prev
           h1 == MarkedFree(h, a)
           g == Released(h, a)
<1>0. HeapCounts(h) /\ Chained(item) /\ Apart(item) /\ FreeListHas(h, F)
  BY DEF HeapSound, HeapCounts
<1>1. /\ HeapCounts(h1) /\ h1.free = h.free /\ h1.moving = h.moving
      /\ FreeIn(h1.item) = F \cup {a} /\ MarksOnly(item, h1.item)
  BY <1>0, FreedCounts
<1> DEFINE v == h1.item
<1> HIDE DEF h1, item
<1>2. /\ DOMAIN v = DOMAIN item
      /\ \A x \in DOMAIN item : v[x].next = item[x].next /\ v[x].prev = item[x].prev
  BY <1>1 DEF MarksOnly
<1>3. /\ a \in DOMAIN item /\ a \in Address /\ a \notin F
      /\ p \in DOMAIN item /\ item[p].next = a /\ p # a /\ v[a].prev = p
  <2>1. a \in DOMAIN item /\ a \notin F
    BY DEF item
  <2>2. /\ a \in Int /\ a \in Address /\ a + HeaderSize + MinAlloc <= item[a].next
        /\ p \in DOMAIN item /\ item[p].next = a
    BY <1>0, <2>1, ChainFacts DEF Address
  <2>3. item[a].next # a
    BY <2>2, HeapSizes
  <2> QED BY <1>2, <2>1, <2>2, <2>3
<1>4. \A x \in DOMAIN item \ {a} : item[x].used => x \in DOMAIN v /\ v[x].used
  <2>1. \A x \in DOMAIN item \ {a} : item[x].used => x \notin FreeIn(v)
    BY <1>1 DEF FreeIn
  <2> QED BY <1>2, <2>1 DEF FreeIn
<1>5. \A x \in F : x \in DOMAIN item /\ item[x].next \notin F
  BY <1>0, FreeFacts DEF Apart
<1>6. g = IF ~v[p].used THEN RightMerged(MergedWithNext(h1, p), p)
          ELSE OnFreeList(RightMerged(h1, a), a)
  BY <1>3 DEF Released, h1
<1> HIDE DEF g, p, F
<1>7. CASE ~v[p].used
  <2> DEFINE h2 == MergedWithNext(h1, p)
             w == h2.item
  <2>1. p \in FreeIn(v) /\ v[p].next = a /\ a \in FreeIn(v) /\ p \in F
    BY <1>1, <1>2, <1>3, <1>7 DEF FreeIn
  <2>2. /\ HeapCounts(h2) /\ h2.free = h1.free /\ h2.moving = h1.moving
        /\ TakesIn(v, w, p) /\ FreeIn(w) = FreeIn(v) \ {a}
    BY <1>1, <2>1, MergedHeap
  <2> HIDE DEF h2, v
  <2>3. FreeIn(w) = F
    BY <1>1, <1>3, <2>2 DEF v
  <2>4. ApartBut(w, p)
    <3>1. \A x \in F \ {p} : w[x].next = item[x].next
      BY <1>2, <1>3, <1>5, <2>1, <2>2 DEF TakesIn
    <3> QED BY <1>5, <2>3, <3>1 DEF ApartBut
  <2>5. FreeListHas(h2, F)
    BY <1>0, <1>1, <2>2 DEF FreeListHas
  <2>6. /\ HeapCounts(g) /\ Apart(g.item) /\ g.moving = h2.moving
        /\ FreeIn(g.item) \subseteq F
        /\ FreeListHas(g, F \cap FreeIn(g.item)) /\ StayUsed(w, g.item, {})
    <3>1. g = RightMerged(h2, p)
      BY <1>6, <1>7 DEF h2
    <3>2. p \in FreeIn(w) /\ F \in SUBSET FreeIn(w)
      BY <2>1, <2>3
    <3> QED BY <2>2, <2>3, <2>4, <2>5, <3>1, <3>2, RightMergedHeap
  <2>7. F \cap FreeIn(g.item) = FreeIn(g.item)
    BY <2>6
  <2>8. \A x \in DOMAIN item \ {a} : item[x].used => x \in DOMAIN w /\ w[x].used
    BY <1>2, <1>4, <2>1, <2>2 DEF TakesIn
  <2>9. StayUsed(item, g.item, {a})
    BY <2>6, <2>8 DEF StayUsed
  <2> QED BY <1>1, <2>2, <2>6, <2>7, <2>9 DEF HeapSound, g, item
<1>8. CASE v[p].used
  <2> DEFINE r == RightMerged(h1, a)
  <2>1. ApartBut(v, a)
    <3>1. p \notin F
      BY <1>1, <1>8 DEF FreeIn
    <3>2. \A x \in F : item[x].next # a
      <4>1. \A x \in DOMAIN item : item[item[x].next].prev = x
        BY <1>0, ChainFacts
      <4>2. \A x \in F : item[x].next = a => x = p
        BY <1>5, <4>1 DEF p
      <4> QED BY <3>1, <4>2
    <3>3. \A x \in F : v[x].next = item[x].next
      BY <1>2, <1>5
    <3> QED BY <1>1, <1>5, <3>2, <3>3 DEF ApartBut
  <2>2. /\ HeapCounts(r) /\ Apart(r.item) /\ r.moving = h1.moving
        /\ FreeIn(r.item) \subseteq FreeIn(v) /\ a \in FreeIn(r.item)
        /\ FreeListHas(r, F \cap FreeIn(r.item)) /\ StayUsed(v, r.item, {})
    <3>1. a \in FreeIn(v) /\ F \in SUBSET FreeIn(v) /\ FreeListHas(h1, F)
      BY <1>0, <1>1 DEF FreeListHas
    <3> QED BY <1>1, <2>1, <3>1, RightMergedHeap
  <2>3. g = OnFreeList(r, a)
    BY <1>6, <1>8
  <2> HIDE DEF r
  <2>4. /\ HeapShape(g) /\ FreeListHas(g, (F \cap FreeIn(r.item)) \cup {a})
        /\ g.item = r.item /\ g.available = r.available /\ g.moving = r.moving
    <3>1. a \notin F \cap FreeIn(r.item)
      BY <1>3
    <3> QED BY <1>3, <2>2, <2>3, <3>1, OnFreeListHas DEF HeapCounts
  <2>5. (F \cap FreeIn(r.item)) \cup {a} = FreeIn(r.item)
    BY <1>1, <2>2
  <2>6. HeapSound(g)
    BY <2>2, <2>4, <2>5 DEF HeapSound, HeapCounts
  <2>7. StayUsed(item, g.item, {a})
    BY <1>4, <2>2, <2>4 DEF StayUsed
  <2> QED BY <1>1, <2>2, <2>4, <2>6, <2>7 DEF g, item
<1>9. v[p].used \in BOOLEAN
  <2>1. Chained(v) /\ p \in DOMAIN v
    BY <1>1, <1>2, <1>3 DEF HeapCounts
  <2> HIDE DEF v
  <2> QED BY <2>1, ChainFacts
<1> QED BY <1>7, <1>8, <1>9

-----------------------------------------------------------------------------
(* A reallocation in place.                                                *)

Widened(h, a, next, new, more) ==
    [OnFreeList(Inserted(Absorbed(OffFreeList(h, next), a), a, new), new)
        EXCEPT !.available = @ - more]

\* The block gets more of the free one behind it, what is left is a block again.
LEMMA GrownHeap ==
    ASSUME NEW h, HeapSound(h), NEW a \in DOMAIN h.item \ FreeIn(h.item), a # Tailer,
           NEW next, next = h.item[a].next, next \in FreeIn(h.item),
           NEW size \in Nat, size >= MinAlloc,
           Behind(h.item, next) + Behind(h.item, a) > size + MinAlloc,
           NEW new, new = a + HeaderSize + size, NEW more, more = size - Behind(h.item, a),
           NEW g, g = Widened(h, a, next, new, more)
    PROVE  HeapSound(g) /\ g.moving = h.moving /\ StayUsed(h.item, g.item, {})
<1> DEFINE item == h.item
           F == FreeIn(item)
           c == item[next].next
           h1 == OffFreeList(h, next)
           h2 == Absorbed(h1, a)
           h3 == Inserted(h2, a, new)
           h4 == OnFreeList(h3, new)
           v == h2.item
           w == h3.item
<1>0. g = [h4 EXCEPT !.available = @ - more]
  BY DEF Widened
<1>1. /\ HeapShape(h) /\ Chained(item) /\ h.available = UnitCount(item)
      /\ Apart(item) /\ FreeListHas(h, F)
  BY DEF HeapSound, HeapCounts
<1>2. /\ HeapShape(h1) /\ FreeListHas(h1, F \ {next})
      /\ h1.item = item /\ h1.available = h.available /\ h1.moving = h.moving
  BY <1>1, OffFreeListLeaves
<1> HIDE DEF h1, item
<1>3. /\ a \in DOMAIN item /\ a \notin F /\ item[a].next = next /\ next \in F
      /\ next \in DOMAIN item /\ next # Tailer /\ c \in DOMAIN item /\ c \notin F
  <2>1. a \in DOMAIN item /\ a \notin F /\ item[a].next = next /\ next \in F
    BY DEF item
  <2>2. next \in DOMAIN item /\ next # Tailer
    BY <1>1, <2>1, FreeFacts
  <2>3. c \in DOMAIN item /\ c \notin F
    BY <1>1, <2>1, <2>2, ChainFacts DEF Apart
  <2> QED BY <2>1, <2>2, <2>3
<1>4. /\ a \in Int /\ next \in Int /\ c \in Int /\ a + HeaderSize + MinAlloc <= next
      /\ next + HeaderSize + MinAlloc <= c
  <2>1. a \in Int /\ a + HeaderSize + MinAlloc <= item[a].next
    BY <1>1, <1>3, ChainFacts
  <2>2. next + HeaderSize + MinAlloc <= c
    BY <1>1, <1>3, ChainFacts
  <2>3. next \in 0 .. Tailer /\ c \in 0 .. Tailer
    BY <1>1, <1>3, ChainFacts
  <2>4. next \in Int /\ c \in Int
    BY <2>3, HeapSizes
  <2> QED BY <1>3, <2>1, <2>2, <2>4
<1>5. /\ HeapShape(h2) /\ TakesIn(item, v, a)
      /\ h2.free = h1.free /\ h2.available = h1.available /\ h2.moving = h1.moving
  BY <1>1, <1>2, <1>3, AbsorbedTakesIn
<1> HIDE DEF h2
<1>6. /\ Chained(v) /\ FreeIn(v) = F \ {next}
      /\ UnitCount(v) = UnitCount(item) - Behind(item, next)
  BY <1>1, <1>3, <1>5, GivenCounts
<1>7. a \in DOMAIN v /\ v[a].next = c /\ a \notin FreeIn(v)
  BY <1>3, <1>4, <1>5, <1>6, HeapSizes DEF TakesIn
<1> HIDE DEF v, c, F
<1>8. /\ Behind(item, a) = next - a - HeaderSize /\ Behind(item, next) = c - next - HeaderSize
  BY <1>3 DEF Behind, c
<1>9. /\ new \in Int /\ a + HeaderSize + MinAlloc <= new /\ new + HeaderSize + MinAlloc <= c
  <2>1. (c - next - HeaderSize) + (next - a - HeaderSize) > size + MinAlloc
    BY <1>8 DEF item
  <2> QED BY <1>4, <2>1, HeapSizes
<1>10. /\ HeapShape(h3) /\ CutsOff(v, w, a, new)
       /\ h3.free = h2.free /\ h3.available = h2.available /\ h3.moving = h2.moving
  BY <1>5, <1>6, <1>7, <1>9, InsertedCutsOff DEF v
<1> HIDE DEF h3
<1>11. /\ Chained(w) /\ new \notin DOMAIN v /\ new \in Address
       /\ FreeIn(w) = FreeIn(v) \cup {new}
       /\ UnitCount(w) = UnitCount(v) + Behind(w, new)
       /\ Behind(w, new) = c - new - HeaderSize
  BY <1>6, <1>7, <1>9, <1>10, CutOffCounts
<1> HIDE DEF w
<1>12. FreeListHas(h3, FreeIn(v)) /\ new \notin FreeIn(v)
  <2>1. FreeListHas(h3, FreeIn(v))
    BY <1>2, <1>5, <1>6, <1>10 DEF FreeListHas
  <2>2. new \notin FreeIn(v)
    BY <1>6, <1>11, FreeFacts
  <2> QED BY <2>1, <2>2
<1>13. /\ HeapShape(h4) /\ FreeListHas(h4, FreeIn(w))
       /\ h4.item = w /\ h4.available = h.available /\ h4.moving = h.moving
  BY <1>2, <1>5, <1>10, <1>11, <1>12, OnFreeListHas DEF w
<1> HIDE DEF h4
<1>14. /\ HeapShape(g) /\ g.item = w /\ g.free = h4.free
       /\ g.available = h.available - more /\ g.moving = h.moving
  BY <1>0, <1>13 DEF HeapShape
<1>15. g.available = UnitCount(w)
  <2> DEFINE u == UnitCount(item)
  <2>1. u \in Int
    BY <1>1, UnitCountType
  <2>2. g.available = u - (size - (next - a - HeaderSize))
    BY <1>1, <1>8, <1>14 DEF item
  <2>3. UnitCount(w) = (u - (c - next - HeaderSize)) + (c - (a + HeaderSize + size) - HeaderSize)
    BY <1>6, <1>8, <1>11
  <2> HIDE DEF u
  <2>4. u - (size - (next - a - HeaderSize))
           = (u - (c - next - HeaderSize)) + (c - (a + HeaderSize + size) - HeaderSize)
    BY <1>4, <2>1, HeapSizes
  <2> QED BY <2>2, <2>3, <2>4
<1>16. HeapCounts(g) /\ FreeListHas(g, FreeIn(g.item))
  BY <1>11, <1>13, <1>14, <1>15 DEF HeapCounts, FreeListHas
<1>17. Apart(w)
  <2>1. \A x \in F : x \in DOMAIN item /\ item[x].next \in DOMAIN item /\ item[x].next \notin F
    BY <1>1, FreeFacts, ChainFacts DEF Apart, F
  <2>2. \A x \in F \ {next} : x \in DOMAIN v /\ v[x].next = item[x].next
    BY <1>3, <1>5, <2>1 DEF TakesIn
  <2>3. \A x \in F \ {next} : w[x].next = v[x].next
    BY <1>6, <1>7, <1>10, <2>2 DEF CutsOff
  <2>4. w[new].next = c
    BY <1>7, <1>10 DEF CutsOff
  <2>5. \A x \in FreeIn(w) : w[x].next \notin F
    BY <1>3, <1>6, <1>11, <2>1, <2>2, <2>3, <2>4
  <2>6. \A x \in FreeIn(w) : w[x].next # new
    <3>1. new # c
      BY <1>4, <1>9, HeapSizes
    <3>2. \A x \in F \ {next} : v[x].next \in DOMAIN v
      BY <1>6, <2>2, ChainFacts
    <3> QED BY <1>6, <1>11, <2>3, <2>4, <3>1, <3>2
  <2> QED BY <1>6, <1>11, <2>5, <2>6 DEF Apart
<1>18. StayUsed(item, w, {})
  <2>1. \A x \in DOMAIN item : item[x].used => x # next
    BY <1>3 DEF F, FreeIn
  <2>2. \A x \in DOMAIN item : item[x].used => x \in DOMAIN v /\ v[x].used
    BY <1>3, <1>5, <2>1 DEF TakesIn
  <2>3. \A x \in DOMAIN v : x \in DOMAIN w /\ w[x].used = v[x].used
    BY <1>10 DEF CutsOff
  <2> QED BY <2>2, <2>3 DEF StayUsed
<1> QED BY <1>14, <1>16, <1>17, <1>18 DEF HeapSound, item

Returned(h, new) == [OnFreeList(h, new) EXCEPT !.available = @ + ItemSize(h, new)]

CutAndMerged(h, a, new, after) ==
    [OffFreeList(Absorbed(Inserted(h, a, new), new), after)
        EXCEPT !.available = @ - ItemSize(h, after)]

\* The end of the block becomes a block, before a used one or before a free one.
LEMMA ShrunkBeforeUsed ==
    ASSUME NEW h, HeapSound(h), NEW a \in DOMAIN h.item \ FreeIn(h.item), a # Tailer,
           NEW new \in Int, a + HeaderSize + MinAlloc <= new,
           new + HeaderSize + MinAlloc <= h.item[a].next,
           h.item[a].next \notin FreeIn(h.item),
           NEW right, right = Inserted(h, a, new),
           NEW g, g = Returned(right, new)
    PROVE  HeapSound(g) /\ g.moving = h.moving /\ StayUsed(h.item, g.item, {})
<1> DEFINE item == h.item
           F == FreeIn(item)
           after == item[a].next
           w == right.item
           h2 == OnFreeList(right, new)
           n == ItemSize(right, new)
<1>0. g = [h2 EXCEPT !.available = @ + n] /\ n = Behind(w, new)
  BY DEF ItemSize, Behind, Returned
<1>1. /\ HeapShape(h) /\ Chained(item) /\ h.available = UnitCount(item)
      /\ Apart(item) /\ FreeListHas(h, F) /\ a \in DOMAIN item /\ a \notin F /\ after \notin F
  BY DEF HeapSound, HeapCounts
<1>2. /\ HeapShape(right) /\ CutsOff(item, w, a, new)
      /\ right.free = h.free /\ right.available = h.available /\ right.moving = h.moving
  BY <1>1, InsertedCutsOff
<1> HIDE DEF w, n
<1>3. /\ Chained(w) /\ new \notin DOMAIN item /\ new \in Address /\ FreeIn(w) = F \cup {new}
      /\ UnitCount(w) = UnitCount(item) + Behind(w, new)
  BY <1>1, <1>2, CutOffCounts
<1>4. new \notin F /\ FreeListHas(right, F)
  BY <1>1, <1>2, <1>3, FreeFacts DEF FreeListHas
<1>5. /\ HeapShape(h2) /\ FreeListHas(h2, FreeIn(w))
      /\ h2.item = w /\ h2.available = h.available /\ h2.moving = h.moving
  BY <1>2, <1>3, <1>4, OnFreeListHas DEF w
<1> HIDE DEF h2
<1>6. /\ HeapShape(g) /\ g.item = w /\ g.free = h2.free
      /\ g.available = h.available + n /\ g.moving = h.moving
  BY <1>0, <1>5 DEF HeapShape
<1>7. HeapCounts(g) /\ FreeListHas(g, FreeIn(g.item))
  BY <1>0, <1>1, <1>3, <1>5, <1>6 DEF HeapCounts, FreeListHas
<1>8. Apart(w)
  <2>1. \A x \in F : x \in DOMAIN item /\ item[x].next \in DOMAIN item /\ item[x].next \notin F
    BY <1>1, FreeFacts, ChainFacts DEF Apart
  <2>2. after \in DOMAIN item
    BY <1>1, ChainFacts
  <2>3. \A x \in F : w[x].next = item[x].next
    BY <1>1, <1>2, <2>1 DEF CutsOff
  <2>4. w[new].next = after
    BY <1>2 DEF CutsOff
  <2>5. \A x \in FreeIn(w) : w[x].next \in DOMAIN item /\ w[x].next \notin F
    BY <1>1, <1>3, <2>1, <2>2, <2>3, <2>4
  <2> QED BY <1>3, <2>5 DEF Apart
<1>9. StayUsed(item, w, {})
  BY <1>2 DEF StayUsed, CutsOff
<1> QED BY <1>6, <1>7, <1>8, <1>9 DEF HeapSound

LEMMA ShrunkBeforeFree ==
    ASSUME NEW h, HeapSound(h), NEW a \in DOMAIN h.item \ FreeIn(h.item), a # Tailer,
           NEW new \in Int, a + HeaderSize + MinAlloc <= new,
           new + HeaderSize + MinAlloc <= h.item[a].next,
           NEW after, after = h.item[a].next, after \in FreeIn(h.item),
           NEW right, right = CutAndMerged(h, a, new, after),
           NEW g, g = Returned(right, new)
    PROVE  HeapSound(g) /\ g.moving = h.moving /\ StayUsed(h.item, g.item, {})
<1> DEFINE item == h.item
           F == FreeIn(item)
           h1 == Inserted(h, a, new)
           v == h1.item
           h2 == Absorbed(h1, new)
           w == h2.item
           h3 == OffFreeList(h2, after)
           h4 == OnFreeList(right, new)
           less == ItemSize(h, after)
           n == ItemSize(right, new)
<1>0. /\ g = [h4 EXCEPT !.available = @ + n] /\ n = Behind(right.item, new)
      /\ right = [h3 EXCEPT !.available = @ - less] /\ less = Behind(item, after)
  BY DEF ItemSize, Behind, Returned, CutAndMerged
<1>1. /\ HeapShape(h) /\ Chained(item) /\ h.available = UnitCount(item)
      /\ Apart(item) /\ FreeListHas(h, F) /\ a \in DOMAIN item /\ a \notin F
      /\ after \in F /\ item[a].next = after
  BY DEF HeapSound, HeapCounts
<1>2. /\ HeapShape(h1) /\ CutsOff(item, v, a, new)
      /\ h1.free = h.free /\ h1.available = h.available /\ h1.moving = h.moving
  BY <1>1, InsertedCutsOff
<1> HIDE DEF h1, n, less
<1>3. /\ Chained(v) /\ new \notin DOMAIN item /\ new \in Address /\ FreeIn(v) = F \cup {new}
      /\ UnitCount(v) = UnitCount(item) + Behind(v, new)
  BY <1>1, <1>2, CutOffCounts
<1>4. /\ new \in FreeIn(v) /\ v[new].next = after /\ after \in FreeIn(v)
      /\ new \in DOMAIN v /\ new # Tailer /\ after # Tailer /\ after \in DOMAIN item
  <2>1. new \in FreeIn(v) /\ v[new].next = after /\ after \in FreeIn(v)
    BY <1>1, <1>2, <1>3 DEF CutsOff
  <2>2. new \in DOMAIN v /\ new # Tailer /\ after # Tailer
    BY <1>3, <2>1, FreeFacts
  <2> QED BY <1>1, <2>1, <2>2, FreeFacts
<1>5. /\ HeapShape(h2) /\ TakesIn(v, w, new)
      /\ h2.free = h1.free /\ h2.available = h1.available /\ h2.moving = h1.moving
  BY <1>2, <1>3, <1>4, AbsorbedTakesIn
<1> HIDE DEF h2, v
<1>6. /\ Chained(w) /\ FreeIn(w) = FreeIn(v) \ {after}
      /\ UnitCount(w) = UnitCount(v) + HeaderSize
      /\ Behind(w, new) = Behind(v, new) + HeaderSize + Behind(v, after)
  BY <1>3, <1>4, <1>5, MergedCounts
<1> HIDE DEF w
<1>7. Behind(v, after) = Behind(item, after) /\ after # a
  <2>1. after # a
    BY <1>1
  <2>2. v[after].next = item[after].next
    BY <1>2, <1>4, <2>1 DEF CutsOff
  <2> QED BY <2>1, <2>2 DEF Behind
<1>8. /\ HeapShape(h3) /\ FreeListHas(h3, F \ {after})
      /\ h3.item = w /\ h3.available = h.available /\ h3.moving = h.moving
  <2>1. FreeListHas(h2, F)
    BY <1>1, <1>2, <1>5 DEF FreeListHas
  <2>2. /\ HeapShape(h3) /\ FreeListHas(h3, F \ {after})
        /\ h3.item = h2.item /\ h3.available = h2.available /\ h3.moving = h2.moving
    <3> HIDE DEF F, h2
    <3> QED BY ONLY ZenonT(60), <1>5, <2>1, OffFreeListLeaves
  <2> QED BY <1>2, <1>5, <2>2 DEF w
<1> HIDE DEF h3
<1>9. /\ HeapShape(right) /\ FreeListHas(right, F \ {after})
      /\ right.item = w /\ right.available = h.available - less /\ right.moving = h.moving
  <2>1. /\ HeapShape(right) /\ right.item = w /\ right.free = h3.free
        /\ right.available = h.available - less /\ right.moving = h.moving
    BY <1>0, <1>8 DEF HeapShape
  <2> QED BY <1>8, <2>1 DEF FreeListHas
<1>10. new \notin F \ {after} /\ (F \ {after}) \cup {new} = FreeIn(w)
  <2>1. new \notin F /\ new # after
    BY <1>1, <1>3, <1>4, FreeFacts
  <2> QED BY <1>3, <1>6, <2>1
<1>11. /\ HeapShape(h4) /\ FreeListHas(h4, FreeIn(w))
       /\ h4.item = w /\ h4.available = h.available - less /\ h4.moving = h.moving
  <2> DEFINE L == F \ {after}
  <2>1. FreeListHas(right, L) /\ new \notin L /\ new \in Address /\ L \cup {new} = FreeIn(w)
    BY <1>3, <1>9, <1>10
  <2> HIDE DEF L
  <2>2. /\ HeapShape(h4) /\ FreeListHas(h4, L \cup {new})
        /\ h4.item = right.item /\ h4.available = right.available /\ h4.moving = right.moving
    BY ONLY <1>9, <2>1, OnFreeListHas
  <2> QED BY <1>9, <2>1, <2>2
<1> HIDE DEF h4
<1>12. /\ HeapShape(g) /\ g.item = w /\ g.free = h4.free
       /\ g.available = (h.available - less) + n /\ g.moving = h.moving
  BY <1>0, <1>11 DEF HeapShape
<1>13. g.available = UnitCount(w)
  <2> DEFINE u == UnitCount(item)
             k == Behind(v, new)
             m == Behind(item, after)
  <2>1. u \in Int /\ k \in Int /\ m \in Int
    <3>1. u \in Nat /\ m \in Int
      BY <1>1, <1>4, UnitCountType
    <3>2. k \in Int
      BY <1>3, <1>4, UnitCountType
    <3> QED BY <3>1, <3>2
  <2>2. g.available = (u - m) + (k + HeaderSize + m)
    BY <1>0, <1>1, <1>6, <1>7, <1>9, <1>12
  <2>3. UnitCount(w) = (u + k) + HeaderSize
    BY <1>3, <1>6
  <2> HIDE DEF u, k, m
  <2>4. (u - m) + (k + HeaderSize + m) = (u + k) + HeaderSize
    BY <2>1, HeapSizes
  <2> QED BY <2>2, <2>3, <2>4
<1>14. HeapCounts(g) /\ FreeListHas(g, FreeIn(g.item))
  BY <1>6, <1>11, <1>12, <1>13 DEF HeapCounts, FreeListHas
<1>15. Apart(w)
  <2>1. \A x \in F : x \in DOMAIN item /\ item[x].next \in DOMAIN item /\ item[x].next \notin F
    BY <1>1, FreeFacts, ChainFacts DEF Apart
  <2>2. \A x \in F : x \in DOMAIN v /\ v[x].next = item[x].next
    BY <1>1, <1>2, <2>1 DEF CutsOff
  <2>3. new \notin F
    BY <1>3, <2>1
  <2>4. \A x \in F \ {after} : w[x].next = v[x].next
    BY <1>4, <1>5, <2>2, <2>3 DEF TakesIn
  <2>5. w[new].next = item[after].next
    BY <1>1, <1>4, <1>5, <2>2 DEF TakesIn
  <2>6. \A x \in FreeIn(w) : w[x].next \in DOMAIN item /\ w[x].next \notin F
    BY <1>1, <1>10, <2>1, <2>2, <2>4, <2>5
  <2> QED BY <1>3, <1>10, <2>6 DEF Apart
<1>16. StayUsed(item, w, {})
  <2>1. \A x \in DOMAIN item : item[x].used => x # after /\ x \in DOMAIN v /\ v[x].used
    BY <1>1, <1>2 DEF CutsOff, FreeIn
  <2>2. \A x \in DOMAIN v : x # after => x \in DOMAIN w /\ w[x].used = v[x].used
    BY <1>4, <1>5 DEF TakesIn
  <2> QED BY <2>1, <2>2 DEF StayUsed
<1> QED BY <1>12, <1>14, <1>15, <1>16 DEF HeapSound

-----------------------------------------------------------------------------
(* The operations.                                                         *)

LEMMA GoodIsSound ==
    ASSUME NEW h, HeapGood(h)
    PROVE  HeapSound(h) /\ \A x \in h.moving : x \in DOMAIN h.item /\ h.item[x].used /\ x # Tailer
<1>1. HeapSound(h)
  BY HeapGoodParts DEF HeapSound, HeapCounts
<1>2. \A x \in h.moving : x \in DOMAIN h.item /\ h.item[x].used /\ x # Tailer
  BY DEF HeapGood, FreeIn
<1> QED BY <1>1, <1>2

LEMMA SoundIsGood ==
    ASSUME NEW h, HeapSound(h),
           \A x \in h.moving : x \in DOMAIN h.item /\ h.item[x].used /\ x # Tailer
    PROVE  HeapGood(h)
<1>1. h.moving \subseteq DOMAIN h.item \ FreeIn(h.item) /\ Tailer \notin h.moving
  BY DEF FreeIn
<1> QED BY <1>1 DEF HeapGood, HeapSound, HeapCounts, FreeCounted, FreeListHas, UnitCount

\* The blocks that a reallocation moves may change.
LEMMA MovingGood ==
    ASSUME NEW h, HeapSound(h), NEW M,
           \A x \in M : x \in DOMAIN h.item /\ h.item[x].used /\ x # Tailer,
           NEW g, g = [h EXCEPT !.moving = M]
    PROVE  HeapGood(g)
<1>1. /\ HeapShape(g) /\ g.item = h.item /\ g.free = h.free /\ g.available = h.available
      /\ g.moving = M
  BY DEF HeapSound, HeapCounts, HeapShape
<1>2. HeapSound(g)
  BY <1>1 DEF HeapSound, HeapCounts, FreeListHas
<1> QED BY <1>1, <1>2, SoundIsGood

LEMMA RequestedSizes ==
    ASSUME NEW request \in HeapRequest
    PROVE  RequestedSize(request) \in Nat /\ RequestedSize(request) >= MinAlloc
<1>1. request \in Nat
  BY HeapSizes
<1> QED BY <1>1, HeapSizes DEF RequestedSize

LEMMA AllocatedGood ==
    ASSUME HeapGood(heap), NEW request \in HeapRequest, CanAlloc(RequestedSize(request)),
           NEW g, g = AllocatedFrom(heap.free[FirstFit(RequestedSize(request))],
                                    RequestedSize(request))
    PROVE  HeapGood(g) /\ KeepsUsed(heap.item, g.item) /\ g.moving = heap.moving
<1> DEFINE size == RequestedSize(request)
           a == heap.free[FirstFit(size)]
           new == a + size + HeaderSize
           splits == ItemSize(heap, a) >= size + HeaderSize + MinAlloc
<1>1. size \in Nat /\ size >= MinAlloc
  BY RequestedSizes
<1>2. g = AllocatedFrom(a, size) /\ CanAlloc(size)
  OBVIOUS
<1> HIDE DEF size
<1>3. a \in FreeIn(heap.item)
  BY <1>1, <1>2, FirstFits
<1> HIDE DEF a
<1>4. CASE splits
  <2>1. g = AllocatedAs(OnFreeList(OffFreeList(Inserted(heap, a, new), a), new),
                        a, size + HeaderSize)
    BY <1>2, <1>4 DEF AllocatedFrom, AllocatedAs
  <2>2. Behind(heap.item, a) >= size + HeaderSize + MinAlloc
    BY <1>4 DEF ItemSize, Behind
  <2> QED BY ONLY HeapGood(heap), <1>1, <1>3, <2>1, <2>2, AllocatedSplit
<1>5. CASE ~splits
  <2>1. g = AllocatedAs(OffFreeList(heap, a), a, ItemSize(heap, a))
    BY <1>2, <1>5 DEF AllocatedFrom, AllocatedAs
  <2> QED BY ONLY HeapGood(heap), <1>3, <2>1, AllocatedWhole
<1> QED BY <1>4, <1>5

\* what the operations on an allocated block start from
LEMMA AllocatedFacts ==
    ASSUME HeapGood(heap), NEW a \in Allocated
    PROVE  a \in DOMAIN heap.item \ FreeIn(heap.item) /\ a # Tailer /\ heap.item[a].used
BY DEF Allocated, FreeIn

LEMMA HeapFreePreserves ==
    ASSUME HeapGood(heap), NEW a, HeapFree(a)
    PROVE  HeapGood(heap')
<1>1. a \in Allocated /\ a \notin heap.moving /\ heap' = Released(heap, a)
  BY DEF HeapFree
<1>2. HeapSound(heap) /\ \A x \in heap.moving : x \in DOMAIN heap.item /\ heap.item[x].used /\ x # Tailer
  BY GoodIsSound
<1>3. HeapSound(heap') /\ heap'.moving = heap.moving /\ StayUsed(heap.item, heap'.item, {a})
  BY <1>1, <1>2, AllocatedFacts, ReleasedHeap
<1>4. \A x \in heap'.moving : x \in DOMAIN heap'.item /\ heap'.item[x].used /\ x # Tailer
  BY <1>1, <1>2, <1>3 DEF StayUsed
<1> QED BY <1>3, <1>4, SoundIsGood

LEMMA HeapMovedPreserves ==
    ASSUME HeapGood(heap), NEW a, HeapMoved(a)
    PROVE  HeapGood(heap')
<1> DEFINE g == Released(heap, a)
<1>1. a \in heap.moving /\ heap' = [g EXCEPT !.moving = g.moving \ {a}]
  BY DEF HeapMoved
<1>2. HeapSound(heap) /\ \A x \in heap.moving : x \in DOMAIN heap.item /\ heap.item[x].used /\ x # Tailer
  BY GoodIsSound
<1>3. HeapSound(g) /\ g.moving = heap.moving /\ StayUsed(heap.item, g.item, {a})
  <2>1. a \in DOMAIN heap.item \ FreeIn(heap.item) /\ a # Tailer
    BY <1>1, <1>2 DEF FreeIn
  <2> QED BY <1>2, <2>1, ReleasedHeap
<1> HIDE DEF g
<1>4. \A x \in g.moving \ {a} : x \in DOMAIN g.item /\ g.item[x].used /\ x # Tailer
  BY <1>2, <1>3 DEF StayUsed
<1> QED BY <1>1, <1>3, <1>4, MovingGood

LEMMA HeapMovePreserves ==
    ASSUME HeapGood(heap), NEW a, NEW request \in HeapRequest, HeapMove(a, request)
    PROVE  HeapGood(heap')
<1> DEFINE size == RequestedSize(request)
           g == AllocatedFrom(heap.free[FirstFit(size)], size)
<1>1. a \in Allocated /\ CanAlloc(size) /\ heap' = [g EXCEPT !.moving = g.moving \cup {a}]
  BY DEF HeapMove
<1>2. HeapGood(g) /\ KeepsUsed(heap.item, g.item) /\ g.moving = heap.moving
  BY <1>1, AllocatedGood
<1> HIDE DEF g
<1>3. HeapSound(g) /\ \A x \in g.moving : x \in DOMAIN g.item /\ g.item[x].used /\ x # Tailer
  BY <1>2, GoodIsSound
<1>4. a \in DOMAIN g.item /\ g.item[a].used /\ a # Tailer
  BY <1>1, <1>2, AllocatedFacts DEF KeepsUsed
<1>5. \A x \in g.moving \cup {a} : x \in DOMAIN g.item /\ g.item[x].used /\ x # Tailer
  BY <1>3, <1>4
<1> QED BY <1>1, <1>3, <1>5, MovingGood

\* The two that change a block in place keep what is used.
LEMMA StaysGood ==
    ASSUME HeapGood(heap), HeapSound(heap'), heap'.moving = heap.moving,
           StayUsed(heap.item, heap'.item, {})
    PROVE  HeapGood(heap')
<1>1. \A x \in heap.moving : x \in DOMAIN heap.item /\ heap.item[x].used /\ x # Tailer
  BY GoodIsSound
<1>2. \A x \in heap'.moving : x \in DOMAIN heap'.item /\ heap'.item[x].used /\ x # Tailer
  BY <1>1 DEF StayUsed
<1> QED BY <1>2, SoundIsGood

LEMMA HeapGrowPreserves ==
    ASSUME HeapGood(heap), NEW a, NEW request \in HeapRequest, HeapGrow(a, request)
    PROVE  HeapGood(heap')
<1> DEFINE item == heap.item
           size == RequestedSize(request)
           next == item[a].next
           new == a + HeaderSize + size
           more == size - ItemSize(heap, a)
<1>1. /\ a \in Allocated /\ Expands(a, size)
      /\ heap' = Widened(heap, a, next, new, more)
  BY DEF HeapGrow, Widened
<1>2. size \in Nat /\ size >= MinAlloc
  BY RequestedSizes
<1>3. HeapSound(heap) /\ Chained(item)
  BY GoodIsSound DEF HeapSound, HeapCounts
<1>4. a \in DOMAIN item \ FreeIn(item) /\ a # Tailer
  BY <1>1, AllocatedFacts
<1>5. next \in FreeIn(item)
  <2>1. next \in DOMAIN item
    BY <1>3, <1>4, ChainFacts
  <2> QED BY <1>1, <2>1 DEF Expands, FreeIn
<1>6. /\ Behind(item, next) + Behind(item, a) > size + MinAlloc
      /\ more = size - Behind(item, a)
  BY <1>1 DEF Expands, ItemSize, Behind
<1> HIDE DEF size, next, new, more
<1>7. HeapSound(heap') /\ heap'.moving = heap.moving /\ StayUsed(item, heap'.item, {})
  <2>1. next = heap.item[a].next /\ new = a + HeaderSize + size
    BY DEF next, new
  <2> QED BY ONLY <1>1, <1>2, <1>3, <1>4, <1>5, <1>6, <2>1, GrownHeap
<1> QED BY <1>7, StaysGood

LEMMA HeapShrinkPreserves ==
    ASSUME HeapGood(heap), NEW a, NEW request \in HeapRequest, HeapShrink(a, request)
    PROVE  HeapGood(heap')
<1> DEFINE item == heap.item
           size == RequestedSize(request)
           new == a + HeaderSize + size
           cut == Inserted(heap, a, new)
           after == item[a].next
           right == IF item[after].used THEN cut
                    ELSE CutAndMerged(heap, a, new, after)
<1>1. /\ a \in Allocated /\ size + HeaderSize + MinAlloc < ItemSize(heap, a)
      /\ heap' = Returned(right, new)
  BY DEF HeapShrink, Returned, CutAndMerged
<1>2. size \in Nat /\ size >= MinAlloc
  BY RequestedSizes
<1>3. HeapSound(heap) /\ Chained(item)
  BY GoodIsSound DEF HeapSound, HeapCounts
<1>4. a \in DOMAIN item \ FreeIn(item) /\ a # Tailer
  BY <1>1, AllocatedFacts
<1>5. /\ a \in Int /\ after \in Int /\ after \in DOMAIN item
  <2>1. a \in 0 .. Tailer /\ after \in 0 .. Tailer /\ after \in DOMAIN item
    BY <1>3, <1>4, ChainFacts
  <2> QED BY <2>1, HeapSizes
<1>6. /\ new \in Int /\ a + HeaderSize + MinAlloc <= new
      /\ new + HeaderSize + MinAlloc <= after
  <2>1. size + HeaderSize + MinAlloc < after - a - HeaderSize
    BY <1>1 DEF ItemSize
  <2> HIDE DEF size, after
  <2> QED BY <1>2, <1>5, <2>1, HeapSizes
<1> DEFINE Done == HeapSound(heap') /\ heap'.moving = heap.moving /\ StayUsed(item, heap'.item, {})
<1>7. CASE item[after].used
  <2>1. right = Inserted(heap, a, new) /\ after \notin FreeIn(item)
    BY <1>7 DEF FreeIn
  <2> HIDE DEF right, new
  <2>2. Done
    BY ONLY <1>1, <1>3, <1>4, <1>6, <2>1, ShrunkBeforeUsed
  <2> QED BY <2>2, StaysGood
<1>8. CASE ~item[after].used
  <2>1. /\ after \in FreeIn(item) /\ after = heap.item[a].next
        /\ right = CutAndMerged(heap, a, new, after)
    BY <1>5, <1>8 DEF FreeIn
  <2>2. new + HeaderSize + MinAlloc <= heap.item[a].next
    BY <1>6
  <2> HIDE DEF right, new, after
  <2>3. Done
    BY ONLY <1>1, <1>3, <1>4, <1>6, <2>1, <2>2, ShrunkBeforeFree
  <2> QED BY <2>3, StaysGood
<1> QED BY <1>7, <1>8

LEMMA HeapInitGood ==
    ASSUME HeapInit
    PROVE  HeapGood(heap)
<1> DEFINE first == [next |-> Tailer, prev |-> Tailer, used |-> FALSE]
           last == [next |-> 0, prev |-> 0, used |-> TRUE]
           item == [a \in {0, Tailer} |-> IF a = 0 THEN first ELSE last]
<1>1. /\ heap = [item |-> item, free |-> <<0>>,
                 available |-> PoolSize - 2 * HeaderSize, moving |-> {}]
  BY DEF HeapInit
<1>2. item[0] = first /\ item[Tailer] = last /\ DOMAIN item = {0, Tailer}
  BY HeapSizes
<1>3. first \in Header /\ last \in Header /\ 0 \in Address /\ Tailer \in Address
  BY HeapSizes DEF Header, Address
<1>4. item \in [{0, Tailer} -> Header]
  BY <1>3
<1> HIDE DEF item
<1>5. /\ item[0].next = Tailer /\ item[0].prev = Tailer /\ ~item[0].used
      /\ item[Tailer].next = 0 /\ item[Tailer].prev = 0 /\ item[Tailer].used
  BY <1>2
<1> HIDE DEF first, last
<1>6. 0 + HeaderSize + MinAlloc <= Tailer /\ 0 # Tailer /\ Tailer \in Nat
  BY MemHeapAssumption DEF Tailer
<1>7. Chained(item)
  <2>1. \A b \in DOMAIN item : ~(0 < b /\ b < Tailer)
    BY <1>2, <1>6
  <2>2. \A a \in DOMAIN item :
           /\ item[a].next \in DOMAIN item /\ item[a].prev \in DOMAIN item
           /\ item[item[a].next].prev = a /\ item[item[a].prev].next = a
    BY <1>2, <1>5
  <2>3. \A a \in DOMAIN item : a # Tailer =>
           /\ a + HeaderSize + MinAlloc <= item[a].next
           /\ \A b \in DOMAIN item : ~(a < b /\ b < item[a].next)
    BY <1>2, <1>5, <1>6, <2>1
  <2> QED BY <1>2, <1>3, <1>4, <1>5, <2>2, <2>3 DEF Chained
<1>8. FreeIn(item) = {0}
  BY <1>2, <1>5, <1>6 DEF FreeIn
<1>9. Apart(item)
  BY <1>5, <1>6, <1>8 DEF Apart
<1>10. UnitCount(item) = PoolSize - 2 * HeaderSize
  <2>1. FreeIn(item) \ {0} = {} /\ 0 \in FreeIn(item)
    BY <1>8
  <2>2. UnitsOf(item, {}) = {}
    BY DEF UnitsOf
  <2>3. UnitCount(item) = Cardinality(UnitsOf(item, {})) + Behind(item, 0)
    BY <1>7, <2>1, FreeBlockCounts
  <2>4. Cardinality(UnitsOf(item, {})) = 0
    BY <2>2, FS_EmptySet
  <2>5. Behind(item, 0) = PoolSize - 2 * HeaderSize
    BY <1>5, HeapSizes DEF Behind
  <2>6. PoolSize - 2 * HeaderSize \in Int
    BY HeapSizes
  <2> QED BY <2>3, <2>4, <2>5, <2>6
<1>11. HeapShape(heap) /\ heap.item = item /\ heap.free = <<0>> /\ heap.moving = {}
       /\ heap.available = PoolSize - 2 * HeaderSize
  BY <1>1 DEF HeapShape
<1>12. FreeListHas(heap, {0})
  <2>1. <<0>> \in Seq(Address) /\ ToSet(<<0>>) = {0} /\ IsInjective(<<0>>)
    BY <1>3 DEF ToSet, IsInjective
  <2> QED BY <1>11, <2>1 DEF FreeListHas
<1>13. HeapSound(heap)
  BY <1>7, <1>8, <1>9, <1>10, <1>11, <1>12 DEF HeapSound, HeapCounts
<1> QED BY <1>11, <1>13, SoundIsGood

LEMMA HeapStep ==
    ASSUME HeapGood(heap), [HeapNext]_heap
    PROVE  HeapGood(heap')
<1>1. CASE UNCHANGED heap
  BY <1>1
<1>2. ASSUME NEW request \in HeapRequest, HeapAlloc(request) PROVE HeapGood(heap')
  <2>1. /\ CanAlloc(RequestedSize(request))
        /\ heap' = AllocatedFrom(heap.free[FirstFit(RequestedSize(request))],
                                 RequestedSize(request))
    BY <1>2 DEF HeapAlloc
  <2> QED BY <1>2, <2>1, AllocatedGood
<1>3. ASSUME NEW a \in Allocated, HeapFree(a) \/ HeapMoved(a) PROVE HeapGood(heap')
  BY <1>3, HeapFreePreserves, HeapMovedPreserves
<1>4. ASSUME NEW a \in Allocated, NEW request \in HeapRequest,
             HeapGrow(a, request) \/ HeapMove(a, request) \/ HeapShrink(a, request)
      PROVE  HeapGood(heap')
  BY <1>4, HeapGrowPreserves, HeapMovePreserves, HeapShrinkPreserves
<1> QED BY <1>1, <1>2, <1>3, <1>4 DEF HeapNext

LEMMA HeapGoodAgrees ==
    ASSUME HeapGood(heap)
    PROVE  HeapAgrees
<1> DEFINE item == heap.item
<1>1. /\ Chained(item) /\ Apart(item) /\ FreeListHas(heap, FreeIn(item))
      /\ heap.available = UnitCount(item)
  BY HeapGoodParts
<1>2. FreeBlocks = FreeIn(item)
  BY DEF FreeBlocks, FreeIn
<1>3. FreeUnits = UnitsOf(item, FreeIn(item))
  BY <1>2 DEF FreeUnits, UnitsOf
<1>4. /\ {0, Tailer} \subseteq DOMAIN item /\ item[Tailer].next = 0
  BY <1>1 DEF Chained
<1>5. \A a \in DOMAIN item : item[a].next \in DOMAIN item /\ item[item[a].next].prev = a
  BY <1>1, ChainFacts
<1>6. \A a \in DOMAIN item : a # Tailer => \A b \in DOMAIN item : ~(a < b /\ b < item[a].next)
  BY <1>1, ChainFacts
<1>7. \A a \in DOMAIN item : a # Tailer => ItemSize(heap, a) >= MinAlloc
  <2>1. \A a \in DOMAIN item : a # Tailer => a + HeaderSize + MinAlloc <= item[a].next
    BY <1>1, ChainFacts
  <2>2. \A a \in DOMAIN item : a \in Int /\ item[a].next \in Int
    <3> SUFFICES ASSUME NEW a \in DOMAIN item PROVE a \in Int /\ item[a].next \in Int
      OBVIOUS
    <3>1. a \in 0 .. Tailer /\ item[a].next \in 0 .. Tailer
      <4> HIDE DEF item
      <4> QED BY <1>1, ChainFacts
    <3> QED BY ONLY <3>1
  <2>3. \A a \in DOMAIN item : ItemSize(heap, a) = item[a].next - a - HeaderSize
    BY DEF ItemSize
  <2>4. HeaderSize \in Nat /\ MinAlloc \in Nat
    BY HeapSizes
  <2> HIDE DEF item
  <2> QED BY <2>1, <2>2, <2>3, <2>4
<1>8. \A a \in FreeIn(item) : item[a].next \notin FreeIn(item)
  BY <1>1 DEF Apart
<1>9. IsInjective(heap.free) /\ ToSet(heap.free) = FreeIn(item)
  BY <1>1 DEF FreeListHas
<1>10. heap.available = Cardinality(UnitsOf(item, FreeIn(item)))
  BY <1>1 DEF UnitCount
<1> QED BY <1>2, <1>3, <1>4, <1>5, <1>6, <1>7, <1>8, <1>9, <1>10 DEF HeapAgrees

\* rt_memheap_alloc, rt_memheap_free and rt_memheap_realloc leave the pool of
\* any size cut into blocks that are linked both ways without a gap or an
\* overlap, no two free ones next to each other, the free list with the free
\* blocks and available_size with what they have, whatever is asked for.
THEOREM HeapAlwaysAgrees == HeapSpec => []HeapAgrees
<1> DEFINE Good == HeapGood(heap)
<1>1. HeapInit => Good
  BY HeapInitGood
<1>2. Good /\ [HeapNext]_heap => Good'
  BY HeapStep
<1>3. Good => HeapAgrees
  BY HeapGoodAgrees
<1> HIDE DEF Good
<1> QED BY <1>1, <1>2, <1>3, PTL DEF HeapSpec

-----------------------------------------------------------------------------
(* The mailbox: its ring.                                                  *)

MbSlot == 0 .. mb_size - 1

\* the messages of a ring m, the first to be received first
MbItems(m) == [i \in 1 .. m.entry |-> m.msg_pool[(m.out_offset + i - 1) % mb_size]]

\* MbIndicesAgree, with the types
MbRing(m) ==
    /\ m \in [entry : 0 .. mb_size, in_offset : MbSlot, out_offset : MbSlot,
              msg_pool : [MbSlot -> Message \cup {Nil}]]
    /\ m.in_offset = (m.out_offset + m.entry) % mb_size
    /\ \A i \in 0 .. m.entry - 1 : m.msg_pool[(m.out_offset + i) % mb_size] \in Message

LEMMA MbSize == mb_size \in Nat \ {0} /\ mb_size \in Int /\ 0 < mb_size
BY MailboxAssumption

\* The places of a ring that starts at o.
LEMMA MbPlaces ==
    ASSUME NEW o \in MbSlot
    PROVE  /\ \A i \in 0 .. mb_size : (o + i) % mb_size \in MbSlot
           /\ \A i, k \in 0 .. mb_size - 1 : i # k => (o + i) % mb_size # (o + k) % mb_size
           /\ \A i \in 0 .. mb_size - 1 : MbNextSlot((o + i) % mb_size) = (o + (i + 1)) % mb_size
           /\ \A i \in 0 .. mb_size - 1 : (MbNextSlot(o) + i) % mb_size = (o + (i + 1)) % mb_size
           /\ MbNextSlot(o) \in MbSlot
           /\ (o + 0) % mb_size = o
<1> DEFINE Pos(x) == IF x < mb_size THEN x ELSE x - mb_size
<1>1. \A x \in 0 .. 2 * mb_size - 1 : x % mb_size = Pos(x)
  BY MbSize, RingIndex
<1>2. \A i \in 0 .. mb_size :
          /\ o + i \in 0 .. 2 * mb_size - 1
          /\ (o + i) % mb_size = IF o + i < mb_size THEN o + i ELSE o + i - mb_size
  BY <1>1, MbSize DEF MbSlot
<1>3. \A i \in 0 .. mb_size - 1 : i \in 0 .. mb_size /\ i + 1 \in 0 .. mb_size
  BY MbSize
<1>4. 0 \in 0 .. mb_size
  BY MbSize
<1>5. ASSUME NEW i \in 0 .. mb_size - 1
      PROVE  (MbNextSlot(o) + i) % mb_size = (o + (i + 1)) % mb_size
  <2>1. CASE o + 1 >= mb_size
    <3>1. MbNextSlot(o) = 0 /\ o = mb_size - 1 /\ i \in 0 .. 2 * mb_size - 1
      BY <2>1, MbSize DEF MbNextSlot, MbSlot
    <3>2. (o + (i + 1)) % mb_size = i
      BY <1>2, <1>3, <3>1, MbSize
    <3>3. 0 + i = i /\ i % mb_size = i
      BY <1>1, <3>1, MbSize
    <3> QED BY <3>1, <3>2, <3>3
  <2>2. CASE o + 1 < mb_size
    <3>1. MbNextSlot(o) = o + 1
      BY <2>2, MbSize DEF MbNextSlot, MbSlot
    <3> QED BY <3>1, MbSize DEF MbSlot
  <2> QED BY <2>1, <2>2, MbSize DEF MbSlot
<1>6. ASSUME NEW i \in 0 .. mb_size - 1
      PROVE  MbNextSlot((o + i) % mb_size) = (o + (i + 1)) % mb_size
  <2>1. /\ (o + i) % mb_size = IF o + i < mb_size THEN o + i ELSE o + i - mb_size
        /\ (o + (i + 1)) % mb_size
             = IF o + (i + 1) < mb_size THEN o + (i + 1) ELSE o + (i + 1) - mb_size
    BY <1>2, <1>3
  <2> QED BY <2>1, MbSize DEF MbNextSlot, MbSlot
<1>7. \A i \in 0 .. mb_size : (o + i) % mb_size \in MbSlot
  BY <1>2, MbSize DEF MbSlot
<1>8. \A i, k \in 0 .. mb_size - 1 : i # k => (o + i) % mb_size # (o + k) % mb_size
  BY <1>2, <1>3, MbSize DEF MbSlot
<1>9. MbNextSlot(o) \in MbSlot /\ (o + 0) % mb_size = o
  BY <1>2, <1>4, MbSize DEF MbNextSlot, MbSlot
<1> QED BY <1>5, <1>6, <1>7, <1>8, <1>9

LEMMA MbItemsAre ==
    ASSUME NEW m, MbRing(m)
    PROVE  /\ MbItems(m) \in Seq(Message) /\ Len(MbItems(m)) = m.entry
           /\ \A i \in 1 .. m.entry :
                  MbItems(m)[i] = m.msg_pool[(m.out_offset + (i - 1)) % mb_size]
<1>1. m.entry \in 0 .. mb_size /\ m.out_offset \in MbSlot
  BY DEF MbRing
<1>2. ASSUME NEW i \in 1 .. m.entry
      PROVE  /\ MbItems(m)[i] = m.msg_pool[(m.out_offset + (i - 1)) % mb_size]
             /\ MbItems(m)[i] \in Message
  <2>1. i - 1 \in 0 .. m.entry - 1 /\ m.out_offset + i - 1 = m.out_offset + (i - 1)
    BY <1>1, MbSize DEF MbSlot
  <2>2. MbItems(m)[i] = m.msg_pool[(m.out_offset + (i - 1)) % mb_size]
    BY <2>1 DEF MbItems
  <2> QED BY <2>1, <2>2 DEF MbRing
<1>3. DOMAIN MbItems(m) = 1 .. m.entry /\ m.entry \in Nat
  BY <1>1, MbSize DEF MbItems
<1>4. MbItems(m) = [i \in 1 .. m.entry |-> MbItems(m)[i]]
  BY DEF MbItems
<1>5. MbItems(m) \in [1 .. m.entry -> Message]
  BY <1>2, <1>4
<1> HIDE DEF MbItems
<1>6. MbItems(m) \in Seq(Message) /\ Len(MbItems(m)) = m.entry
  BY <1>3, <1>5
<1> QED BY <1>2, <1>6

\* what MbStored and the reception make of a ring
MbWith(m, v) ==
    [entry |-> m.entry + 1, in_offset |-> MbNextSlot(m.in_offset), out_offset |-> m.out_offset,
     msg_pool |-> [m.msg_pool EXCEPT ![m.in_offset] = v]]

MbWithout(m) ==
    [entry |-> m.entry - 1, in_offset |-> m.in_offset, out_offset |-> MbNextSlot(m.out_offset),
     msg_pool |-> m.msg_pool]

\* A message goes behind the others.
LEMMA MbStores ==
    ASSUME NEW m, MbRing(m), m.entry < mb_size, NEW v \in Message, NEW z, z = MbWith(m, v)
    PROVE  /\ MbRing(z) /\ z.entry = m.entry + 1
           /\ MbItems(z) = Append(MbItems(m), v)
<1> DEFINE o == m.out_offset
           e == m.entry
<1>1. /\ e \in 0 .. mb_size - 1 /\ o \in MbSlot /\ e + 1 \in 0 .. mb_size /\ e \in Int
      /\ m.in_offset = (o + e) % mb_size /\ m.in_offset \in MbSlot
      /\ m.msg_pool \in [MbSlot -> Message \cup {Nil}]
      /\ \A i \in 0 .. e - 1 : m.msg_pool[(o + i) % mb_size] \in Message
  BY MbSize DEF MbRing, MbSlot
<1>2. /\ z.entry = e + 1 /\ z.in_offset = MbNextSlot(m.in_offset) /\ z.out_offset = o
      /\ z.msg_pool = [m.msg_pool EXCEPT ![m.in_offset] = v]
  BY DEF MbWith
<1>3. z.in_offset = (o + (e + 1)) % mb_size /\ z.in_offset \in MbSlot
  BY <1>1, <1>2, MbPlaces
<1>4. z.msg_pool \in [MbSlot -> Message \cup {Nil}]
  BY <1>1, <1>2
<1>5. z.msg_pool[(o + e) % mb_size] = v
  BY <1>1, <1>2
<1>6. ASSUME NEW i \in 0 .. e - 1
      PROVE  z.msg_pool[(o + i) % mb_size] = m.msg_pool[(o + i) % mb_size]
  <2>1. i \in 0 .. mb_size - 1 /\ i # e
    BY <1>1, MbSize
  <2>2. (o + i) % mb_size # (o + e) % mb_size
    BY <1>1, <2>1, MbPlaces
  <2> QED BY <1>1, <1>2, <2>2
<1>7. \A i \in 0 .. (e + 1) - 1 : z.msg_pool[(o + i) % mb_size] \in Message
  <2> TAKE i \in 0 .. (e + 1) - 1
  <2>1. i = e \/ i \in 0 .. e - 1
    BY <1>1
  <2> QED BY <1>1, <1>5, <1>6, <2>1
<1>8. MbRing(z)
  <2>1. z \in [entry : 0 .. mb_size, in_offset : MbSlot, out_offset : MbSlot,
               msg_pool : [MbSlot -> Message \cup {Nil}]]
    BY <1>1, <1>2, <1>3, <1>4 DEF MbWith
  <2> QED BY <1>2, <1>3, <1>7, <2>1 DEF MbRing
<1>9. MbItems(z) = Append(MbItems(m), v)
  <2>1. /\ MbItems(m) \in Seq(Message) /\ Len(MbItems(m)) = e
        /\ \A i \in 1 .. e : MbItems(m)[i] = m.msg_pool[(o + (i - 1)) % mb_size]
    BY MbItemsAre
  <2>2. /\ MbItems(z) \in Seq(Message) /\ Len(MbItems(z)) = e + 1
        /\ \A i \in 1 .. e + 1 : MbItems(z)[i] = z.msg_pool[(o + (i - 1)) % mb_size]
    <3>1. /\ MbItems(z) \in Seq(Message) /\ Len(MbItems(z)) = z.entry
          /\ \A i \in 1 .. z.entry :
                 MbItems(z)[i] = z.msg_pool[(z.out_offset + (i - 1)) % mb_size]
      BY <1>8, MbItemsAre
    <3>2. z.entry = e + 1 /\ z.out_offset = o
      BY <1>2
    <3> HIDE DEF e, o
    <3> QED BY <3>1, <3>2
  <2> DEFINE A == Append(MbItems(m), v)
  <2>3. A \in Seq(Message) /\ Len(A) = e + 1 /\ A[e + 1] = v
        /\ \A i \in 1 .. e : A[i] = MbItems(m)[i]
    BY <1>1, <2>1
  <2>4. ASSUME NEW i \in 1 .. e + 1 PROVE MbItems(z)[i] = A[i]
    <3>1. CASE i = e + 1
      BY <1>1, <1>5, <2>2, <2>3, <3>1
    <3>2. CASE i # e + 1
      <4>1. i \in 1 .. e /\ i - 1 \in 0 .. e - 1
        BY <1>1, <3>2
      <4>2. A[i] = m.msg_pool[(o + (i - 1)) % mb_size]
        BY <2>1, <2>3, <4>1
      <4>3. MbItems(z)[i] = z.msg_pool[(o + (i - 1)) % mb_size]
        BY <2>2
      <4>4. z.msg_pool[(o + (i - 1)) % mb_size] = m.msg_pool[(o + (i - 1)) % mb_size]
        BY <1>6, <4>1
      <4> QED BY <4>2, <4>3, <4>4
    <3> QED BY <3>1, <3>2
  <2> HIDE DEF A
  <2>5. MbItems(z) = A
    BY <2>2, <2>3, <2>4
  <2> QED BY <2>5 DEF A
<1> QED BY <1>2, <1>8, <1>9

\* The first message goes.
LEMMA MbTakes ==
    ASSUME NEW m, MbRing(m), m.entry > 0, NEW z, z = MbWithout(m)
    PROVE  /\ MbRing(z) /\ z.entry = m.entry - 1
           /\ MbItems(m) # << >> /\ MbItems(z) = Tail(MbItems(m))
           /\ m.msg_pool[m.out_offset] \in Message
           /\ Head(MbItems(m)) = m.msg_pool[m.out_offset]
<1> DEFINE o == m.out_offset
           e == m.entry
           n == MbNextSlot(o)
<1>1. /\ e \in 1 .. mb_size /\ o \in MbSlot /\ e - 1 \in 0 .. mb_size /\ e \in Int
      /\ m.in_offset = (o + e) % mb_size /\ m.in_offset \in MbSlot
      /\ m.msg_pool \in [MbSlot -> Message \cup {Nil}]
      /\ \A i \in 0 .. e - 1 : m.msg_pool[(o + i) % mb_size] \in Message
  BY MbSize DEF MbRing, MbSlot
<1>2. /\ z.entry = e - 1 /\ z.in_offset = m.in_offset /\ z.out_offset = n
      /\ z.msg_pool = m.msg_pool
  BY DEF MbWithout
<1>3. n \in MbSlot /\ (o + 0) % mb_size = o
      /\ \A i \in 0 .. mb_size - 1 : (n + i) % mb_size = (o + (i + 1)) % mb_size
  BY <1>1, MbPlaces
<1> HIDE DEF n
<1>4. z.in_offset = (n + (e - 1)) % mb_size
  <2>1. e - 1 \in 0 .. mb_size - 1 /\ (e - 1) + 1 = e
    BY <1>1, MbSize
  <2> QED BY <1>1, <1>2, <1>3, <2>1
<1>5. \A i \in 0 .. (e - 1) - 1 : z.msg_pool[(n + i) % mb_size] \in Message
  <2> TAKE i \in 0 .. (e - 1) - 1
  <2>1. i \in 0 .. mb_size - 1 /\ i + 1 \in 0 .. e - 1
    BY <1>1, MbSize
  <2> QED BY <1>1, <1>2, <1>3, <2>1
<1>6. MbRing(z)
  <2>1. z \in [entry : 0 .. mb_size, in_offset : MbSlot, out_offset : MbSlot,
               msg_pool : [MbSlot -> Message \cup {Nil}]]
    BY <1>1, <1>2, <1>3 DEF MbWithout, n
  <2> QED BY <1>2, <1>4, <1>5, <2>1 DEF MbRing
<1>7. /\ MbItems(m) \in Seq(Message) /\ Len(MbItems(m)) = e
      /\ \A i \in 1 .. e : MbItems(m)[i] = m.msg_pool[(o + (i - 1)) % mb_size]
  BY MbItemsAre
<1>8. /\ MbItems(z) \in Seq(Message) /\ Len(MbItems(z)) = e - 1
      /\ \A i \in 1 .. e - 1 : MbItems(z)[i] = z.msg_pool[(n + (i - 1)) % mb_size]
  BY <1>2, <1>6, MbItemsAre
<1>9. MbItems(m) # << >> /\ Head(MbItems(m)) = MbItems(m)[1]
  BY <1>1, <1>7
<1>10. MbItems(m)[1] = m.msg_pool[o] /\ m.msg_pool[o] \in Message
  <2>1. 1 \in 1 .. e /\ 1 - 1 = 0 /\ 0 \in 0 .. e - 1
    BY <1>1
  <2> QED BY <1>1, <1>3, <1>7, <2>1
<1>11. MbItems(z) = Tail(MbItems(m))
  <2> DEFINE T == Tail(MbItems(m))
  <2>1. T \in Seq(Message) /\ Len(T) = e - 1 /\ \A i \in 1 .. e - 1 : T[i] = MbItems(m)[i + 1]
    BY <1>1, <1>7, <1>9
  <2>2. ASSUME NEW i \in 1 .. e - 1 PROVE MbItems(z)[i] = T[i]
    <3>1. i - 1 \in 0 .. mb_size - 1 /\ (i - 1) + 1 = i /\ i + 1 \in 1 .. e /\ (i + 1) - 1 = i
      BY <1>1, MbSize
    <3>2. (n + (i - 1)) % mb_size = (o + i) % mb_size
      BY <1>3, <3>1
    <3>3. T[i] = m.msg_pool[(o + i) % mb_size]
      BY <1>7, <2>1, <3>1
    <3> QED BY <1>2, <1>8, <3>2, <3>3
  <2> HIDE DEF T
  <2>3. MbItems(z) = T
    BY <1>1, <1>8, <2>1, <2>2
  <2> QED BY <2>3 DEF T
<1> QED BY <1>2, <1>6, <1>9, <1>10, <1>11

-----------------------------------------------------------------------------
(* The mailbox: its invariant, and the channel it implements.              *)

MbWhere ==
    [w \in {"mb_recv_wait", "mb_send_wait"} |->
        IF w = "mb_recv_wait" THEN suspend_thread ELSE suspend_sender_thread]

\* messages for those who receive, and slots for those who send
MbThere(m) ==
    [w \in DOMAIN MbWhere |-> IF w = "mb_recv_wait" THEN m.entry ELSE mb_size - m.entry]

\* the places of calls that carry a message
MbCarries == {"mb_send", "mb_send_wait", "mb_received"}

MbInv == Flow(s, pc, MbWhere, MbThere(mb)) /\ Locals(pc, loc, MbCarries) /\ MbRing(mb)

MbInbox(p, lo) == [t \in Receiver |-> IF p[t] = "mb_received" THEN lo[t].val ELSE Nil]

LEMMA MbPlace ==
    /\ DOMAIN MbWhere = {"mb_recv_wait", "mb_send_wait"}
    /\ MbWhere["mb_recv_wait"] = suspend_thread
    /\ MbWhere["mb_send_wait"] = suspend_sender_thread
    /\ WaitPlaces(MbWhere)
    /\ suspend_thread # suspend_sender_thread
BY BlockingAssumption DEF MbWhere, WaitPlaces

LEMMA MbThereIs ==
    ASSUME NEW m, MbRing(m)
    PROVE  /\ Counts(MbWhere, MbThere(m)) /\ m.entry \in Int
           /\ MbThere(m)["mb_recv_wait"] = m.entry
           /\ MbThere(m)["mb_send_wait"] = mb_size - m.entry
<1>1. m.entry \in Int /\ mb_size \in Int
  BY MbSize DEF MbRing
<1> QED BY <1>1, MbPlace DEF Counts, MbThere

\* the steps of the channel
LEMMA MbSendsThen ==
    ASSUME MbRing(mb), NEW v \in Message, mb.entry < mb_size,
           MbItems(mb') = Append(MbItems(mb), v), MbInbox(pc', loc') = MbInbox(pc, loc)
    PROVE  MbChannel!Next
<1>1. Len(MbItems(mb)) < mb_size
  BY MbItemsAre
<1>2. MbItems(mb) = MbPending /\ MbItems(mb') = MbPending'
  BY DEF MbItems, MbPending
<1>3. MbChannel!Send(v)
  BY <1>1, <1>2 DEF MbChannel!Send, MbInbox
<1> QED BY <1>3 DEF MbChannel!Next

LEMMA MbReceivesThen ==
    ASSUME NEW t \in Receiver, MbItems(mb) # << >>, MbItems(mb') = Tail(MbItems(mb)),
           pc[t] # "mb_received",
           MbInbox(pc', loc') = [MbInbox(pc, loc) EXCEPT ![t] = Head(MbItems(mb))]
    PROVE  MbChannel!Next
<1>1. MbItems(mb) = MbPending /\ MbItems(mb') = MbPending'
  BY DEF MbItems, MbPending
<1>2. MbInbox(pc, loc)[t] = Nil
  BY DEF MbInbox
<1>3. MbChannel!Receive(t)
  BY <1>1, <1>2 DEF MbChannel!Receive, MbInbox
<1> QED BY <1>3 DEF MbChannel!Next

LEMMA MbConsumesThen ==
    ASSUME NEW t \in Receiver, MbInbox(pc, loc)[t] # Nil, mb' = mb,
           MbInbox(pc', loc') = [MbInbox(pc, loc) EXCEPT ![t] = Nil]
    PROVE  MbChannel!Next
<1>1. MbPending' = MbPending
  BY DEF MbPending
<1>2. MbChannel!Consume(t)
  BY <1>1 DEF MbChannel!Consume, MbInbox
<1> QED BY <1>2 DEF MbChannel!Next

LEMMA MbClearsThen ==
    ASSUME MbRing(mb'), mb'.entry = 0, MbInbox(pc', loc') = MbInbox(pc, loc)
    PROVE  MbChannel!Next
<1>1. MbItems(mb') = << >>
  <2>1. MbItems(mb') \in Seq(Message) /\ Len(MbItems(mb')) = 0
    BY MbItemsAre
  <2> QED BY <2>1, EmptySeq
<1>2. MbItems(mb') = MbPending'
  BY DEF MbItems, MbPending
<1>3. MbChannel!Clear
  BY <1>1, <1>2 DEF MbChannel!Clear, MbInbox
<1> QED BY <1>3 DEF MbChannel!Next

LEMMA MbStutters ==
    ASSUME mb' = mb, MbInbox(pc', loc') = MbInbox(pc, loc)
    PROVE  UNCHANGED MbChannel!vars
BY DEF MbChannel!vars, MbPending, MbInbox

\* Nobody's inbox changes when a thread goes from one other place to another.
LEMMA MbInboxStill ==
    ASSUME EachThread(pc), NEW t \in Thread, NEW x, pc' = Placed(pc, t, x),
           x # "mb_received", pc[t] # "mb_received",
           \A u \in Thread \ {t} : loc'[u].val = loc[u].val
    PROVE  MbInbox(pc', loc') = MbInbox(pc, loc)
<1>1. Receiver \subseteq Thread
  BY BlockingAssumption
<1>2. \A u \in Thread : pc'[u] = IF u = t THEN x ELSE pc[u]
  BY DEF EachThread, Placed
<1> QED BY <1>1, <1>2 DEF MbInbox

\* A step keeps the invariant, and is one of the channel or none.
MbGood == MbInv' /\ (MbChannel!Next \/ UNCHANGED MbChannel!vars)

LEMMA MbBegins ==
    ASSUME MbInv, NEW t \in Thread, NEW label \in {"mb_send", "mb_recv"}, NEW time \in Time,
           NEW v \in Message \cup {Nil}, label = "mb_send" => v \in Message,
           Begin(t, label, time, v), mb' = mb
    PROVE  MbGood
<1>1. /\ Waits(s, pc, MbWhere) /\ Locals(pc, loc, MbCarries) /\ EachThread(pc)
      /\ label \notin DOMAIN MbWhere /\ "user" \notin DOMAIN MbWhere
      /\ label \in MbCarries => v \in Message
  BY MbPlace DEF MbInv, Flow, Waits, MbCarries
<1>2. /\ Waits(s', pc', MbWhere) /\ Locals(pc', loc', MbCarries) /\ SameSleepers(MbWhere)
      /\ pc[t] = "user" /\ pc' = Placed(pc, t, label)
      /\ \A u \in Thread \ {t} : loc'[u] = loc[u]
  BY <1>1, BeginIs
<1>3. Flow(s', pc', MbWhere, MbThere(mb))
  BY <1>2, FlowTimes DEF MbInv, SameSleepers
<1>4. MbInbox(pc', loc') = MbInbox(pc, loc)
  BY <1>1, <1>2, MbInboxStill
<1>5. MbInv'
  BY <1>2, <1>3 DEF MbInv
<1> QED BY <1>4, <1>5, MbStutters DEF MbGood

\* A call returns, and nothing comes or goes.
LEMMA MbReturns ==
    ASSUME MbInv, NEW t \in Thread, pc[t] # "mb_received", t \notin s.asleep, Return(t),
           s' = s, mb' = mb,
           \A w \in DOMAIN MbWhere : pc[t] = w => MbThere(mb)[w] <= 0
    PROVE  MbGood
<1>1. /\ Flow(s, pc, MbWhere, MbThere(mb)) /\ Locals(pc, loc, MbCarries) /\ EachThread(pc)
      /\ Waits(s, pc, MbWhere) /\ "user" \notin DOMAIN MbWhere /\ "user" \notin MbCarries
      /\ Counts(MbWhere, MbThere(mb))
  BY MbPlace DEF MbInv, Flow, Waits, MbCarries
<1>2. /\ Locals(pc', loc', MbCarries) /\ pc' = Placed(pc, t, "user")
      /\ \A u \in Thread \ {t} : loc'[u] = loc[u]
  BY <1>1, ReturnIs
<1>3. \A w \in DOMAIN MbWhere : Takes(pc, t, w, MbThere(mb)[w], MbThere(mb)[w])
  BY <1>1 DEF Takes, Counts
<1>4. Flow(s', pc', MbWhere, MbThere(mb))
  <2> DEFINE x == "user"
             n == MbThere(mb)
  <2>1. x \notin DOMAIN MbWhere /\ pc' = Placed(pc, t, x) /\ Flow(s, pc, MbWhere, n)
        /\ \A w \in DOMAIN MbWhere : Takes(pc, t, w, n[w], n[w])
    BY <1>1, <1>2, <1>3
  <2>2. Counts(MbWhere, n)
    BY <1>1
  <2> HIDE DEF x, n
  <2>3. Flow(s, pc', MbWhere, n)
    BY <2>1, <2>2, FlowGoes
  <2> QED BY <2>3 DEF n
<1>5. MbInbox(pc', loc') = MbInbox(pc, loc)
  <2> DEFINE x == "user"
  <2>1. x # "mb_received" /\ pc' = Placed(pc, t, x)
    BY <1>2
  <2> HIDE DEF x
  <2> QED BY <1>1, <1>2, <2>1, MbInboxStill
<1>6. MbInv'
  BY <1>2, <1>4 DEF MbInv
<1> QED BY <1>5, <1>6, MbStutters DEF MbGood

\* A call waits at the place w, where nothing is there for it.
LEMMA MbWaits ==
    ASSUME MbInv, NEW t \in Thread, NEW w \in DOMAIN MbWhere, t \notin s.asleep,
           NEW call \in {"mb_send", "mb_recv"}, pc[t] = call \/ pc[t] = w,
           w = "mb_send_wait" <=> call = "mb_send",
           NEW time \in Time, SuspendSelf(t, MbWhere[w], time, w), mb' = mb,
           MbThere(mb)[w] <= 0
    PROVE  MbGood
<1>1. /\ Flow(s, pc, MbWhere, MbThere(mb)) /\ Locals(pc, loc, MbCarries) /\ EachThread(pc)
      /\ Waits(s, pc, MbWhere) /\ (w \in MbCarries => pc[t] \in MbCarries)
      /\ pc[t] # "mb_received" /\ w # "mb_received"
      /\ \A v \in DOMAIN MbWhere \ {w} : pc[t] # v
  BY MbPlace DEF MbInv, Flow, Waits, MbCarries
<1>2. /\ Locals(pc', loc', MbCarries) /\ pc' = Placed(pc, t, w)
      /\ \A u \in Thread : loc'[u].val = loc[u].val
  BY <1>1, SuspendSelfIs
<1>3. s' = Suspended(s, MbWhere[w], t, time)
  BY DEF SuspendSelf, Suspended
<1>4. Flow(s', pc', MbWhere, MbThere(mb))
  <2> DEFINE n == MbThere(mb)
             r == s'
  <2>1. Flow(s, pc, MbWhere, n) /\ n[w] <= 0 /\ r = Suspended(s, MbWhere[w], t, time)
    BY <1>1, <1>3
  <2> HIDE DEF n, r
  <2>2. Flow(r, pc', MbWhere, n)
    BY <1>1, <1>2, <2>1, FlowSuspends
  <2> QED BY <2>2 DEF n, r
<1>5. MbInbox(pc', loc') = MbInbox(pc, loc)
  BY <1>1, <1>2, MbInboxStill
<1>6. MbInv'
  BY <1>2, <1>4 DEF MbInv
<1> QED BY <1>5, <1>6, MbStutters DEF MbGood

LEMMA MbFails ==
    ASSUME MbInv, NEW t \in Thread, NEW w \in DOMAIN MbWhere, WaitFails(t, w), mb' = mb
    PROVE  MbGood
<1>1. /\ Flow(s, pc, MbWhere, MbThere(mb)) /\ Locals(pc, loc, MbCarries) /\ EachThread(pc)
      /\ Waits(s, pc, MbWhere) /\ "user" \notin DOMAIN MbWhere /\ "user" \notin MbCarries
      /\ w # "mb_received"
  BY MbPlace DEF MbInv, Flow, Waits, MbCarries
<1>2. /\ Waits(s', pc', MbWhere) /\ Locals(pc', loc', MbCarries) /\ SameSleepers(MbWhere)
      /\ pc' = Placed(pc, t, "user") /\ pc[t] = w
      /\ \A u \in Thread \ {t} : loc'[u] = loc[u]
  BY <1>1, WaitFailsIs
<1>3. Flow(s', pc', MbWhere, MbThere(mb))
  BY <1>1, <1>2, FlowTimes DEF SameSleepers
<1>4. MbInbox(pc', loc') = MbInbox(pc, loc)
  <2> DEFINE x == "user"
  <2>1. x # "mb_received" /\ pc' = Placed(pc, t, x)
    BY <1>2
  <2> HIDE DEF x
  <2> QED BY <1>1, <1>2, <2>1, MbInboxStill
<1>5. MbInv'
  BY <1>2, <1>3 DEF MbInv
<1> QED BY <1>4, <1>5, MbStutters DEF MbGood

LEMMA MbExpires ==
    ASSUME MbInv, NEW t \in Thread, TimerExpires(t), mb' = mb
    PROVE  MbGood
<1>1. /\ Flow(s, pc, MbWhere, MbThere(mb)) /\ Waits(s, pc, MbWhere)
      /\ Locals(pc, loc, MbCarries)
  BY DEF MbInv, Flow
<1>2. /\ Waits(s', pc', MbWhere) /\ pc' = pc /\ loc' = loc
      /\ \A v : /\ Asleep(s', pc', v) \subseteq Asleep(s, pc, v)
                /\ Awake(s', pc', v) = Awake(s, pc, v)
  BY <1>1, TimerExpiresIs
<1>3. Flow(s', pc', MbWhere, MbThere(mb))
  BY <1>1, <1>2, FlowTimes
<1>4. MbInv'
  BY <1>1, <1>2, <1>3 DEF MbInv
<1> QED BY <1>2, <1>4, MbStutters DEF MbGood

LEMMA MbFields ==
    ASSUME MbRing(mb)
    PROVE  /\ \A v : MbStored(v) = MbWith(mb, v)
           /\ [mb EXCEPT !.out_offset = MbNextSlot(@), !.entry = @ - 1] = MbWithout(mb)
           /\ [mb EXCEPT !.entry = 0, !.in_offset = 0, !.out_offset = 0]
                = [entry |-> 0, in_offset |-> 0, out_offset |-> 0, msg_pool |-> mb.msg_pool]
<1>1. mb = [entry |-> mb.entry, in_offset |-> mb.in_offset, out_offset |-> mb.out_offset,
            msg_pool |-> mb.msg_pool]
  BY DEF MbRing
<1>2. ASSUME NEW v PROVE MbStored(v) = MbWith(mb, v)
  <2> DEFINE x == [mb.msg_pool EXCEPT ![mb.in_offset] = v]
             a == [mb EXCEPT !.msg_pool = x]
  <2>1. a = [entry |-> mb.entry, in_offset |-> mb.in_offset, out_offset |-> mb.out_offset,
             msg_pool |-> x]
    <3> HIDE DEF x
    <3> QED BY <1>1
  <2>2. MbStored(v) = [a EXCEPT !.in_offset = MbNextSlot(mb.in_offset), !.entry = mb.entry + 1]
    BY DEF MbStored
  <2>3. MbWith(mb, v) = [entry |-> mb.entry + 1, in_offset |-> MbNextSlot(mb.in_offset),
                         out_offset |-> mb.out_offset, msg_pool |-> x]
    BY DEF MbWith
  <2> HIDE DEF a, x
  <2> QED BY <2>1, <2>2, <2>3
<1>3. [mb EXCEPT !.out_offset = MbNextSlot(@), !.entry = @ - 1] = MbWithout(mb)
  <2> DEFINE x == MbNextSlot(mb.out_offset)
             y == mb.entry - 1
             a == [mb EXCEPT !.out_offset = x]
  <2>1. a = [entry |-> mb.entry, in_offset |-> mb.in_offset, out_offset |-> x,
             msg_pool |-> mb.msg_pool]
    <3> HIDE DEF x
    <3> QED BY <1>1
  <2>2. MbWithout(mb) = [entry |-> y, in_offset |-> mb.in_offset, out_offset |-> x,
                         msg_pool |-> mb.msg_pool]
    BY DEF MbWithout
  <2>3. [mb EXCEPT !.out_offset = MbNextSlot(@), !.entry = @ - 1] = [a EXCEPT !.entry = y]
    OBVIOUS
  <2> HIDE DEF a, x, y
  <2>4. [a EXCEPT !.entry = y] = [entry |-> y, in_offset |-> mb.in_offset, out_offset |-> x,
                                  msg_pool |-> mb.msg_pool]
    BY <2>1
  <2> QED BY <2>2, <2>3, <2>4
<1>4. [mb EXCEPT !.entry = 0, !.in_offset = 0, !.out_offset = 0]
        = [entry |-> 0, in_offset |-> 0, out_offset |-> 0, msg_pool |-> mb.msg_pool]
  <2> DEFINE a == [mb EXCEPT !.entry = 0]
  <2>1. a = [entry |-> 0, in_offset |-> mb.in_offset, out_offset |-> mb.out_offset,
             msg_pool |-> mb.msg_pool]
    BY <1>1
  <2> DEFINE b == [a EXCEPT !.in_offset = 0]
  <2> HIDE DEF a
  <2>2. b = [entry |-> 0, in_offset |-> 0, out_offset |-> mb.out_offset,
             msg_pool |-> mb.msg_pool]
    BY <2>1
  <2>3. [mb EXCEPT !.entry = 0, !.in_offset = 0, !.out_offset = 0] = [b EXCEPT !.out_offset = 0]
    BY DEF a
  <2> HIDE DEF b
  <2> QED BY <2>2, <2>3
<1> QED BY <1>2, <1>3, <1>4

\* A message is stored in the ring, by whoever is at p, and a receiver resumed.
LEMMA MbStoresOne ==
    ASSUME MbRing(mb), NEW v \in Message, mb.entry < mb_size, mb' = MbStored(v),
           NEW p, NEW n, Flow(s, p, MbWhere, n), n["mb_recv_wait"] = mb.entry,
           n["mb_send_wait"] = mb_size - mb.entry - 1, s' = AfterMbPut(s)
    PROVE  MbRing(mb') /\ MbItems(mb') = Append(MbItems(mb), v)
           /\ Flow(s', p, MbWhere, MbThere(mb'))
<1>1. mb' = MbWith(mb, v)
  BY MbFields
<1>2. MbRing(mb') /\ mb'.entry = mb.entry + 1 /\ MbItems(mb') = Append(MbItems(mb), v)
  <2> DEFINE z == mb'
  <2>1. z = MbWith(mb, v)
    BY <1>1
  <2> HIDE DEF z
  <2>2. MbRing(z) /\ z.entry = mb.entry + 1 /\ MbItems(z) = Append(MbItems(mb), v)
    BY <2>1, MbStores
  <2> QED BY <2>2 DEF z
<1>3. /\ Counts(MbWhere, MbThere(mb')) /\ mb'.entry \in Int /\ mb.entry \in Int
      /\ MbThere(mb')["mb_recv_wait"] = mb'.entry
      /\ MbThere(mb')["mb_send_wait"] = mb_size - mb'.entry
  BY <1>2, MbThereIs
<1>4. Flow(s', p, MbWhere, MbThere(mb'))
  <2> DEFINE w == "mb_recv_wait"
             m == MbThere(mb')
             r == s'
  <2>1. /\ w \in DOMAIN MbWhere /\ r = ResumeOne(s, MbWhere[w]) /\ Counts(MbWhere, m)
        /\ m[w] <= n[w] + 1 /\ \A v1 \in DOMAIN MbWhere \ {w} : m[v1] <= n[v1]
    BY <1>2, <1>3, MbPlace, MbSize DEF AfterMbPut
  <2> HIDE DEF w, m, r
  <2>2. Flow(r, p, MbWhere, m)
    BY <2>1, FlowResumes
  <2> QED BY <2>2 DEF m, r
<1> QED BY <1>2, <1>4

LEMMA MbPutStep ==
    ASSUME MbInv, NEW t \in Sender, MbPut(t)
    PROVE  MbGood
<1> DEFINE v == loc[t].val
<1>1. /\ Flow(s, pc, MbWhere, MbThere(mb)) /\ Locals(pc, loc, MbCarries) /\ EachThread(pc)
      /\ Waits(s, pc, MbWhere) /\ "user" \notin DOMAIN MbWhere /\ "user" \notin MbCarries
      /\ MbRing(mb) /\ t \in Thread
  BY MbPlace, BlockingAssumption DEF MbInv, Flow, Waits, MbCarries
<1>2. /\ t \notin s.asleep /\ (pc[t] = "mb_send" \/ pc[t] = "mb_send_wait") /\ Return(t)
      /\ mb' = MbStored(v) /\ s' = AfterMbPut(s) /\ mb.entry # mb_size
  BY <1>1, TestIs DEF MbPut, MbFull
<1>3. v \in Message /\ mb.entry \in 0 .. mb_size /\ mb.entry < mb_size
  BY <1>1, <1>2, MbSize DEF Locals, MbCarries, MbRing
<1>4. /\ Locals(pc', loc', MbCarries) /\ pc' = Placed(pc, t, "user")
      /\ \A u \in Thread \ {t} : loc'[u] = loc[u]
  BY <1>1, <1>2, ReturnIs
<1>5. MbInbox(pc', loc') = MbInbox(pc, loc)
  <2> DEFINE x == "user"
  <2>1. x # "mb_received" /\ pc' = Placed(pc, t, x) /\ pc[t] # "mb_received"
    BY <1>2, <1>4
  <2> HIDE DEF x
  <2> QED BY <1>1, <1>4, <2>1, MbInboxStill
<1> DEFINE n == [w \in DOMAIN MbWhere |-> IF w = "mb_recv_wait" THEN mb.entry
                                          ELSE mb_size - mb.entry - 1]
<1>6. /\ Counts(MbWhere, n) /\ n["mb_recv_wait"] = mb.entry
      /\ n["mb_send_wait"] = mb_size - mb.entry - 1
  BY <1>3, MbPlace, MbSize DEF Counts
<1>7. \A w \in DOMAIN MbWhere : Takes(pc, t, w, MbThere(mb)[w], n[w])
  BY <1>1, <1>2, <1>3, <1>6, MbThereIs, MbPlace, MbSize DEF Takes
<1> HIDE DEF n
<1>8. Flow(s, pc', MbWhere, n)
  <2> DEFINE x == "user"
             m == MbThere(mb)
  <2>1. x \notin DOMAIN MbWhere /\ pc' = Placed(pc, t, x) /\ Flow(s, pc, MbWhere, m)
        /\ \A w \in DOMAIN MbWhere : Takes(pc, t, w, m[w], n[w])
    BY <1>1, <1>4, <1>7
  <2> HIDE DEF x, m
  <2> QED BY <1>2, <1>6, <1>1, <2>1, FlowGoes
<1>9. MbRing(mb') /\ MbItems(mb') = Append(MbItems(mb), v)
      /\ Flow(s', pc', MbWhere, MbThere(mb'))
  <2> DEFINE p == pc'
  <2>1. Flow(s, p, MbWhere, n)
    BY <1>8
  <2> HIDE DEF p, v
  <2>2. MbRing(mb') /\ MbItems(mb') = Append(MbItems(mb), v)
        /\ Flow(s', p, MbWhere, MbThere(mb'))
    BY <1>1, <1>2, <1>3, <1>6, <2>1, MbStoresOne
  <2> QED BY <2>2 DEF p
<1>10. MbChannel!Next
  <2> HIDE DEF v
  <2> QED BY <1>1, <1>3, <1>5, <1>9, MbSendsThen
<1>11. MbInv'
  BY <1>4, <1>9 DEF MbInv
<1> QED BY <1>10, <1>11 DEF MbGood

LEMMA MbIsrStep ==
    ASSUME MbInv, IsrMbSend
    PROVE  MbGood
<1>1. CASE MbFull /\ UNCHANGED mailboxVars
  <2>1. UNCHANGED <<s, pc, loc, mb>>
    BY <1>1 DEF mailboxVars, threadVars
  <2>2. MbInv'
    BY <2>1 DEF MbInv
  <2> QED BY <2>1, <2>2, MbStutters DEF MbGood
<1>2. ASSUME NEW v \in Message, ~MbFull, mb' = MbStored(v), s' = AfterMbPut(s),
             UNCHANGED <<pc, loc>>
      PROVE  MbGood
  <2>1. /\ MbRing(mb) /\ Flow(s, pc, MbWhere, MbThere(mb)) /\ Waits(s, pc, MbWhere)
        /\ mb.entry < mb_size /\ mb.entry \in 0 .. mb_size /\ mb.entry # mb_size
    BY <1>2, MbSize DEF MbInv, MbRing, MbFull, Flow
  <2> DEFINE n == [w \in DOMAIN MbWhere |-> IF w = "mb_recv_wait" THEN mb.entry
                                            ELSE mb_size - mb.entry - 1]
  <2>2. /\ Counts(MbWhere, n) /\ n["mb_recv_wait"] = mb.entry
        /\ n["mb_send_wait"] = mb_size - mb.entry - 1
    BY <2>1, MbPlace, MbSize DEF Counts
  <2>3. \A w \in DOMAIN MbWhere : n[w] <= MbThere(mb)[w]
    BY <2>1, <2>2, MbThereIs, MbPlace, MbSize
  <2> HIDE DEF n
  <2>4. Flow(s, pc, MbWhere, n)
    BY <2>1, <2>2, <2>3, FlowLess
  <2>5. MbRing(mb') /\ MbItems(mb') = Append(MbItems(mb), v)
        /\ Flow(s', pc, MbWhere, MbThere(mb'))
    BY <1>2, <2>1, <2>2, <2>4, MbStoresOne
  <2>6. MbInbox(pc', loc') = MbInbox(pc, loc)
    BY <1>2 DEF MbInbox
  <2>7. MbChannel!Next
    BY <2>1, <2>5, <2>6, MbSendsThen
  <2>8. MbInv'
    BY <1>2, <2>5 DEF MbInv, Locals
  <2> QED BY <2>7, <2>8 DEF MbGood
<1> QED BY <1>1, <1>2 DEF IsrMbSend

LEMMA MbGetStep ==
    ASSUME MbInv, NEW t \in Receiver, MbGet(t)
    PROVE  MbGood
<1> DEFINE v == mb.msg_pool[mb.out_offset]
<1>1. /\ Flow(s, pc, MbWhere, MbThere(mb)) /\ Locals(pc, loc, MbCarries) /\ EachThread(pc)
      /\ Waits(s, pc, MbWhere) /\ "mb_received" \notin DOMAIN MbWhere
      /\ MbRing(mb) /\ t \in Thread /\ Receiver \subseteq Thread
  BY MbPlace, BlockingAssumption DEF MbInv, Flow, Waits
<1>2. /\ t \notin s.asleep /\ (pc[t] = "mb_recv" \/ pc[t] = "mb_recv_wait")
      /\ mb.entry > 0 /\ loc' = [loc EXCEPT ![t].val = v]
      /\ mb' = MbWithout(mb) /\ s' = ResumeOne(s, suspend_sender_thread)
      /\ pc' = Placed(pc, t, "mb_received")
  BY <1>1, TestIs, MbFields DEF MbGet, Goto, Placed
<1>3. /\ MbRing(mb') /\ mb'.entry = mb.entry - 1 /\ MbItems(mb) # << >>
      /\ MbItems(mb') = Tail(MbItems(mb)) /\ v \in Message /\ Head(MbItems(mb)) = v
  <2> DEFINE z == mb'
  <2>1. z = MbWithout(mb)
    BY <1>2
  <2> HIDE DEF z
  <2>2. /\ MbRing(z) /\ z.entry = mb.entry - 1 /\ MbItems(mb) # << >>
        /\ MbItems(z) = Tail(MbItems(mb)) /\ v \in Message /\ Head(MbItems(mb)) = v
    BY <1>1, <1>2, <2>1, MbTakes
  <2> QED BY <2>2 DEF z
<1> HIDE DEF v
<1>4. /\ pc' = [u \in Thread |-> IF u = t THEN "mb_received" ELSE pc[u]]
      /\ loc' \in [Thread -> [time : Time, val : Message \cup {Nil}]]
      /\ loc'[t].val = v /\ \A u \in Thread \ {t} : loc'[u] = loc[u]
  BY <1>1, <1>2, <1>3 DEF Locals, EachThread, Placed
<1>5. Locals(pc', loc', MbCarries)
  BY <1>1, <1>3, <1>4 DEF Locals
<1>6. MbInbox(pc', loc') = [MbInbox(pc, loc) EXCEPT ![t] = v]
  BY <1>1, <1>4 DEF MbInbox
<1>7. pc[t] # "mb_received"
  BY <1>2
<1>8. MbChannel!Next
  BY <1>3, <1>6, <1>7, MbReceivesThen
<1> DEFINE n == [w \in DOMAIN MbWhere |-> IF w = "mb_recv_wait" THEN mb.entry - 1
                                          ELSE mb_size - mb.entry]
<1>9. /\ Counts(MbWhere, n) /\ n["mb_recv_wait"] = mb.entry - 1
      /\ n["mb_send_wait"] = mb_size - mb.entry
  BY <1>1, MbThereIs, MbPlace, MbSize DEF Counts
<1>10. \A w \in DOMAIN MbWhere : Takes(pc, t, w, MbThere(mb)[w], n[w])
  BY <1>1, <1>2, <1>9, MbThereIs, MbPlace, MbSize DEF Takes
<1> HIDE DEF n
<1>11. Flow(s, pc', MbWhere, n)
  <2> DEFINE x == "mb_received"
             m == MbThere(mb)
  <2>1. x \notin DOMAIN MbWhere /\ pc' = Placed(pc, t, x) /\ Flow(s, pc, MbWhere, m)
        /\ \A w \in DOMAIN MbWhere : Takes(pc, t, w, m[w], n[w])
    BY <1>1, <1>2, <1>10
  <2> HIDE DEF x, m
  <2> QED BY <1>2, <1>9, <1>1, <2>1, FlowGoes
<1>12. Flow(s', pc', MbWhere, MbThere(mb'))
  <2> DEFINE w == "mb_send_wait"
             m == MbThere(mb')
             r == s'
             p == pc'
  <2>1. /\ w \in DOMAIN MbWhere /\ r = ResumeOne(s, MbWhere[w]) /\ Flow(s, p, MbWhere, n)
    BY <1>2, <1>11, MbPlace
  <2>2. /\ Counts(MbWhere, m) /\ mb'.entry \in Int /\ mb.entry \in Int
        /\ m["mb_recv_wait"] = mb'.entry /\ m["mb_send_wait"] = mb_size - mb'.entry
    BY <1>1, <1>3, MbThereIs
  <2>3. m[w] <= n[w] + 1 /\ \A v1 \in DOMAIN MbWhere \ {w} : m[v1] <= n[v1]
    BY <1>3, <1>9, <2>2, MbPlace, MbSize
  <2> HIDE DEF w, m, r, p
  <2>4. Flow(r, p, MbWhere, m)
    BY <2>1, <2>2, <2>3, FlowResumes
  <2> QED BY <2>4 DEF m, r, p
<1>13. MbInv'
  BY <1>3, <1>5, <1>12 DEF MbInv
<1> QED BY <1>8, <1>13 DEF MbGood

LEMMA MbReceivedStep ==
    ASSUME MbInv, NEW t \in Receiver, MbReceived(t)
    PROVE  MbGood
<1>1. /\ Flow(s, pc, MbWhere, MbThere(mb)) /\ Locals(pc, loc, MbCarries) /\ EachThread(pc)
      /\ Waits(s, pc, MbWhere) /\ "user" \notin DOMAIN MbWhere /\ "user" \notin MbCarries
      /\ Counts(MbWhere, MbThere(mb)) /\ t \in Thread /\ Receiver \subseteq Thread
  BY MbPlace, BlockingAssumption DEF MbInv, Flow, Waits, MbCarries
<1>2. /\ t \notin s.asleep /\ pc[t] = "mb_received" /\ Return(t) /\ s' = s /\ mb' = mb
  BY DEF MbReceived, Runs
<1>3. /\ Locals(pc', loc', MbCarries) /\ pc' = Placed(pc, t, "user")
      /\ \A u \in Thread \ {t} : loc'[u] = loc[u]
  BY <1>1, <1>2, ReturnIs
<1>4. \A w \in DOMAIN MbWhere : Takes(pc, t, w, MbThere(mb)[w], MbThere(mb)[w])
  BY <1>1, <1>2, MbPlace DEF Takes, Counts
<1>5. Flow(s', pc', MbWhere, MbThere(mb))
  <2> DEFINE x == "user"
             n == MbThere(mb)
  <2>1. x \notin DOMAIN MbWhere /\ pc' = Placed(pc, t, x) /\ Flow(s, pc, MbWhere, n)
        /\ \A w \in DOMAIN MbWhere : Takes(pc, t, w, n[w], n[w])
    BY <1>1, <1>3, <1>4
  <2>2. Counts(MbWhere, n)
    BY <1>1
  <2> HIDE DEF x, n
  <2>3. Flow(s, pc', MbWhere, n)
    BY <1>1, <1>2, <2>1, <2>2, FlowGoes
  <2> QED BY <1>2, <2>3 DEF n
<1>6. pc' = [u \in Thread |-> IF u = t THEN "user" ELSE pc[u]]
  BY <1>1, <1>3 DEF EachThread, Placed
<1>7. MbInbox(pc', loc') = [MbInbox(pc, loc) EXCEPT ![t] = Nil]
  BY <1>1, <1>3, <1>6 DEF MbInbox
<1>8. MbInbox(pc, loc)[t] # Nil
  BY <1>1, <1>2, BlockingAssumption DEF MbInbox, Locals, MbCarries
<1>9. MbChannel!Next
  BY <1>2, <1>7, <1>8, MbConsumesThen
<1>10. MbInv'
  BY <1>2, <1>3, <1>5 DEF MbInv
<1> QED BY <1>9, <1>10 DEF MbGood

LEMMA MbResetStep ==
    ASSUME MbInv, NEW t \in Thread, MbReset(t)
    PROVE  MbGood
<1> DEFINE w == "mb_recv_wait"
           x == "mb_send_wait"
           q == rt_ipc_list_resume_all(s, suspend_thread)
           z == [entry |-> 0, in_offset |-> 0, out_offset |-> 0, msg_pool |-> mb.msg_pool]
<1>1. /\ Flow(s, pc, MbWhere, MbThere(mb)) /\ Locals(pc, loc, MbCarries) /\ MbRing(mb)
      /\ q = rt_ipc_list_resume_all(s, MbWhere[w])
      /\ s' = rt_ipc_list_resume_all(q, MbWhere[x]) /\ mb' = z /\ pc' = pc /\ loc' = loc
      /\ w \in DOMAIN MbWhere /\ x \in DOMAIN MbWhere
  BY MbPlace, MbFields DEF MbInv, MbReset
<1>2. MbRing(z) /\ z.entry = 0
  <2>1. mb.msg_pool \in [MbSlot -> Message \cup {Nil}] /\ 0 \in MbSlot /\ 0 \in 0 .. mb_size
    BY <1>1, MbSize DEF MbRing, MbSlot
  <2>2. (0 + 0) % mb_size = 0
    BY <2>1, MbPlaces
  <2> QED BY <2>1, <2>2 DEF MbRing
<1>3. /\ Counts(MbWhere, MbThere(mb)) /\ Counts(MbWhere, MbThere(z)) /\ mb.entry \in Int
      /\ MbThere(mb)["mb_recv_wait"] = mb.entry
      /\ MbThere(mb)["mb_send_wait"] = mb_size - mb.entry
      /\ MbThere(z)["mb_recv_wait"] = 0 /\ MbThere(z)["mb_send_wait"] = mb_size - 0
  <2> HIDE DEF z
  <2> QED BY <1>1, <1>2, MbThereIs
<1> HIDE DEF q, z
<1>4. mb.entry >= 0
  BY <1>1, MbSize DEF MbRing
<1> DEFINE k == [u \in DOMAIN MbWhere |-> IF u = w THEN 0 ELSE mb_size - mb.entry]
<1>5. Counts(MbWhere, k) /\ k[w] = 0 /\ k[x] = mb_size - mb.entry
  BY <1>3, MbPlace, MbSize DEF Counts
<1>6. \A u \in DOMAIN MbWhere \ {w} : k[u] <= MbThere(mb)[u]
  BY <1>3, <1>5, MbPlace, MbSize
<1>7. \A u \in DOMAIN MbWhere \ {x} : MbThere(z)[u] <= k[u]
  BY <1>3, <1>5, MbPlace, MbSize
<1> HIDE DEF k, w, x
<1>8. Flow(q, pc, MbWhere, k)
  BY <1>1, <1>5, <1>6, FlowEmpties
<1>9. Flow(s', pc', MbWhere, MbThere(mb'))
  <2> DEFINE r == s'
             m == MbThere(z)
  <2>1. r = rt_ipc_list_resume_all(q, MbWhere[x]) /\ Counts(MbWhere, m)
        /\ \A u \in DOMAIN MbWhere \ {x} : m[u] <= k[u]
    BY <1>1, <1>3, <1>7
  <2> HIDE DEF r, m
  <2>2. Flow(r, pc, MbWhere, m)
    BY <1>1, <1>8, <2>1, FlowEmpties
  <2> QED BY <1>1, <2>2 DEF r, m
<1>10. MbInv'
  BY <1>1, <1>2, <1>9 DEF MbInv
<1>11. MbChannel!Next
  BY <1>1, <1>2, MbClearsThen
<1> QED BY <1>10, <1>11 DEF MbGood

LEMMA MbNextStep ==
    ASSUME MbInv, [MailboxNext]_mailboxVars
    PROVE  MbGood
<1>0. /\ Sender \cup Receiver \cup Resetter \subseteq Thread
      /\ Waits(s, pc, MbWhere) /\ Locals(pc, loc, MbCarries) /\ MbRing(mb)
      /\ MbThere(mb)["mb_recv_wait"] = mb.entry
      /\ MbThere(mb)["mb_send_wait"] = mb_size - mb.entry
      /\ "mb_recv_wait" \in DOMAIN MbWhere /\ "mb_send_wait" \in DOMAIN MbWhere
      /\ MbWhere["mb_recv_wait"] = suspend_thread
      /\ MbWhere["mb_send_wait"] = suspend_sender_thread
  BY BlockingAssumption, MbPlace, MbThereIs DEF MbInv, Flow
<1>1. CASE UNCHANGED mailboxVars
  <2>1. UNCHANGED <<s, pc, loc, mb>>
    BY <1>1 DEF mailboxVars, threadVars
  <2>2. MbInv'
    BY <2>1 DEF MbInv
  <2> QED BY <2>1, <2>2, MbStutters DEF MbGood
<1>2. ASSUME NEW t \in Sender, MbSend(t) PROVE MbGood
  <2>1. PICK v \in Message, time \in Time : Begin(t, "mb_send", time, v) /\ mb' = mb
    BY <1>2 DEF MbSend
  <2> QED BY <1>0, <2>1, MbBegins
<1>3. ASSUME NEW t \in Sender, MbPut(t) PROVE MbGood
  BY <1>3, MbPutStep
<1>4. ASSUME NEW t \in Sender, MbSendFull(t) PROVE MbGood
  <2>1. /\ t \in Thread /\ t \notin s.asleep /\ (pc[t] = "mb_send" \/ pc[t] = "mb_send_wait")
        /\ mb.entry = mb_size /\ Return(t) /\ s' = s /\ mb' = mb
    BY <1>0, <1>4, TestIs DEF MbSendFull, MbFull
  <2>2. \A w \in DOMAIN MbWhere : pc[t] = w => MbThere(mb)[w] <= 0
    BY <1>0, <2>1, MbPlace, MbSize
  <2> QED BY <2>1, <2>2, MbReturns
<1>5. ASSUME NEW t \in Sender, MbSendWait(t) PROVE MbGood
  <2>1. /\ t \in Thread /\ t \notin s.asleep /\ (pc[t] = "mb_send" \/ pc[t] = "mb_send_wait")
        /\ mb.entry = mb_size /\ mb' = mb /\ TimeLeft(t, "mb_send") \subseteq Time
    BY <1>0, <1>5, TestIs DEF MbSendWait, MbFull
  <2>2. PICK time \in Time : SuspendSelf(t, suspend_sender_thread, time, "mb_send_wait")
    BY <1>5, <2>1 DEF MbSendWait
  <2>3. MbThere(mb)["mb_send_wait"] <= 0
    BY <1>0, <2>1, MbSize
  <2> QED BY <1>0, <2>1, <2>2, <2>3, MbWaits
<1>6. ASSUME NEW t \in Sender, MbSendFails(t) PROVE MbGood
  BY <1>0, <1>6, MbFails DEF MbSendFails
<1>7. ASSUME NEW t \in Receiver, MbRecv(t) PROVE MbGood
  <2>1. PICK time \in Time : Begin(t, "mb_recv", time, Nil) /\ mb' = mb
    BY <1>7 DEF MbRecv
  <2> QED BY <1>0, <2>1, MbBegins
<1>8. ASSUME NEW t \in Receiver, MbGet(t) PROVE MbGood
  BY <1>8, MbGetStep
<1>9. ASSUME NEW t \in Receiver, MbReceived(t) PROVE MbGood
  BY <1>9, MbReceivedStep
<1>10. ASSUME NEW t \in Receiver, MbRecvEmpty(t) PROVE MbGood
  <2>1. /\ t \in Thread /\ t \notin s.asleep /\ (pc[t] = "mb_recv" \/ pc[t] = "mb_recv_wait")
        /\ mb.entry = 0 /\ Return(t) /\ s' = s /\ mb' = mb
    BY <1>0, <1>10, TestIs DEF MbRecvEmpty
  <2>2. \A w \in DOMAIN MbWhere : pc[t] = w => MbThere(mb)[w] <= 0
    BY <1>0, <2>1, MbPlace
  <2> QED BY <2>1, <2>2, MbReturns
<1>11. ASSUME NEW t \in Receiver, MbRecvWait(t) PROVE MbGood
  <2>1. /\ t \in Thread /\ t \notin s.asleep /\ (pc[t] = "mb_recv" \/ pc[t] = "mb_recv_wait")
        /\ mb.entry = 0 /\ mb' = mb /\ TimeLeft(t, "mb_recv") \subseteq Time
    BY <1>0, <1>11, TestIs DEF MbRecvWait
  <2>2. PICK time \in Time : SuspendSelf(t, suspend_thread, time, "mb_recv_wait")
    BY <1>11, <2>1 DEF MbRecvWait
  <2>3. MbThere(mb)["mb_recv_wait"] <= 0
    BY <1>0, <2>1
  <2> QED BY <1>0, <2>1, <2>2, <2>3, MbWaits
<1>12. ASSUME NEW t \in Receiver, MbRecvFails(t) PROVE MbGood
  BY <1>0, <1>12, MbFails DEF MbRecvFails
<1>13. ASSUME NEW t \in Resetter, MbReset(t) PROVE MbGood
  BY <1>0, <1>13, MbResetStep
<1>14. CASE IsrMbSend
  BY <1>14, MbIsrStep
<1>15. ASSUME NEW t \in Thread, TimerExpires(t), UNCHANGED mb PROVE MbGood
  BY <1>15, MbExpires
<1> QED BY <1>1, <1>2, <1>3, <1>4, <1>5, <1>6, <1>7, <1>8, <1>9, <1>10, <1>11, <1>12, <1>13,
           <1>14, <1>15 DEF MailboxNext

\* Nobody sleeps at first.
LEMMA MbFirstRing ==
    ASSUME MbInit
    PROVE  MbRing(mb) /\ mb.entry = 0
<1>1. 0 \in MbSlot /\ 0 \in 0 .. mb_size
  BY MbSize DEF MbSlot
<1>2. (0 + 0) % mb_size = 0
  BY <1>1, MbPlaces
<1> QED BY <1>1, <1>2 DEF MbRing, MbInit, MbSlot

LEMMA MbFirst ==
    ASSUME BlockingInit, MbInit
    PROVE  MbInv /\ MbChannel!Init
<1>1. MbRing(mb) /\ mb.entry = 0
  BY MbFirstRing
<1>2. Counts(MbWhere, MbThere(mb))
  BY <1>1, MbThereIs
<1>3. "user" \notin MbCarries
  BY DEF MbCarries
<1>4. MbInv
  <2> DEFINE n == MbThere(mb)
  <2>1. Counts(MbWhere, n)
    BY <1>2
  <2> HIDE DEF n
  <2>2. Flow(s, pc, MbWhere, n) /\ Locals(pc, loc, MbCarries)
    BY <1>3, <2>1, MbPlace, FirstFlow
  <2> QED BY <1>1, <2>2 DEF MbInv, n
<1>5. MbPending = << >>
  <2>1. MbItems(mb) \in Seq(Message) /\ Len(MbItems(mb)) = 0
    BY <1>1, MbItemsAre
  <2>2. MbItems(mb) = MbPending
    BY DEF MbItems, MbPending
  <2> QED BY <2>1, <2>2, EmptySeq
<1>6. \A t \in Receiver : pc[t] # "mb_received"
  BY BlockingAssumption DEF BlockingInit
<1>7. MbChannel!Init
  BY <1>5, <1>6 DEF MbChannel!Init
<1> QED BY <1>4, <1>7

\* A mailbox is a bounded first-in first-out channel, for any number of
\* threads that send, receive and reset, for any size, and beside interrupts
\* that send and timers that expire.
THEOREM MailboxIsAChannel == MailboxSpec => MbImplementsChannel
<1>1. BlockingInit /\ MbInit => MbInv /\ MbChannel!Init
  BY MbFirst
<1>2. MbInv /\ [MailboxNext]_mailboxVars => MbInv' /\ [MbChannel!Next]_MbChannel!vars
  BY MbNextStep DEF MbGood
<1> QED BY <1>1, <1>2, PTL DEF MailboxSpec, MbImplementsChannel, MbChannel!Spec

-----------------------------------------------------------------------------
(* The message queue: where its items are, and what is in them.            *)

MqState ==
    [free : Seq(MqItem), queue : Seq(MqItem), entry : Nat, data : [MqItem -> Message \cup {Nil}]]

\* MqItemsConserved, with the types, of a queue m and the hands h of the callers
MqPool(m, h) ==
    /\ m \in MqState /\ h \in [Thread -> MqItem \cup {Nil}]
    /\ m.entry = Len(m.queue) /\ IsInjective(m.free) /\ IsInjective(m.queue)
    /\ ToSet(m.free) \cap ToSet(m.queue) = {}
    /\ \A t \in Thread : h[t] # Nil =>
          /\ h[t] \notin ToSet(m.free) /\ h[t] \notin ToSet(m.queue)
          /\ \A u \in Thread \ {t} : h[u] # h[t]
    /\ \A i \in MqItem : i \in ToSet(m.free) \/ i \in ToSet(m.queue) \/ \E t \in Thread : h[t] = i

\* the places between two sections of a call
MqHolds == {"mq_link_head", "mq_link_tail", "mq_copy", "mq_free"}

\* what is in the item i in the hand, and in the local variable v, of a call at x
MqCall(m, i, x, v) ==
    /\ i # Nil <=> x \in MqHolds
    /\ x \in {"mq_send", "mq_send_wait"} => v \notin Urgent
    /\ x = "mq_urgent" => v \in Urgent
    /\ x = "mq_link_head" => m.data[i] \in Urgent
    /\ x = "mq_link_tail" => m.data[i] \in Message \ Urgent
    /\ x = "mq_copy" => m.data[i] \in Message

MqFilled(m, h, p, lo) ==
    /\ \A i \in ToSet(m.queue) : m.data[i] \in Message
    /\ \A t \in Thread : MqCall(m, h[t], p[t], lo[t].val)

\* the places of calls that carry a message
MqCarries == {"mq_send", "mq_send_wait", "mq_urgent", "mq_free"}

MqWhere ==
    [w \in {"mq_recv_wait", "mq_send_wait"} |->
        IF w = "mq_recv_wait" THEN suspend_thread ELSE suspend_sender_thread]

\* e messages for those who receive, and f items for those who send
MqCount(e, f) == [w \in DOMAIN MqWhere |-> IF w = "mq_recv_wait" THEN e ELSE f]

MqThere(m) == MqCount(m.entry, Len(m.free))

MqInv ==
    /\ Flow(s, pc, MqWhere, MqThere(mq)) /\ Locals(pc, loc, MqCarries)
    /\ MqPool(mq, hand) /\ MqFilled(mq, hand, pc, loc)

\* what the sections do to the queue
MqTook(m, v) ==
    [free |-> Tail(m.free), queue |-> m.queue, entry |-> m.entry,
     data |-> [m.data EXCEPT ![Head(m.free)] = v]]

MqPut(m, q) == [free |-> m.free, queue |-> q, entry |-> m.entry + 1, data |-> m.data]

MqGot(m) ==
    [free |-> m.free, queue |-> Tail(m.queue), entry |-> m.entry - 1, data |-> m.data]

MqGave(m, i) ==
    [free |-> <<i>> \o m.free, queue |-> m.queue, entry |-> m.entry, data |-> m.data]

MqEmptied(m) ==
    [free |-> Reverse(m.queue) \o m.free, queue |-> << >>, entry |-> 0, data |-> m.data]

\* h with i in the hand of t
Handed(h, t, i) == [h EXCEPT ![t] = i]

LEMMA MqParts ==
    ASSUME NEW m, NEW h, MqPool(m, h)
    PROVE  /\ m = [free |-> m.free, queue |-> m.queue, entry |-> m.entry, data |-> m.data]
           /\ m.free \in Seq(MqItem) /\ m.queue \in Seq(MqItem) /\ m.entry \in Nat
           /\ m.data \in [MqItem -> Message \cup {Nil}] /\ h \in [Thread -> MqItem \cup {Nil}]
           /\ m.entry = Len(m.queue) /\ IsInjective(m.free) /\ IsInjective(m.queue)
           /\ ToSet(m.free) \cap ToSet(m.queue) = {} /\ Nil \notin MqItem
           /\ ToSet(m.free) \subseteq MqItem /\ ToSet(m.queue) \subseteq MqItem
<1>1. m.free \in Seq(MqItem) /\ m.queue \in Seq(MqItem)
  BY DEF MqPool, MqState
<1>2. ToSet(m.free) \subseteq MqItem /\ ToSet(m.queue) \subseteq MqItem
  BY <1>1 DEF ToSet
<1> QED BY <1>1, <1>2, MessageQueueAssumption DEF MqPool, MqState

\* An item is taken from the free list.
LEMMA MqTakesItem ==
    ASSUME NEW m, NEW h, MqPool(m, h), NEW v \in Message, NEW t \in Thread, h[t] = Nil,
           m.free # << >>
    PROVE  /\ MqPool(MqTook(m, v), Handed(h, t, Head(m.free)))
           /\ Head(m.free) \in MqItem /\ Head(m.free) \notin ToSet(m.queue)
           /\ \A u \in Thread : h[u] # Head(m.free)
<1> DEFINE i == Head(m.free)
           z == MqTook(m, v)
           g == Handed(h, t, i)
<1>1. /\ Tail(m.free) \in Seq(MqItem) /\ i \in MqItem /\ i \in ToSet(m.free)
      /\ IsInjective(Tail(m.free)) /\ ToSet(Tail(m.free)) = ToSet(m.free) \ {i}
  BY MqParts, TailElements
<1>2. i \notin ToSet(m.queue) /\ \A u \in Thread : h[u] # i
  BY <1>1, MqParts DEF MqPool
<1>3. g \in [Thread -> MqItem \cup {Nil}] /\ g[t] = i /\ \A u \in Thread \ {t} : g[u] = h[u]
  BY <1>1, MqParts DEF Handed
<1>4. z.free = Tail(m.free) /\ z.queue = m.queue /\ z.entry = m.entry
      /\ z.data = [m.data EXCEPT ![i] = v]
  BY DEF MqTook
<1>5. z \in MqState
  <2>1. z.data \in [MqItem -> Message \cup {Nil}]
    BY <1>4, MqParts
  <2> QED BY <1>1, <1>4, <2>1, MqParts DEF MqState, MqTook
<1> HIDE DEF i, z, g
<1>6. ASSUME NEW u \in Thread, g[u] # Nil
      PROVE  /\ g[u] \notin ToSet(z.free) /\ g[u] \notin ToSet(z.queue)
             /\ \A w \in Thread \ {u} : g[w] # g[u]
  BY <1>1, <1>2, <1>3, <1>4, <1>6 DEF MqPool
<1>7. ASSUME NEW x \in MqItem
      PROVE  x \in ToSet(z.free) \/ x \in ToSet(z.queue) \/ \E u \in Thread : g[u] = x
  <2>1. x \in ToSet(m.free) \/ x \in ToSet(m.queue) \/ \E u \in Thread : h[u] = x
    BY DEF MqPool
  <2>2. \A u \in Thread : h[u] = x => g[u] = x
    BY <1>3, MqParts
  <2> QED BY <1>1, <1>3, <1>4, <2>1, <2>2
<1>8. MqPool(z, g)
  BY <1>1, <1>3, <1>4, <1>5, <1>6, <1>7, MqParts DEF MqPool
<1> QED BY <1>1, <1>2, <1>8 DEF i, z, g

\* An item in the hand of t is linked into the queue.
LEMMA MqPutsItem ==
    ASSUME NEW m, NEW h, MqPool(m, h), NEW t \in Thread, h[t] # Nil, NEW q,
           q = Append(m.queue, h[t]) \/ q = <<h[t]>> \o m.queue
    PROVE  MqPool(MqPut(m, q), Handed(h, t, Nil))
<1> DEFINE i == h[t]
           z == MqPut(m, q)
           g == Handed(h, t, Nil)
<1>1. i \in MqItem /\ i \notin ToSet(m.free) /\ i \notin ToSet(m.queue)
      /\ \A u \in Thread \ {t} : h[u] # i
  BY MqParts DEF MqPool
<1>2. q \in Seq(MqItem) /\ IsInjective(q) /\ ToSet(q) = ToSet(m.queue) \cup {i}
      /\ Len(q) = Len(m.queue) + 1
  <2> HIDE DEF i
  <2>0. m.queue \in Seq(MqItem) /\ IsInjective(m.queue)
    BY MqParts
  <2>1. CASE q = Append(m.queue, i)
    BY <1>1, <2>0, <2>1, AppendElements
  <2>2. CASE q = <<i>> \o m.queue
    BY <1>1, <2>0, <2>2, PrependElements
  <2> QED BY <2>1, <2>2 DEF i
<1>3. g \in [Thread -> MqItem \cup {Nil}] /\ g[t] = Nil /\ \A u \in Thread \ {t} : g[u] = h[u]
  BY <1>1, MqParts DEF Handed
<1>4. z.free = m.free /\ z.queue = q /\ z.entry = m.entry + 1 /\ z.data = m.data
  BY DEF MqPut
<1>5. z \in MqState
  BY <1>2, MqParts DEF MqState, MqPut
<1> HIDE DEF i, z, g
<1>6. ASSUME NEW u \in Thread, g[u] # Nil
      PROVE  /\ g[u] \notin ToSet(z.free) /\ g[u] \notin ToSet(z.queue)
             /\ \A w \in Thread \ {u} : g[w] # g[u]
  BY <1>1, <1>2, <1>3, <1>4, <1>6 DEF MqPool
<1>7. ASSUME NEW x \in MqItem
      PROVE  x \in ToSet(z.free) \/ x \in ToSet(z.queue) \/ \E u \in Thread : g[u] = x
  <2>1. x \in ToSet(m.free) \/ x \in ToSet(m.queue) \/ \E u \in Thread : h[u] = x
    BY DEF MqPool
  <2>2. \A u \in Thread : h[u] = x => g[u] = x \/ x = i
    BY <1>3 DEF i
  <2> QED BY <1>2, <1>4, <2>1, <2>2
<1>8. MqPool(z, g)
  BY <1>1, <1>2, <1>3, <1>4, <1>5, <1>6, <1>7, MqParts DEF MqPool
<1> QED BY <1>8 DEF z, g

\* The head of the queue is unlinked.
LEMMA MqGetsItem ==
    ASSUME NEW m, NEW h, MqPool(m, h), NEW t \in Thread, h[t] = Nil, m.entry > 0
    PROVE  /\ MqPool(MqGot(m), Handed(h, t, Head(m.queue)))
           /\ m.queue # << >> /\ Head(m.queue) \in ToSet(m.queue) /\ Head(m.queue) \in MqItem
           /\ \A u \in Thread : h[u] # Head(m.queue)
<1> DEFINE i == Head(m.queue)
           z == MqGot(m)
           g == Handed(h, t, i)
<1>0. m.queue # << >>
  BY MqParts
<1>1. /\ Tail(m.queue) \in Seq(MqItem) /\ i \in MqItem /\ i \in ToSet(m.queue)
      /\ IsInjective(Tail(m.queue)) /\ ToSet(Tail(m.queue)) = ToSet(m.queue) \ {i}
      /\ Len(Tail(m.queue)) = Len(m.queue) - 1
  BY <1>0, MqParts, TailElements
<1>2. i \notin ToSet(m.free) /\ \A u \in Thread : h[u] # i
  BY <1>1, MqParts DEF MqPool
<1>3. g \in [Thread -> MqItem \cup {Nil}] /\ g[t] = i /\ \A u \in Thread \ {t} : g[u] = h[u]
  BY <1>1, MqParts DEF Handed
<1>4. z.free = m.free /\ z.queue = Tail(m.queue) /\ z.entry = m.entry - 1 /\ z.data = m.data
  BY DEF MqGot
<1>5. z \in MqState
  <2>1. m.entry - 1 \in Nat
    BY MqParts
  <2> QED BY <1>1, <2>1, MqParts DEF MqState, MqGot
<1> HIDE DEF i, z, g
<1>6. ASSUME NEW u \in Thread, g[u] # Nil
      PROVE  /\ g[u] \notin ToSet(z.free) /\ g[u] \notin ToSet(z.queue)
             /\ \A w \in Thread \ {u} : g[w] # g[u]
  BY <1>1, <1>2, <1>3, <1>4, <1>6 DEF MqPool
<1>7. ASSUME NEW x \in MqItem
      PROVE  x \in ToSet(z.free) \/ x \in ToSet(z.queue) \/ \E u \in Thread : g[u] = x
  <2>1. x \in ToSet(m.free) \/ x \in ToSet(m.queue) \/ \E u \in Thread : h[u] = x
    BY DEF MqPool
  <2>2. \A u \in Thread : h[u] = x => g[u] = x
    BY <1>3, MqParts
  <2> QED BY <1>1, <1>3, <1>4, <2>1, <2>2
<1>8. MqPool(z, g)
  BY <1>1, <1>3, <1>4, <1>5, <1>6, <1>7, MqParts DEF MqPool
<1> QED BY <1>0, <1>1, <1>2, <1>8 DEF i, z, g

\* An item in the hand of t goes back to the free list.
LEMMA MqGivesItem ==
    ASSUME NEW m, NEW h, MqPool(m, h), NEW t \in Thread, h[t] # Nil
    PROVE  /\ MqPool(MqGave(m, h[t]), Handed(h, t, Nil))
           /\ Len(MqGave(m, h[t]).free) = Len(m.free) + 1
<1> DEFINE i == h[t]
           z == MqGave(m, i)
           g == Handed(h, t, Nil)
           f == <<i>> \o m.free
<1>1. i \in MqItem /\ i \notin ToSet(m.free) /\ i \notin ToSet(m.queue)
      /\ \A u \in Thread \ {t} : h[u] # i
  BY MqParts DEF MqPool
<1>2. f \in Seq(MqItem) /\ IsInjective(f) /\ ToSet(f) = ToSet(m.free) \cup {i}
      /\ Len(f) = Len(m.free) + 1
  BY <1>1, MqParts, PrependElements
<1>3. g \in [Thread -> MqItem \cup {Nil}] /\ g[t] = Nil /\ \A u \in Thread \ {t} : g[u] = h[u]
  BY <1>1, MqParts DEF Handed
<1>4. z.free = f /\ z.queue = m.queue /\ z.entry = m.entry /\ z.data = m.data
  BY DEF MqGave
<1>5. z \in MqState
  <2>1. z = [free |-> f, queue |-> m.queue, entry |-> m.entry, data |-> m.data]
    BY DEF MqGave
  <2> HIDE DEF f, z
  <2> QED BY <1>2, <2>1, MqParts DEF MqState
<1> HIDE DEF i, z, g, f
<1>6. ASSUME NEW u \in Thread, g[u] # Nil
      PROVE  /\ g[u] \notin ToSet(z.free) /\ g[u] \notin ToSet(z.queue)
             /\ \A w \in Thread \ {u} : g[w] # g[u]
  BY <1>1, <1>2, <1>3, <1>4, <1>6 DEF MqPool
<1>7. ASSUME NEW x \in MqItem
      PROVE  x \in ToSet(z.free) \/ x \in ToSet(z.queue) \/ \E u \in Thread : g[u] = x
  <2>1. x \in ToSet(m.free) \/ x \in ToSet(m.queue) \/ \E u \in Thread : h[u] = x
    BY DEF MqPool
  <2>2. \A u \in Thread : h[u] = x => g[u] = x \/ x = i
    BY <1>3 DEF i
  <2> QED BY <1>2, <1>4, <2>1, <2>2
<1>8. MqPool(z, g)
  BY <1>1, <1>2, <1>3, <1>4, <1>5, <1>6, <1>7, MqParts DEF MqPool
<1> QED BY <1>2, <1>4, <1>8 DEF i, z, g

\* The whole queue goes back to the free list.
LEMMA MqFreesAll ==
    ASSUME NEW m, NEW h, MqPool(m, h)
    PROVE  MqPool(MqEmptied(m), h)
<1> DEFINE z == MqEmptied(m)
           r == Reverse(m.queue)
           f == r \o m.free
<1>1. r \in Seq(MqItem) /\ IsInjective(r) /\ ToSet(r) = ToSet(m.queue)
  BY MqParts, ReverseHolds
<1>2. f \in Seq(MqItem) /\ ToSet(f) = ToSet(m.queue) \cup ToSet(m.free) /\ IsInjective(f)
  <2> HIDE DEF r
  <2>1. ToSet(r) \cap ToSet(m.free) = {} /\ m.free \in Seq(MqItem) /\ IsInjective(m.free)
    BY <1>1, MqParts
  <2> QED BY <1>1, <2>1, ConcatHolds
<1>3. z = [free |-> f, queue |-> << >>, entry |-> 0, data |-> m.data]
  BY DEF MqEmptied
<1> HIDE DEF f, z, r
<1>4. << >> \in Seq(MqItem) /\ Len(<< >>) = 0 /\ 0 \in Nat
  OBVIOUS
<1>5. ToSet(<< >>) = {} /\ IsInjective(<< >>)
  BY DEF ToSet, IsInjective
<1>6. z \in MqState /\ z.free = f /\ z.queue = << >> /\ z.entry = 0
  BY <1>2, <1>3, <1>4, MqParts DEF MqState
<1> QED BY <1>2, <1>4, <1>5, <1>6, MqParts DEF MqPool, z

-----------------------------------------------------------------------------
(* The message queue: the channel it implements.                           *)

\* the messages of a queue m, and what its receivers have received
MqMessages(m) == [i \in DOMAIN m.queue |-> m.data[m.queue[i]]]

MqInboxOf(m, i, x, v) ==
    CASE x = "mq_copy" -> m.data[i] [] x = "mq_free" -> v [] OTHER -> Nil

MqReceived(m, h, p, lo) == [t \in Receiver |-> MqInboxOf(m, h[t], p[t], lo[t].val)]

LEMMA MqChannelIs ==
    /\ MqMessages(mq) = [i \in DOMAIN mq.queue |-> mq.data[mq.queue[i]]]
    /\ MqMessages(mq)' = [i \in DOMAIN mq.queue |-> mq.data[mq.queue[i]]]'
    /\ MqReceived(mq, hand, pc, loc) = [t \in Receiver |-> MqInbox(t)]
    /\ MqReceived(mq, hand, pc, loc)' = [t \in Receiver |-> MqInbox(t)]'
BY DEF MqMessages, MqReceived, MqInbox, MqInboxOf

LEMMA MqMessagesAre ==
    ASSUME NEW m, NEW h, NEW p, NEW lo, MqPool(m, h), MqFilled(m, h, p, lo)
    PROVE  /\ MqMessages(m) \in Seq(Message) /\ Len(MqMessages(m)) = Len(m.queue)
           /\ \A i \in 1 .. Len(m.queue) : MqMessages(m)[i] = m.data[m.queue[i]]
<1>1. m.queue \in Seq(MqItem) /\ Len(m.queue) \in Nat /\ DOMAIN m.queue = 1 .. Len(m.queue)
  BY MqParts
<1>2. \A i \in 1 .. Len(m.queue) : m.data[m.queue[i]] \in Message
  BY <1>1 DEF MqFilled, ToSet
<1>3. MqMessages(m) = [i \in 1 .. Len(m.queue) |-> m.data[m.queue[i]]]
  BY <1>1 DEF MqMessages
<1>4. MqMessages(m) \in [1 .. Len(m.queue) -> Message]
  BY <1>2, <1>3
<1>5. MqMessages(m) \in Seq(Message) /\ Len(MqMessages(m)) = Len(m.queue)
  BY <1>1, <1>4
<1> QED BY <1>3, <1>5

\* The same items with the same messages are the same messages.
LEMMA MqSameMessages ==
    ASSUME NEW m, NEW z, z.queue = m.queue, \A i \in ToSet(m.queue) : z.data[i] = m.data[i]
    PROVE  MqMessages(z) = MqMessages(m)
<1>1. \A i \in DOMAIN m.queue : z.data[m.queue[i]] = m.data[m.queue[i]]
  BY DEF ToSet
<1> QED BY <1>1 DEF MqMessages

LEMMA MqAppended ==
    ASSUME NEW m, m.queue \in Seq(MqItem), NEW i \in MqItem, NEW z, z.data = m.data,
           z.queue = Append(m.queue, i)
    PROVE  MqMessages(z) = Append(MqMessages(m), m.data[i])
<1> DEFINE n == Len(m.queue)
           A == MqMessages(m)
           B == Append(A, m.data[i])
           C == MqMessages(z)
<1>1. /\ n \in Nat /\ DOMAIN m.queue = 1 .. n /\ DOMAIN z.queue = 1 .. n + 1
      /\ z.queue[n + 1] = i /\ \A k \in 1 .. n : z.queue[k] = m.queue[k]
  OBVIOUS
<1> HIDE DEF n
<1>2. A = [k \in 1 .. n |-> m.data[m.queue[k]]] /\ C = [k \in 1 .. n + 1 |-> m.data[z.queue[k]]]
  BY <1>1 DEF MqMessages
<1> HIDE DEF A, C
<1>3. /\ Len(A) = n /\ B = [k \in 1 .. n + 1 |-> IF k <= n THEN A[k] ELSE m.data[i]]
  <2> DEFINE S == {m.data[x] : x \in MqItem}
  <2>1. A \in Seq(S) /\ Len(A) = n /\ m.data[i] \in S
    <3>1. \A k \in 1 .. n : m.queue[k] \in MqItem
      BY <1>1
    <3>2. A \in [1 .. n -> S] /\ m.data[i] \in S
      BY <1>2, <3>1
    <3> HIDE DEF S
    <3> QED BY <1>1, <3>2
  <2> HIDE DEF S
  <2> QED BY <1>1, <2>1
<1>4. \A k \in 1 .. n + 1 : C[k] = IF k <= n THEN A[k] ELSE m.data[i]
  BY <1>1, <1>2
<1> HIDE DEF B
<1> QED BY <1>2, <1>3, <1>4 DEF A, B, C

LEMMA MqPrepended ==
    ASSUME NEW m, m.queue \in Seq(MqItem), NEW i \in MqItem, NEW z, z.data = m.data,
           z.queue = <<i>> \o m.queue
    PROVE  MqMessages(z) = <<m.data[i]>> \o MqMessages(m)
<1> DEFINE n == Len(m.queue)
           A == MqMessages(m)
           B == <<m.data[i]>> \o A
           C == MqMessages(z)
<1>1. /\ n \in Nat /\ DOMAIN m.queue = 1 .. n /\ DOMAIN z.queue = 1 .. n + 1
      /\ z.queue[1] = i /\ \A k \in 2 .. n + 1 : z.queue[k] = m.queue[k - 1]
  OBVIOUS
<1> HIDE DEF n
<1>2. A = [k \in 1 .. n |-> m.data[m.queue[k]]] /\ C = [k \in 1 .. n + 1 |-> m.data[z.queue[k]]]
  BY <1>1 DEF MqMessages
<1> HIDE DEF A, C
<1>3. /\ Len(A) = n /\ B = [k \in 1 .. n + 1 |-> IF k = 1 THEN m.data[i] ELSE A[k - 1]]
  <2> DEFINE S == {m.data[x] : x \in MqItem}
  <2>1. A \in Seq(S) /\ Len(A) = n /\ m.data[i] \in S
    <3>1. \A k \in 1 .. n : m.queue[k] \in MqItem
      BY <1>1
    <3>2. A \in [1 .. n -> S] /\ m.data[i] \in S
      BY <1>2, <3>1
    <3> HIDE DEF S
    <3> QED BY <1>1, <3>2
  <2> HIDE DEF S
  <2> QED BY <1>1, <2>1
<1>4. \A k \in 1 .. n + 1 : C[k] = IF k = 1 THEN m.data[i] ELSE A[k - 1]
  <2> TAKE k \in 1 .. n + 1
  <2>1. CASE k = 1
    BY <1>1, <1>2, <2>1
  <2>2. CASE k # 1
    <3>1. k \in 2 .. n + 1 /\ k - 1 \in 1 .. n
      BY <1>1, <2>2
    <3> QED BY <1>1, <1>2, <2>2, <3>1
  <2> QED BY <2>1, <2>2
<1> HIDE DEF B
<1> QED BY <1>2, <1>3, <1>4 DEF A, B, C

LEMMA MqTailed ==
    ASSUME NEW m, m.queue \in Seq(MqItem), m.queue # << >>, NEW z, z.data = m.data,
           z.queue = Tail(m.queue)
    PROVE  /\ MqMessages(z) = Tail(MqMessages(m)) /\ MqMessages(m) # << >>
           /\ Head(MqMessages(m)) = m.data[Head(m.queue)]
<1> DEFINE n == Len(m.queue)
           A == MqMessages(m)
           B == Tail(A)
           C == MqMessages(z)
<1>1. /\ n \in Nat \ {0} /\ DOMAIN m.queue = 1 .. n /\ DOMAIN z.queue = 1 .. n - 1
      /\ Head(m.queue) = m.queue[1] /\ \A k \in 1 .. n - 1 : z.queue[k] = m.queue[k + 1]
  OBVIOUS
<1>5. \A k \in 1 .. n : m.queue[k] \in MqItem
  OBVIOUS
<1> HIDE DEF n
<1>2. A = [k \in 1 .. n |-> m.data[m.queue[k]]] /\ C = [k \in 1 .. n - 1 |-> m.data[z.queue[k]]]
  BY <1>1 DEF MqMessages
<1> HIDE DEF A, C
<1>3. /\ A # << >> /\ Head(A) = A[1] /\ B = [k \in 1 .. n - 1 |-> A[k + 1]]
  <2> DEFINE S == {m.data[x] : x \in MqItem}
  <2>1. A \in Seq(S) /\ Len(A) = n
    <3>2. A \in [1 .. n -> S]
      BY <1>2, <1>5
    <3> HIDE DEF S
    <3> QED BY <1>1, <3>2
  <2> HIDE DEF S
  <2>2. A # << >> /\ Head(A) = A[1]
    BY <1>1, <2>1
  <2>3. /\ B \in Seq(S) /\ Len(B) = n - 1
        /\ \A k \in 1 .. n - 1 : B[k] = A[k + 1]
    BY <1>1, <2>1, <2>2
  <2> HIDE DEF B
  <2>4. B \in [1 .. n - 1 -> S]
    BY <1>1, <2>3
  <2>5. B = [k \in 1 .. n - 1 |-> A[k + 1]]
    BY <2>3, <2>4
  <2> QED BY <2>2, <2>5
<1>4. \A k \in 1 .. n - 1 : C[k] = A[k + 1]
  <2> TAKE k \in 1 .. n - 1
  <2>1. k + 1 \in 1 .. n
    BY <1>1
  <2> QED BY <1>1, <1>2, <2>1
<1>6. Head(A) = m.data[Head(m.queue)]
  <2>1. 1 \in 1 .. n
    BY <1>1
  <2> QED BY <1>1, <1>2, <1>3, <2>1
<1> HIDE DEF B
<1> QED BY <1>2, <1>3, <1>4, <1>6 DEF A, B, C

\* A call goes on: the others' items and local variables stay.
LEMMA MqMoves ==
    ASSUME NEW m, NEW h, NEW p, NEW lo, MqFilled(m, h, p, lo), EachThread(p),
           NEW t \in Thread, NEW x, NEW q, q = Placed(p, t, x), NEW z, NEW g, NEW lp,
           \A u \in Thread \ {t} : g[u] = h[u] /\ lp[u].val = lo[u].val,
           \A u \in Thread \ {t} : h[u] # Nil => z.data[h[u]] = m.data[h[u]],
           \A i \in ToSet(z.queue) : z.data[i] \in Message, MqCall(z, g[t], x, lp[t].val)
    PROVE  /\ MqFilled(z, g, q, lp)
           /\ MqReceived(z, g, q, lp)
                = [MqReceived(m, h, p, lo) EXCEPT ![t] = MqInboxOf(z, g[t], x, lp[t].val)]
<1>1. q[t] = x /\ \A u \in Thread \ {t} : q[u] = p[u]
  BY DEF Placed, EachThread
<1>2. \A u \in Thread : MqCall(m, h[u], p[u], lo[u].val)
  BY DEF MqFilled
<1>3. ASSUME NEW u \in Thread \ {t}
      PROVE  /\ MqCall(z, g[u], q[u], lp[u].val)
             /\ MqInboxOf(z, g[u], q[u], lp[u].val) = MqInboxOf(m, h[u], p[u], lo[u].val)
  <2>1. MqCall(m, h[u], p[u], lo[u].val)
    BY <1>2
  <2>2. g[u] = h[u] /\ q[u] = p[u] /\ lp[u].val = lo[u].val
        /\ (h[u] # Nil => z.data[h[u]] = m.data[h[u]])
    BY <1>1
  <2>3. MqCall(z, h[u], p[u], lo[u].val)
    BY <2>1, <2>2 DEF MqCall, MqHolds
  <2>4. MqInboxOf(z, h[u], p[u], lo[u].val) = MqInboxOf(m, h[u], p[u], lo[u].val)
    BY <2>1, <2>2 DEF MqCall, MqHolds, MqInboxOf
  <2> QED BY <2>2, <2>3, <2>4
<1>4. MqFilled(z, g, q, lp)
  BY <1>1, <1>3 DEF MqFilled
<1>5. Receiver \subseteq Thread
  BY BlockingAssumption
<1>6. ASSUME NEW u \in Receiver
      PROVE  MqInboxOf(z, g[u], q[u], lp[u].val)
               = IF u = t THEN MqInboxOf(z, g[t], x, lp[t].val)
                 ELSE MqInboxOf(m, h[u], p[u], lo[u].val)
  BY <1>1, <1>3, <1>5
<1>7. MqReceived(z, g, q, lp)
        = [MqReceived(m, h, p, lo) EXCEPT ![t] = MqInboxOf(z, g[t], x, lp[t].val)]
  BY <1>6 DEF MqReceived
<1> QED BY <1>4, <1>7

LEMMA MqPlace ==
    /\ DOMAIN MqWhere = {"mq_recv_wait", "mq_send_wait"}
    /\ MqWhere["mq_recv_wait"] = suspend_thread
    /\ MqWhere["mq_send_wait"] = suspend_sender_thread
    /\ WaitPlaces(MqWhere)
    /\ suspend_thread # suspend_sender_thread
BY BlockingAssumption DEF MqWhere, WaitPlaces

LEMMA MqCountIs ==
    ASSUME NEW e \in Int, NEW f \in Int
    PROVE  /\ Counts(MqWhere, MqCount(e, f))
           /\ MqCount(e, f)["mq_recv_wait"] = e /\ MqCount(e, f)["mq_send_wait"] = f
BY MqPlace DEF Counts, MqCount

LEMMA MqThereIs ==
    ASSUME NEW m, NEW h, MqPool(m, h)
    PROVE  /\ Counts(MqWhere, MqThere(m)) /\ m.entry \in Nat /\ Len(m.free) \in Nat
           /\ MqThere(m)["mq_recv_wait"] = m.entry
           /\ MqThere(m)["mq_send_wait"] = Len(m.free)
<1>1. m.entry \in Nat /\ Len(m.free) \in Nat
  BY MqParts
<1> QED BY <1>1, MqCountIs DEF MqThere

\* A thread goes on to a place where nobody waits, with what it has taken.
LEMMA MqMovesOn ==
    ASSUME MqInv, NEW t \in Thread, t \notin s.asleep, NEW x, x \notin DOMAIN MqWhere,
           NEW p, p = Placed(pc, t, x), NEW e \in Int, NEW f \in Int,
           Takes(pc, t, "mq_recv_wait", mq.entry, e),
           Takes(pc, t, "mq_send_wait", Len(mq.free), f)
    PROVE  Flow(s, p, MqWhere, MqCount(e, f))
<1> DEFINE n == MqThere(mq)
           m == MqCount(e, f)
<1>1. Flow(s, pc, MqWhere, n) /\ n["mq_recv_wait"] = mq.entry /\ n["mq_send_wait"] = Len(mq.free)
  BY MqThereIs DEF MqInv
<1>2. Counts(MqWhere, m) /\ m["mq_recv_wait"] = e /\ m["mq_send_wait"] = f
  BY MqCountIs
<1> HIDE DEF n, m
<1>3. \A w \in DOMAIN MqWhere : Takes(pc, t, w, n[w], m[w])
  BY <1>1, <1>2, MqPlace
<1>4. Flow(s, p, MqWhere, m)
  BY <1>1, <1>2, <1>3, FlowGoes
<1> QED BY <1>4 DEF m

\* One more message, and a receiver is resumed; one more item, and a sender is.
LEMMA MqResumesOne ==
    ASSUME NEW j, NEW p, NEW e \in Int, NEW f \in Int, Flow(j, p, MqWhere, MqCount(e, f))
    PROVE  /\ Flow(ResumeOne(j, suspend_thread), p, MqWhere, MqCount(e + 1, f))
           /\ Flow(ResumeOne(j, suspend_sender_thread), p, MqWhere, MqCount(e, f + 1))
<1> DEFINE n == MqCount(e, f)
           a == MqCount(e + 1, f)
           b == MqCount(e, f + 1)
           w == "mq_recv_wait"
           x == "mq_send_wait"
           r == ResumeOne(j, suspend_thread)
           q == ResumeOne(j, suspend_sender_thread)
<1>1. /\ Counts(MqWhere, n) /\ Counts(MqWhere, a) /\ Counts(MqWhere, b)
      /\ n[w] = e /\ n[x] = f /\ a[w] = e + 1 /\ a[x] = f /\ b[w] = e /\ b[x] = f + 1
  BY MqCountIs
<1>2. /\ DOMAIN MqWhere = {w, x} /\ w # x
      /\ r = ResumeOne(j, MqWhere[w]) /\ q = ResumeOne(j, MqWhere[x])
  BY MqPlace
<1>3. Flow(j, p, MqWhere, n)
  OBVIOUS
<1> HIDE DEF n, a, b, w, x, r, q
<1>4. Flow(r, p, MqWhere, a)
  <2>1. a[w] <= n[w] + 1 /\ \A v \in DOMAIN MqWhere \ {w} : a[v] <= n[v]
    BY <1>1, <1>2
  <2> QED BY <1>1, <1>2, <1>3, <2>1, FlowResumes
<1>5. Flow(q, p, MqWhere, b)
  <2>1. b[x] <= n[x] + 1 /\ \A v \in DOMAIN MqWhere \ {x} : b[v] <= n[v]
    BY <1>1, <1>2
  <2> QED BY <1>1, <1>2, <1>3, <2>1, FlowResumes
<1> QED BY <1>4, <1>5 DEF a, b, r, q

\* the fields after the assignments of a section
LEMMA MqFields ==
    ASSUME NEW m, NEW h, MqPool(m, h)
    PROVE  /\ \A v : [m EXCEPT !.free = Tail(@), !.data[Head(m.free)] = v] = MqTook(m, v)
           /\ \A q : [m EXCEPT !.queue = q, !.entry = @ + 1] = MqPut(m, q)
           /\ [m EXCEPT !.queue = Tail(@), !.entry = @ - 1] = MqGot(m)
           /\ \A i : [m EXCEPT !.free = <<i>> \o @] = MqGave(m, i)
           /\ [m EXCEPT !.free = Reverse(m.queue) \o @, !.queue = << >>, !.entry = 0]
                = MqEmptied(m)
           /\ \A v : [m EXCEPT !.free = Tail(@), !.data[Head(m.free)] = v,
                               !.queue = Append(@, Head(m.free)), !.entry = @ + 1]
                     = MqPut(MqTook(m, v), Append(m.queue, Head(m.free)))
<1>0. m = [free |-> m.free, queue |-> m.queue, entry |-> m.entry, data |-> m.data]
  BY MqParts
<1>1. \A v : [m EXCEPT !.free = Tail(@), !.data[Head(m.free)] = v] = MqTook(m, v)
  <2> TAKE v
  <2> DEFINE f == Tail(m.free)
             d == [m.data EXCEPT ![Head(m.free)] = v]
             a == [m EXCEPT !.free = f]
  <2>1. a = [free |-> f, queue |-> m.queue, entry |-> m.entry, data |-> m.data]
    <3> HIDE DEF f
    <3> QED BY <1>0
  <2>2. [m EXCEPT !.free = Tail(@), !.data[Head(m.free)] = v] = [a EXCEPT !.data = d]
    BY <1>0
  <2>3. MqTook(m, v) = [free |-> f, queue |-> m.queue, entry |-> m.entry, data |-> d]
    BY DEF MqTook
  <2> HIDE DEF a, d, f
  <2> QED BY <2>1, <2>2, <2>3
<1>2. \A q : [m EXCEPT !.queue = q, !.entry = @ + 1] = MqPut(m, q)
  <2> TAKE q
  <2> DEFINE e == m.entry + 1
             a == [m EXCEPT !.queue = q]
  <2>1. a = [free |-> m.free, queue |-> q, entry |-> m.entry, data |-> m.data]
    BY <1>0
  <2>2. [m EXCEPT !.queue = q, !.entry = @ + 1] = [a EXCEPT !.entry = e]
    OBVIOUS
  <2>3. MqPut(m, q) = [free |-> m.free, queue |-> q, entry |-> e, data |-> m.data]
    BY DEF MqPut
  <2> HIDE DEF a, e
  <2> QED BY <2>1, <2>2, <2>3
<1>3. [m EXCEPT !.queue = Tail(@), !.entry = @ - 1] = MqGot(m)
  <2> DEFINE q == Tail(m.queue)
             e == m.entry - 1
             a == [m EXCEPT !.queue = q]
  <2>1. a = [free |-> m.free, queue |-> q, entry |-> m.entry, data |-> m.data]
    <3> HIDE DEF q
    <3> QED BY <1>0
  <2>2. [m EXCEPT !.queue = Tail(@), !.entry = @ - 1] = [a EXCEPT !.entry = e]
    OBVIOUS
  <2>3. MqGot(m) = [free |-> m.free, queue |-> q, entry |-> e, data |-> m.data]
    BY DEF MqGot
  <2> HIDE DEF a, e, q
  <2> QED BY <2>1, <2>2, <2>3
<1>4. \A i : [m EXCEPT !.free = <<i>> \o @] = MqGave(m, i)
  <2> TAKE i
  <2> DEFINE f == <<i>> \o m.free
             a == [m EXCEPT !.free = f]
  <2>1. a = [free |-> f, queue |-> m.queue, entry |-> m.entry, data |-> m.data]
    <3> HIDE DEF f
    <3> QED BY <1>0
  <2> QED BY <2>1 DEF MqGave
<1>5. [m EXCEPT !.free = Reverse(m.queue) \o @, !.queue = << >>, !.entry = 0] = MqEmptied(m)
  <2> DEFINE f == Reverse(m.queue) \o m.free
             a == [m EXCEPT !.free = f]
             b == [a EXCEPT !.queue = << >>]
  <2>1. a = [free |-> f, queue |-> m.queue, entry |-> m.entry, data |-> m.data]
    <3> HIDE DEF f
    <3> QED BY <1>0
  <2> HIDE DEF a
  <2>2. b = [free |-> f, queue |-> << >>, entry |-> m.entry, data |-> m.data]
    <3> HIDE DEF f
    <3> QED BY <2>1
  <2>3. [m EXCEPT !.free = Reverse(m.queue) \o @, !.queue = << >>, !.entry = 0]
          = [b EXCEPT !.entry = 0]
    BY DEF a
  <2>4. MqEmptied(m) = [free |-> f, queue |-> << >>, entry |-> 0, data |-> m.data]
    BY DEF MqEmptied
  <2> HIDE DEF b, f
  <2> QED BY <2>2, <2>3, <2>4
<1>6. \A v : [m EXCEPT !.free = Tail(@), !.data[Head(m.free)] = v,
                      !.queue = Append(@, Head(m.free)), !.entry = @ + 1]
            = MqPut(MqTook(m, v), Append(m.queue, Head(m.free)))
  <2> TAKE v
  <2> DEFINE f == Tail(m.free)
             d == [m.data EXCEPT ![Head(m.free)] = v]
             q == Append(m.queue, Head(m.free))
             e == m.entry + 1
             z == MqTook(m, v)
             a == [m EXCEPT !.free = f]
             b == [a EXCEPT !.data = d]
             c == [b EXCEPT !.queue = q]
  <2>1. a = [free |-> f, queue |-> m.queue, entry |-> m.entry, data |-> m.data]
    <3> HIDE DEF f
    <3> QED BY <1>0
  <2>2. [m EXCEPT !.free = Tail(@), !.data[Head(m.free)] = v,
                  !.queue = Append(@, Head(m.free)), !.entry = @ + 1]
          = [c EXCEPT !.entry = e]
    BY <1>0
  <2>3. z = [free |-> f, queue |-> m.queue, entry |-> m.entry, data |-> d]
    BY DEF MqTook
  <2>4. MqPut(z, q) = [free |-> z.free, queue |-> q, entry |-> z.entry + 1, data |-> z.data]
    BY DEF MqPut
  <2> HIDE DEF a, d, f, q, z
  <2>5. b = [free |-> f, queue |-> m.queue, entry |-> m.entry, data |-> d]
    BY <2>1
  <2> HIDE DEF b
  <2>6. c = [free |-> f, queue |-> q, entry |-> m.entry, data |-> d]
    BY <2>5
  <2>7. MqPut(z, q) = [free |-> f, queue |-> q, entry |-> e, data |-> d]
    BY <2>3, <2>4
  <2> HIDE DEF c, e
  <2>8. MqPut(z, q) = [c EXCEPT !.entry = e]
    BY <2>6, <2>7
  <2> QED BY <2>2, <2>8 DEF q, z
<1> QED BY <1>1, <1>2, <1>3, <1>4, <1>5, <1>6

\* the steps of the channel
MqChan == MqMessages(mq)
MqBox == MqReceived(mq, hand, pc, loc)

LEMMA MqSteps ==
    /\ UNCHANGED <<MqChan, MqBox>> => UNCHANGED MqChannel!vars
    /\ MqBox' = MqBox /\ Len(MqChan) < mq_max_msgs =>
          \A v \in Message :
             \/ v \notin Urgent /\ MqChan' = Append(MqChan, v)
             \/ v \in Urgent /\ MqChan' = <<v>> \o MqChan
             => MqChannel!Next
    /\ MqBox' = MqBox /\ MqChan' = << >> => MqChannel!Next
    /\ \A t \in Receiver :
          /\ MqChan # << >> /\ MqBox[t] = Nil
          /\ MqBox' = [MqBox EXCEPT ![t] = Head(MqChan)] /\ MqChan' = Tail(MqChan)
          => MqChannel!Next
    /\ \A t \in Receiver :
          /\ MqBox[t] # Nil /\ MqBox' = [MqBox EXCEPT ![t] = Nil] /\ MqChan' = MqChan
          => MqChannel!Next
<1>1. /\ MqChan = [i \in DOMAIN mq.queue |-> mq.data[mq.queue[i]]]
      /\ MqChan' = [i \in DOMAIN mq.queue |-> mq.data[mq.queue[i]]]'
      /\ MqBox = [t \in Receiver |-> MqInbox(t)]
      /\ MqBox' = [t \in Receiver |-> MqInbox(t)]'
  BY MqChannelIs DEF MqChan, MqBox
<1>2. UNCHANGED <<MqChan, MqBox>> => UNCHANGED MqChannel!vars
  BY <1>1 DEF MqChannel!vars
<1>3. ASSUME MqBox' = MqBox, Len(MqChan) < mq_max_msgs, NEW v \in Message,
             v \notin Urgent /\ MqChan' = Append(MqChan, v)
      PROVE  MqChannel!Next
  <2>1. MqChannel!Send(v)
    BY <1>1, <1>3 DEF MqChannel!Send
  <2> QED BY <1>3, <2>1 DEF MqChannel!Next
<1>4. ASSUME MqBox' = MqBox, Len(MqChan) < mq_max_msgs, NEW v \in Message,
             v \in Urgent /\ MqChan' = <<v>> \o MqChan
      PROVE  MqChannel!Next
  <2>1. MqChannel!SendUrgent(v)
    BY <1>1, <1>4 DEF MqChannel!SendUrgent
  <2> QED BY <1>4, <2>1 DEF MqChannel!Next
<1>5. ASSUME MqBox' = MqBox, MqChan' = << >> PROVE MqChannel!Next
  <2>1. MqChannel!Clear
    BY <1>1, <1>5 DEF MqChannel!Clear
  <2> QED BY <2>1 DEF MqChannel!Next
<1>6. ASSUME NEW t \in Receiver, MqChan # << >>, MqBox[t] = Nil,
             MqBox' = [MqBox EXCEPT ![t] = Head(MqChan)], MqChan' = Tail(MqChan)
      PROVE  MqChannel!Next
  <2>1. MqChannel!Receive(t)
    BY <1>1, <1>6 DEF MqChannel!Receive
  <2> QED BY <2>1 DEF MqChannel!Next
<1>7. ASSUME NEW t \in Receiver, MqBox[t] # Nil, MqBox' = [MqBox EXCEPT ![t] = Nil],
             MqChan' = MqChan
      PROVE  MqChannel!Next
  <2>1. MqChannel!Consume(t)
    BY <1>1, <1>7 DEF MqChannel!Consume
  <2> QED BY <2>1 DEF MqChannel!Next
<1> QED BY <1>2, <1>3, <1>4, <1>5, <1>6, <1>7

\* A step keeps the invariant, and is one of the channel or none.
MqGood == MqInv' /\ (MqChannel!Next \/ UNCHANGED MqChannel!vars)

\* A call goes on without touching the queue.
LEMMA MqStill ==
    ASSUME MqInv, NEW t \in Thread, NEW x, pc' = Placed(pc, t, x), mq' = mq, hand' = hand,
           x \notin MqHolds, pc[t] \notin MqHolds, MqCall(mq, Nil, x, loc'[t].val),
           \A u \in Thread \ {t} : loc'[u].val = loc[u].val,
           Flow(s', pc', MqWhere, MqThere(mq)), Locals(pc', loc', MqCarries)
    PROVE  MqGood
<1>1. /\ MqFilled(mq, hand, pc, loc) /\ MqPool(mq, hand) /\ EachThread(pc)
      /\ \A i \in ToSet(mq.queue) : mq.data[i] \in Message
      /\ MqCall(mq, hand[t], pc[t], loc[t].val)
  BY DEF MqInv, Flow, Waits, MqFilled
<1>2. hand[t] = Nil
  BY <1>1 DEF MqCall
<1> DEFINE q == pc'
           lp == loc'
<1>3. /\ q = Placed(pc, t, x) /\ MqCall(mq, hand[t], x, lp[t].val)
      /\ \A u \in Thread \ {t} : lp[u].val = loc[u].val
  BY <1>2
<1> HIDE DEF q, lp
<1>4. /\ MqFilled(mq, hand, q, lp)
      /\ MqReceived(mq, hand, q, lp)
           = [MqReceived(mq, hand, pc, loc) EXCEPT ![t] = MqInboxOf(mq, hand[t], x, lp[t].val)]
  BY <1>1, <1>3, MqMoves
<1>5. MqInboxOf(mq, hand[t], x, lp[t].val) = MqInboxOf(mq, hand[t], pc[t], loc[t].val)
  BY DEF MqHolds, MqInboxOf
<1>6. MqReceived(mq, hand, q, lp) = MqReceived(mq, hand, pc, loc)
  <2> DEFINE v == MqInboxOf(mq, hand[t], x, lp[t].val)
  <2>1. v = MqInboxOf(mq, hand[t], pc[t], loc[t].val)
    BY <1>5
  <2>2. MqReceived(mq, hand, q, lp) = [MqReceived(mq, hand, pc, loc) EXCEPT ![t] = v]
    BY <1>4
  <2> HIDE DEF v
  <2> QED BY <2>1, <2>2 DEF MqReceived
<1>7. MqChan' = MqChan /\ MqBox' = MqBox
  BY <1>6 DEF MqChan, MqBox, q, lp
<1>8. MqInv'
  BY <1>1, <1>4 DEF MqInv, q, lp
<1> QED BY <1>7, <1>8, MqSteps DEF MqGood

LEMMA MqBegins ==
    ASSUME MqInv, NEW t \in Thread, NEW label \in {"mq_send", "mq_urgent", "mq_recv"},
           NEW time \in Time, NEW v \in Message \cup {Nil},
           label # "mq_recv" => v \in Message, label = "mq_send" => v \notin Urgent,
           label = "mq_urgent" => v \in Urgent,
           Begin(t, label, time, v), mq' = mq, hand' = hand
    PROVE  MqGood
<1>1. /\ Waits(s, pc, MqWhere) /\ Locals(pc, loc, MqCarries)
      /\ label \notin DOMAIN MqWhere /\ "user" \notin DOMAIN MqWhere
      /\ (label \in MqCarries => v \in Message)
  BY MqPlace DEF MqInv, Flow, Waits, MqCarries
<1>2. /\ Waits(s', pc', MqWhere) /\ Locals(pc', loc', MqCarries) /\ SameSleepers(MqWhere)
      /\ pc[t] = "user" /\ pc' = Placed(pc, t, label) /\ loc'[t].val = v
      /\ \A u \in Thread \ {t} : loc'[u] = loc[u]
  BY <1>1, BeginIs
<1>3. Flow(s', pc', MqWhere, MqThere(mq))
  BY <1>2, FlowTimes DEF MqInv, SameSleepers
<1>4. MqCall(mq, Nil, label, loc'[t].val) /\ label \notin MqHolds /\ pc[t] \notin MqHolds
  BY <1>2 DEF MqCall, MqHolds
<1> QED BY <1>2, <1>3, <1>4, MqStill

\* A call returns, and nothing comes or goes.
LEMMA MqReturns ==
    ASSUME MqInv, NEW t \in Thread, pc[t] \notin MqHolds, t \notin s.asleep, Return(t),
           s' = s, mq' = mq, hand' = hand,
           \A w \in DOMAIN MqWhere : pc[t] = w => MqThere(mq)[w] <= 0
    PROVE  MqGood
<1>1. /\ Flow(s, pc, MqWhere, MqThere(mq)) /\ Locals(pc, loc, MqCarries)
      /\ Waits(s, pc, MqWhere) /\ "user" \notin DOMAIN MqWhere /\ "user" \notin MqCarries
      /\ Counts(MqWhere, MqThere(mq))
  BY MqPlace DEF MqInv, Flow, MqCarries
<1>2. /\ Locals(pc', loc', MqCarries) /\ pc' = Placed(pc, t, "user")
      /\ \A u \in Thread \ {t} : loc'[u] = loc[u]
  BY <1>1, ReturnIs
<1>3. \A w \in DOMAIN MqWhere : Takes(pc, t, w, MqThere(mq)[w], MqThere(mq)[w])
  BY <1>1 DEF Takes, Counts
<1> DEFINE x == "user"
<1>4. /\ x \notin DOMAIN MqWhere /\ pc' = Placed(pc, t, x) /\ x \notin MqHolds
      /\ MqCall(mq, Nil, x, loc'[t].val)
  BY <1>1, <1>2 DEF MqCall, MqHolds
<1> HIDE DEF x
<1>5. Flow(s', pc', MqWhere, MqThere(mq))
  <2> DEFINE n == MqThere(mq)
  <2>1. Flow(s, pc, MqWhere, n) /\ \A w \in DOMAIN MqWhere : Takes(pc, t, w, n[w], n[w])
    BY <1>1, <1>3
  <2>2. Counts(MqWhere, n)
    BY <1>1
  <2> HIDE DEF n
  <2>3. Flow(s, pc', MqWhere, n)
    BY <1>4, <2>1, <2>2, FlowGoes
  <2> QED BY <2>3 DEF n
<1> QED BY <1>2, <1>4, <1>5, MqStill

\* A call waits at the place w, where nothing is there for it.
LEMMA MqWaits ==
    ASSUME MqInv, NEW t \in Thread, NEW w \in DOMAIN MqWhere, t \notin s.asleep,
           NEW call \in {"mq_send", "mq_recv"}, pc[t] = call \/ pc[t] = w,
           w = "mq_send_wait" <=> call = "mq_send",
           NEW time \in Time, SuspendSelf(t, MqWhere[w], time, w), mq' = mq, hand' = hand,
           MqThere(mq)[w] <= 0
    PROVE  MqGood
<1>1. /\ Flow(s, pc, MqWhere, MqThere(mq)) /\ Locals(pc, loc, MqCarries)
      /\ Waits(s, pc, MqWhere) /\ (w \in MqCarries => pc[t] \in MqCarries)
      /\ pc[t] \notin MqHolds /\ w \notin MqHolds
      /\ \A v \in DOMAIN MqWhere \ {w} : pc[t] # v
      /\ MqCall(mq, hand[t], pc[t], loc[t].val)
  BY MqPlace DEF MqInv, Flow, MqCarries, MqHolds, MqFilled
<1>2. /\ Locals(pc', loc', MqCarries) /\ pc' = Placed(pc, t, w)
      /\ \A u \in Thread : loc'[u].val = loc[u].val
  BY <1>1, SuspendSelfIs
<1>3. s' = Suspended(s, MqWhere[w], t, time)
  BY DEF SuspendSelf, Suspended
<1>4. Flow(s', pc', MqWhere, MqThere(mq))
  <2> DEFINE n == MqThere(mq)
             r == s'
  <2>1. Flow(s, pc, MqWhere, n) /\ n[w] <= 0 /\ r = Suspended(s, MqWhere[w], t, time)
    BY <1>1, <1>3
  <2> HIDE DEF n, r
  <2>2. Flow(r, pc', MqWhere, n)
    BY <1>1, <1>2, <2>1, FlowSuspends
  <2> QED BY <2>2 DEF n, r
<1>5. MqCall(mq, Nil, w, loc'[t].val)
  BY <1>1, <1>2, MqPlace DEF MqCall, MqHolds
<1> QED BY <1>1, <1>2, <1>4, <1>5, MqStill

LEMMA MqFails ==
    ASSUME MqInv, NEW t \in Thread, NEW w \in DOMAIN MqWhere, WaitFails(t, w), mq' = mq,
           hand' = hand
    PROVE  MqGood
<1>1. /\ Flow(s, pc, MqWhere, MqThere(mq)) /\ Locals(pc, loc, MqCarries)
      /\ Waits(s, pc, MqWhere) /\ "user" \notin DOMAIN MqWhere /\ "user" \notin MqCarries
      /\ w \notin MqHolds
  BY MqPlace DEF MqInv, Flow, MqCarries, MqHolds
<1>2. /\ Waits(s', pc', MqWhere) /\ Locals(pc', loc', MqCarries) /\ SameSleepers(MqWhere)
      /\ pc' = Placed(pc, t, "user") /\ pc[t] = w
      /\ \A u \in Thread \ {t} : loc'[u] = loc[u]
  BY <1>1, WaitFailsIs
<1>3. Flow(s', pc', MqWhere, MqThere(mq))
  BY <1>1, <1>2, FlowTimes DEF SameSleepers
<1> DEFINE x == "user"
<1>4. pc' = Placed(pc, t, x) /\ x \notin MqHolds /\ MqCall(mq, Nil, x, loc'[t].val)
  BY <1>2 DEF MqCall, MqHolds
<1> HIDE DEF x
<1> QED BY <1>1, <1>2, <1>3, <1>4, MqStill

LEMMA MqExpires ==
    ASSUME MqInv, NEW t \in Thread, TimerExpires(t), mq' = mq, hand' = hand
    PROVE  MqGood
<1>1. /\ Flow(s, pc, MqWhere, MqThere(mq)) /\ Waits(s, pc, MqWhere)
  BY DEF MqInv, Flow
<1>2. /\ Waits(s', pc', MqWhere) /\ pc' = pc /\ loc' = loc
      /\ \A v : /\ Asleep(s', pc', v) \subseteq Asleep(s, pc, v)
                /\ Awake(s', pc', v) = Awake(s, pc, v)
  BY <1>1, TimerExpiresIs
<1>3. Flow(s', pc', MqWhere, MqThere(mq))
  BY <1>1, <1>2, FlowTimes
<1>4. MqInv'
  BY <1>2, <1>3 DEF MqInv, Locals
<1>5. UNCHANGED <<MqChan, MqBox>>
  BY <1>2 DEF MqChan, MqBox
<1> QED BY <1>4, <1>5, MqSteps DEF MqGood

\* A step of a call that the channel does not see.
LEMMA MqStutters ==
    ASSUME MqInv', MqChan' = MqChan, MqBox' = MqBox
    PROVE  MqGood
BY MqSteps DEF MqGood

LEMMA MqAllocateStep ==
    ASSUME MqInv, NEW t \in Sender, MqAllocate(t)
    PROVE  MqGood
<1> DEFINE v == loc[t].val
           i == Head(mq.free)
           x == IF pc[t] = "mq_urgent" THEN "mq_link_head" ELSE "mq_link_tail"
<1>1. /\ Flow(s, pc, MqWhere, MqThere(mq)) /\ Locals(pc, loc, MqCarries) /\ EachThread(pc)
      /\ MqPool(mq, hand) /\ MqFilled(mq, hand, pc, loc) /\ t \in Thread
      /\ MqCall(mq, hand[t], pc[t], v) /\ \A k \in ToSet(mq.queue) : mq.data[k] \in Message
  BY BlockingAssumption DEF MqInv, Flow, Waits, MqFilled
<1>2. /\ t \notin s.asleep /\ pc[t] \in {"mq_send", "mq_send_wait", "mq_urgent"}
      /\ mq.free # << >> /\ mq' = MqTook(mq, v) /\ hand' = Handed(hand, t, i)
      /\ pc' = Placed(pc, t, x) /\ s' = s /\ loc' = loc
  <2>1. mq' = MqTook(mq, v)
    BY <1>1, MqFields DEF MqAllocate
  <2>2. t \notin s.asleep /\ pc[t] \in {"mq_send", "mq_send_wait", "mq_urgent"}
    BY <1>1, TestIs DEF MqAllocate, Runs
  <2> QED BY <2>1, <2>2 DEF MqAllocate, Goto, Placed, Handed
<1>3. v \in Message /\ hand[t] = Nil
  BY <1>1, <1>2 DEF Locals, MqCarries, MqCall, MqHolds
<1> DEFINE z == MqTook(mq, v)
           g == Handed(hand, t, i)
<1>4. /\ MqPool(z, g) /\ i \in MqItem /\ i \notin ToSet(mq.queue) /\ \A u \in Thread : hand[u] # i
  BY <1>1, <1>2, <1>3, MqTakesItem
<1>5. /\ z.queue = mq.queue /\ z.entry = mq.entry /\ z.free = Tail(mq.free) /\ z.data[i] = v
      /\ \A k \in MqItem \ {i} : z.data[k] = mq.data[k]
  BY <1>1, <1>4, MqParts DEF MqTook
<1>6. g[t] = i /\ \A u \in Thread \ {t} : g[u] = hand[u]
  BY <1>1, MqParts DEF Handed
<1>7. /\ x \in {"mq_link_head", "mq_link_tail"} /\ x \in MqHolds /\ x \notin DOMAIN MqWhere
      /\ x \notin MqCarries
      /\ x = "mq_link_head" => v \in Urgent
      /\ x = "mq_link_tail" => v \notin Urgent
  BY <1>1, <1>2, MqPlace DEF MqHolds, MqCarries, MqCall
<1> DEFINE q == pc'
<1>8. q = Placed(pc, t, x)
  BY <1>2
<1> HIDE DEF i, x, z, g, q
<1>9. MqCall(z, g[t], x, v)
  BY <1>3, <1>4, <1>5, <1>6, <1>7, MqParts, <1>1 DEF MqCall, MqCarries
<1>10. ToSet(mq.queue) \subseteq MqItem /\ \A u \in Thread : hand[u] # Nil => hand[u] \in MqItem
  BY <1>1, MqParts
<1>11. /\ MqFilled(z, g, q, loc)
       /\ MqReceived(z, g, q, loc)
            = [MqReceived(mq, hand, pc, loc) EXCEPT ![t] = MqInboxOf(z, g[t], x, loc[t].val)]
  <2>1. \A u \in Thread \ {t} : hand[u] # Nil => z.data[hand[u]] = mq.data[hand[u]]
    BY <1>4, <1>5, <1>10
  <2>2. \A k \in ToSet(z.queue) : z.data[k] \in Message
    BY <1>1, <1>4, <1>5, <1>10
  <2> QED BY <1>1, <1>6, <1>8, <1>9, <2>1, <2>2, MqMoves
<1>12. MqReceived(z, g, q, loc) = MqReceived(mq, hand, pc, loc)
  <2> DEFINE y == MqInboxOf(z, g[t], x, loc[t].val)
  <2>1. y = MqInboxOf(mq, hand[t], pc[t], loc[t].val)
    BY <1>2, <1>7 DEF MqInboxOf
  <2>2. MqReceived(z, g, q, loc) = [MqReceived(mq, hand, pc, loc) EXCEPT ![t] = y]
    BY <1>11
  <2> HIDE DEF y
  <2> QED BY <2>1, <2>2 DEF MqReceived
<1>13. MqMessages(z) = MqMessages(mq)
  BY <1>4, <1>5, <1>10, MqSameMessages
<1>14. Flow(s, q, MqWhere, MqThere(z))
  <2>1. /\ mq.entry \in Int /\ Len(mq.free) \in Int /\ Len(z.free) = Len(mq.free) - 1
    BY <1>1, <1>2, <1>5, MqParts, TailElements
  <2>2. /\ Takes(pc, t, "mq_recv_wait", mq.entry, mq.entry)
        /\ Takes(pc, t, "mq_send_wait", Len(mq.free), Len(z.free))
    BY <1>2, <2>1 DEF Takes
  <2>3. Len(z.free) \in Int
    BY <2>1
  <2> QED BY <1>1, <1>2, <1>5, <1>7, <1>8, <2>1, <2>2, <2>3, MqMovesOn DEF MqThere
<1>15. Locals(q, loc, MqCarries)
  <2>1. \A u \in Thread : q[u] = IF u = t THEN x ELSE pc[u]
    BY <1>1, <1>8 DEF EachThread, Placed
  <2> QED BY <1>1, <1>7, <2>1 DEF Locals
<1>16. MqInv'
  BY <1>2, <1>4, <1>11, <1>14, <1>15 DEF MqInv, q, z, g
<1>17. MqChan' = MqChan /\ MqBox' = MqBox
  BY <1>2, <1>12, <1>13 DEF MqChan, MqBox, q, z, g
<1> QED BY <1>16, <1>17, MqStutters

\* The end of the copy, still in the hands of the receiver.
LEMMA MqCopiedStep ==
    ASSUME MqInv, NEW t \in Receiver, MqCopied(t)
    PROVE  MqGood
<1> DEFINE v == mq.data[hand[t]]
           x == "mq_free"
           q == pc'
           lp == loc'
<1>1. /\ Flow(s, pc, MqWhere, MqThere(mq)) /\ Locals(pc, loc, MqCarries) /\ EachThread(pc)
      /\ MqPool(mq, hand) /\ MqFilled(mq, hand, pc, loc) /\ t \in Thread
      /\ MqCall(mq, hand[t], pc[t], loc[t].val) /\ Receiver \subseteq Thread
      /\ \A k \in ToSet(mq.queue) : mq.data[k] \in Message
  BY BlockingAssumption DEF MqInv, Flow, Waits, MqFilled
<1>2. /\ t \notin s.asleep /\ pc[t] = "mq_copy" /\ mq' = mq /\ hand' = hand /\ s' = s
      /\ pc' = Placed(pc, t, x) /\ lp = [loc EXCEPT ![t].val = v]
  BY DEF MqCopied, Runs, Goto, Placed
<1>3. v \in Message /\ hand[t] # Nil
  BY <1>1, <1>2 DEF MqCall, MqHolds
<1>4. /\ lp \in [Thread -> [time : Time, val : Message \cup {Nil}]]
      /\ lp[t].val = v /\ \A u \in Thread \ {t} : lp[u] = loc[u]
  <2> HIDE DEF v, lp
  <2> QED BY <1>1, <1>2, <1>3 DEF Locals
<1>5. MqCall(mq, hand[t], x, lp[t].val) /\ x \notin DOMAIN MqWhere
  BY <1>3, MqPlace DEF MqCall, MqHolds
<1> HIDE DEF v, x, q, lp
<1>6. q = Placed(pc, t, x)
  BY <1>2 DEF q
<1>7. /\ MqFilled(mq, hand, q, lp)
      /\ MqReceived(mq, hand, q, lp)
           = [MqReceived(mq, hand, pc, loc) EXCEPT ![t] = MqInboxOf(mq, hand[t], x, lp[t].val)]
  BY <1>1, <1>4, <1>5, <1>6, MqMoves
<1>8. MqReceived(mq, hand, q, lp) = MqReceived(mq, hand, pc, loc)
  <2> DEFINE y == MqInboxOf(mq, hand[t], x, lp[t].val)
  <2>1. y = MqInboxOf(mq, hand[t], pc[t], loc[t].val)
    BY <1>2, <1>4 DEF MqInboxOf, x, v
  <2>2. MqReceived(mq, hand, q, lp) = [MqReceived(mq, hand, pc, loc) EXCEPT ![t] = y]
    BY <1>7
  <2> HIDE DEF y
  <2> QED BY <2>1, <2>2 DEF MqReceived
<1>9. Flow(s, q, MqWhere, MqThere(mq))
  <2>1. mq.entry \in Int /\ Len(mq.free) \in Int
    BY <1>1, MqParts
  <2>2. /\ Takes(pc, t, "mq_recv_wait", mq.entry, mq.entry)
        /\ Takes(pc, t, "mq_send_wait", Len(mq.free), Len(mq.free))
    BY <1>2, <2>1 DEF Takes
  <2> QED BY <1>1, <1>2, <1>5, <1>6, <2>1, <2>2, MqMovesOn DEF MqThere
<1>10. Locals(q, lp, MqCarries)
  <2>1. \A u \in Thread : q[u] = IF u = t THEN x ELSE pc[u]
    BY <1>1, <1>6 DEF EachThread, Placed
  <2> QED BY <1>1, <1>3, <1>4, <2>1 DEF Locals
<1>11. MqInv'
  BY <1>1, <1>2, <1>7, <1>9, <1>10 DEF MqInv, q, lp
<1>12. MqChan' = MqChan /\ MqBox' = MqBox
  BY <1>2, <1>8 DEF MqChan, MqBox, q, lp
<1> QED BY <1>11, <1>12, MqStutters

\* The head of the queue is in the hands of a receiver.
LEMMA MqUnlinkStep ==
    ASSUME MqInv, NEW t \in Receiver, MqUnlink(t)
    PROVE  MqGood
<1> DEFINE i == Head(mq.queue)
           x == "mq_copy"
           q == pc'
           z == MqGot(mq)
           g == Handed(hand, t, i)
<1>1. /\ Flow(s, pc, MqWhere, MqThere(mq)) /\ Locals(pc, loc, MqCarries) /\ EachThread(pc)
      /\ MqPool(mq, hand) /\ MqFilled(mq, hand, pc, loc) /\ t \in Thread
      /\ MqCall(mq, hand[t], pc[t], loc[t].val) /\ Receiver \subseteq Thread
      /\ \A k \in ToSet(mq.queue) : mq.data[k] \in Message
  BY BlockingAssumption DEF MqInv, Flow, Waits, MqFilled
<1>2. /\ t \notin s.asleep /\ pc[t] \in {"mq_recv", "mq_recv_wait"} /\ mq.entry > 0
      /\ mq' = z /\ hand' = g /\ s' = s /\ loc' = loc /\ q = Placed(pc, t, x)
  <2>1. mq' = MqGot(mq)
    BY <1>1, MqFields DEF MqUnlink
  <2>2. t \notin s.asleep /\ pc[t] \in {"mq_recv", "mq_recv_wait"}
    BY <1>1, TestIs DEF MqUnlink
  <2> QED BY <2>1, <2>2 DEF MqUnlink, Goto, Placed, Handed
<1>3. hand[t] = Nil
  BY <1>1, <1>2 DEF MqCall, MqHolds
<1>4. /\ MqPool(z, g) /\ mq.queue # << >> /\ i \in ToSet(mq.queue) /\ i \in MqItem
      /\ \A u \in Thread : hand[u] # i
  BY <1>1, <1>2, <1>3, MqGetsItem
<1>5. /\ z.queue = Tail(mq.queue) /\ z.entry = mq.entry - 1 /\ z.free = mq.free
      /\ z.data = mq.data
  BY DEF MqGot
<1>6. g[t] = i /\ \A u \in Thread \ {t} : g[u] = hand[u]
  BY <1>1, MqParts DEF Handed
<1>7. mq.queue \in Seq(MqItem) /\ ToSet(z.queue) \subseteq ToSet(mq.queue)
  BY <1>1, <1>4, <1>5, MqParts, TailElements
<1>8. x \in MqHolds /\ x \notin DOMAIN MqWhere /\ x \notin MqCarries /\ mq.data[i] \in Message
  BY <1>1, <1>4, MqPlace DEF MqHolds, MqCarries
<1>9. MqCall(z, g[t], x, loc[t].val)
  BY <1>4, <1>5, <1>6, <1>8, <1>1, MqParts DEF MqCall, MqHolds
<1> HIDE DEF i, z, g, q
<1>10. /\ MqFilled(z, g, q, loc)
       /\ MqReceived(z, g, q, loc)
            = [MqReceived(mq, hand, pc, loc) EXCEPT ![t] = MqInboxOf(z, g[t], x, loc[t].val)]
  <2> HIDE DEF x
  <2> QED BY <1>1, <1>2, <1>5, <1>6, <1>7, <1>9, MqMoves
<1>11. /\ MqMessages(z) = Tail(MqMessages(mq)) /\ MqMessages(mq) # << >>
       /\ Head(MqMessages(mq)) = mq.data[i]
  BY <1>4, <1>5, <1>7, MqTailed DEF i
<1>12. MqInboxOf(z, g[t], x, loc[t].val) = mq.data[i]
  BY <1>5, <1>6 DEF MqInboxOf
<1>13. MqBox[t] = Nil
  BY <1>2 DEF MqBox, MqReceived, MqInboxOf
<1>14. Flow(s, q, MqWhere, MqThere(z))
  <2> DEFINE e == mq.entry - 1
             f == Len(mq.free)
  <2>1. mq.entry \in Int /\ e \in Int /\ f \in Int
    BY <1>1, MqParts
  <2>2. Takes(pc, t, "mq_recv_wait", mq.entry, e) /\ Takes(pc, t, "mq_send_wait", f, f)
    BY <1>2, <2>1 DEF Takes
  <2>3. MqThere(z) = MqCount(e, f)
    BY <1>5 DEF MqThere
  <2> HIDE DEF e, x
  <2>4. Flow(s, q, MqWhere, MqCount(e, f))
    BY <1>1, <1>2, <1>8, <2>1, <2>2, MqMovesOn
  <2> QED BY <2>3, <2>4
<1>15. Locals(q, loc, MqCarries)
  <2>1. \A u \in Thread : q[u] = IF u = t THEN x ELSE pc[u]
    BY <1>1, <1>2 DEF EachThread, Placed
  <2> HIDE DEF x
  <2> QED BY <1>1, <1>8, <2>1 DEF Locals
<1>16. MqInv'
  BY <1>2, <1>4, <1>10, <1>14, <1>15 DEF MqInv, q
<1>17. /\ MqChan # << >> /\ MqChan' = Tail(MqChan)
       /\ MqBox' = [MqBox EXCEPT ![t] = Head(MqChan)]
  BY <1>2, <1>10, <1>11, <1>12 DEF MqChan, MqBox, q
<1>18. MqChannel!Next
  BY <1>13, <1>17, MqSteps
<1> QED BY <1>16, <1>18 DEF MqGood

\* A call gives back what it has in its hand, and returns.
LEMMA MqLetsGo ==
    ASSUME MqInv, NEW t \in Thread, t \notin s.asleep, pc[t] \in MqHolds, Return(t),
           NEW z, z.data = mq.data, \A i \in ToSet(z.queue) : z.data[i] \in Message,
           NEW g, g = Handed(hand, t, Nil)
    PROVE  /\ Locals(pc', loc', MqCarries) /\ MqFilled(z, g, pc', loc')
           /\ MqReceived(z, g, pc', loc') = [MqBox EXCEPT ![t] = Nil]
           /\ Flow(s, pc', MqWhere, MqThere(mq))
<1> DEFINE x == "user"
           q == pc'
           lp == loc'
<1>1. /\ Waits(s, pc, MqWhere) /\ Locals(pc, loc, MqCarries) /\ EachThread(pc)
      /\ MqPool(mq, hand) /\ MqFilled(mq, hand, pc, loc)
      /\ "user" \notin DOMAIN MqWhere /\ "user" \notin MqCarries
  BY MqPlace DEF MqInv, Flow, Waits, MqCarries
<1>2. /\ Locals(pc', loc', MqCarries) /\ pc' = Placed(pc, t, "user")
      /\ \A u \in Thread \ {t} : loc'[u] = loc[u]
  BY <1>1, ReturnIs
<1>3. g[t] = Nil /\ \A u \in Thread \ {t} : g[u] = hand[u]
  BY <1>1, MqParts DEF Handed
<1>4. MqCall(z, g[t], x, lp[t].val) /\ q = Placed(pc, t, x) /\ x \notin DOMAIN MqWhere
  BY <1>1, <1>2, <1>3 DEF MqCall, MqHolds
<1>5. MqInboxOf(z, g[t], x, lp[t].val) = Nil
  BY DEF MqInboxOf
<1>6. \A u \in Thread \ {t} : lp[u].val = loc[u].val
  BY <1>2
<1> HIDE DEF x, q, lp
<1>7. /\ MqFilled(z, g, q, lp)
      /\ MqReceived(z, g, q, lp)
           = [MqReceived(mq, hand, pc, loc) EXCEPT ![t] = MqInboxOf(z, g[t], x, lp[t].val)]
  BY <1>1, <1>3, <1>4, <1>6, MqMoves
<1>8. MqReceived(z, g, q, lp) = [MqBox EXCEPT ![t] = Nil]
  BY <1>5, <1>7 DEF MqBox
<1>9. Flow(s, q, MqWhere, MqThere(mq))
  <2>1. mq.entry \in Int /\ Len(mq.free) \in Int
    BY <1>1, MqParts
  <2>2. /\ Takes(pc, t, "mq_recv_wait", mq.entry, mq.entry)
        /\ Takes(pc, t, "mq_send_wait", Len(mq.free), Len(mq.free))
    BY <2>1 DEF Takes, MqHolds
  <2> QED BY <1>4, <2>1, <2>2, MqMovesOn DEF MqThere
<1> QED BY <1>2, <1>7, <1>8, <1>9 DEF q, lp

\* A message is in the queue, and a receiver is resumed.
LEMMA MqLinkStep ==
    ASSUME MqInv, NEW t \in Sender, MqLink(t)
    PROVE  MqGood
<1> DEFINE i == hand[t]
           v == mq.data[i]
           y == MqLinked(t)
           z == MqPut(mq, y)
           g == Handed(hand, t, Nil)
<1>1. /\ MqPool(mq, hand) /\ MqFilled(mq, hand, pc, loc) /\ t \in Thread
      /\ MqCall(mq, i, pc[t], loc[t].val)
      /\ \A k \in ToSet(mq.queue) : mq.data[k] \in Message
      /\ Urgent \subseteq Message /\ IsFiniteSet(MqItem)
  BY BlockingAssumption, MessageQueueAssumption DEF MqInv, MqFilled
<1>2. /\ t \notin s.asleep /\ pc[t] \in {"mq_link_head", "mq_link_tail"} /\ pc[t] \in MqHolds
      /\ mq' = z /\ hand' = g /\ s' = ResumeOne(s, suspend_thread) /\ Return(t)
  <2>1. mq' = MqPut(mq, MqLinked(t))
    BY <1>1, MqFields DEF MqLink
  <2> QED BY <2>1 DEF MqLink, Runs, Handed, MqHolds
<1>3. i # Nil /\ i \in MqItem /\ i \notin ToSet(mq.queue)
  BY <1>1, <1>2, MqParts DEF MqCall, MqPool
<1>4. \/ v \notin Urgent /\ v \in Message /\ y = Append(mq.queue, i)
      \/ v \in Urgent /\ v \in Message /\ y = <<i>> \o mq.queue
  BY <1>1, <1>2 DEF MqCall, MqLinked
<1> HIDE DEF y
<1>5. MqPool(z, g)
  BY <1>1, <1>3, <1>4, MqPutsItem
<1>6. z.queue = y /\ z.entry = mq.entry + 1 /\ z.free = mq.free /\ z.data = mq.data
  BY DEF MqPut
<1>7. mq.queue \in Seq(MqItem) /\ IsInjective(mq.queue)
  BY <1>1, MqParts
<1>8. ToSet(y) = ToSet(mq.queue) \cup {i}
  <2> HIDE DEF i
  <2>1. CASE y = Append(mq.queue, i)
    BY <1>3, <1>7, <2>1, AppendElements
  <2>2. CASE y = <<i>> \o mq.queue
    BY <1>3, <1>7, <2>2, PrependElements
  <2> QED BY <1>4, <2>1, <2>2
<1> HIDE DEF z, g
<1>9. \A k \in ToSet(z.queue) : z.data[k] \in Message
  BY <1>1, <1>4, <1>6, <1>8
<1>10. /\ Locals(pc', loc', MqCarries) /\ MqFilled(z, g, pc', loc')
       /\ MqReceived(z, g, pc', loc') = [MqBox EXCEPT ![t] = Nil]
       /\ Flow(s, pc', MqWhere, MqThere(mq))
  <2>1. g = Handed(hand, t, Nil)
    BY DEF g
  <2> QED BY <1>1, <1>2, <1>6, <1>9, <2>1, MqLetsGo
<1>11. MqBox' = MqBox
  <2>1. MqReceived(z, g, pc', loc') = MqBox
    <3>1. t \in Receiver => MqBox[t] = Nil
      BY <1>2 DEF MqBox, MqReceived, MqInboxOf
    <3> DEFINE b == MqReceived(z, g, pc', loc')
    <3>2. b = [MqBox EXCEPT ![t] = Nil] /\ MqBox = [u \in Receiver |-> MqBox[u]]
      BY <1>10 DEF MqBox, MqReceived
    <3> HIDE DEF b
    <3>3. b = MqBox
      BY <3>1, <3>2
    <3> QED BY <3>3 DEF b
  <2> QED BY <1>2, <2>1 DEF MqBox
<1>12. Len(MqChan) < mq_max_msgs
  <2>1. Len(mq.queue) < Cardinality(MqItem)
    BY <1>1, <1>3, <1>7, LeavesOut
  <2> QED BY <1>1, <2>1, MqMessagesAre DEF MqChan, mq_max_msgs
<1>13. \/ v \notin Urgent /\ v \in Message /\ MqChan' = Append(MqChan, v)
       \/ v \in Urgent /\ v \in Message /\ MqChan' = <<v>> \o MqChan
  <2>1. CASE v \notin Urgent /\ v \in Message /\ y = Append(mq.queue, i)
    <3>1. MqMessages(z) = Append(MqMessages(mq), v)
      BY <1>3, <1>6, <1>7, <2>1, MqAppended
    <3> QED BY <1>2, <2>1, <3>1 DEF MqChan
  <2>2. CASE v \in Urgent /\ v \in Message /\ y = <<i>> \o mq.queue
    <3>1. MqMessages(z) = <<v>> \o MqMessages(mq)
      BY <1>3, <1>6, <1>7, <2>2, MqPrepended
    <3> QED BY <1>2, <2>2, <3>1 DEF MqChan
  <2> QED BY <1>4, <2>1, <2>2
<1> HIDE DEF v
<1>14. MqChannel!Next
  BY <1>11, <1>12, <1>13, MqSteps
<1>15. Flow(s', pc', MqWhere, MqThere(z))
  <2> DEFINE e == mq.entry
             f == Len(mq.free)
             p == pc'
  <2>1. e \in Int /\ f \in Int /\ MqThere(z) = MqCount(e + 1, f)
    BY <1>1, <1>6, MqParts DEF MqThere
  <2>2. Flow(s, p, MqWhere, MqCount(e, f))
    BY <1>10 DEF MqThere
  <2> HIDE DEF e, f, p
  <2>3. Flow(ResumeOne(s, suspend_thread), p, MqWhere, MqCount(e + 1, f))
    BY <2>1, <2>2, MqResumesOne
  <2> QED BY <1>2, <2>1, <2>3 DEF p
<1>16. MqInv'
  BY <1>2, <1>5, <1>10, <1>15 DEF MqInv
<1> QED BY <1>14, <1>16 DEF MqGood

\* A message is received, its item is free, and a sender is resumed.
LEMMA MqFreeStep ==
    ASSUME MqInv, NEW t \in Receiver, MqFree(t)
    PROVE  MqGood
<1> DEFINE i == hand[t]
           z == MqGave(mq, i)
           g == Handed(hand, t, Nil)
<1>1. /\ MqPool(mq, hand) /\ MqFilled(mq, hand, pc, loc) /\ t \in Thread
      /\ MqCall(mq, i, pc[t], loc[t].val) /\ Locals(pc, loc, MqCarries)
      /\ \A k \in ToSet(mq.queue) : mq.data[k] \in Message
  BY BlockingAssumption DEF MqInv, MqFilled
<1>2. /\ t \notin s.asleep /\ pc[t] = "mq_free" /\ pc[t] \in MqHolds
      /\ mq' = z /\ hand' = g /\ s' = ResumeOne(s, suspend_sender_thread) /\ Return(t)
  <2>1. mq' = MqGave(mq, hand[t])
    BY <1>1, MqFields DEF MqFree
  <2> QED BY <2>1 DEF MqFree, AfterMqFree, Runs, Handed, MqHolds
<1>3. i # Nil /\ loc[t].val \in Message /\ Nil \notin Message
  BY <1>1, <1>2, BlockingAssumption DEF MqCall, MqHolds, Locals, MqCarries
<1>4. MqPool(z, g) /\ Len(z.free) = Len(mq.free) + 1
  BY <1>1, <1>3, MqGivesItem
<1>5. z.queue = mq.queue /\ z.entry = mq.entry /\ z.data = mq.data
  BY DEF MqGave
<1> HIDE DEF z, g
<1>6. /\ Locals(pc', loc', MqCarries) /\ MqFilled(z, g, pc', loc')
      /\ MqReceived(z, g, pc', loc') = [MqBox EXCEPT ![t] = Nil]
      /\ Flow(s, pc', MqWhere, MqThere(mq))
  <2>1. g = Handed(hand, t, Nil)
    BY DEF g
  <2> QED BY <1>1, <1>2, <1>5, <2>1, MqLetsGo
<1>7. MqBox' = [MqBox EXCEPT ![t] = Nil]
  <2>1. MqBox' = MqReceived(z, g, pc', loc')
    BY <1>2 DEF MqBox
  <2> QED BY <1>6, <2>1
<1>8. MqBox[t] # Nil
  BY <1>2, <1>3 DEF MqBox, MqReceived, MqInboxOf
<1>9. MqChan' = MqChan
  <2>1. MqMessages(z) = MqMessages(mq)
    BY <1>5 DEF MqMessages
  <2> QED BY <1>2, <2>1 DEF MqChan
<1>10. MqChannel!Next
  BY <1>7, <1>8, <1>9, MqSteps
<1>11. Flow(s', pc', MqWhere, MqThere(z))
  <2> DEFINE e == mq.entry
             f == Len(mq.free)
             p == pc'
  <2>1. e \in Int /\ f \in Int /\ MqThere(z) = MqCount(e, f + 1)
    BY <1>1, <1>4, <1>5, MqParts DEF MqThere
  <2>2. Flow(s, p, MqWhere, MqCount(e, f))
    BY <1>6 DEF MqThere
  <2> HIDE DEF e, f, p
  <2>3. Flow(ResumeOne(s, suspend_sender_thread), p, MqWhere, MqCount(e, f + 1))
    BY <2>1, <2>2, MqResumesOne
  <2> QED BY <1>2, <2>1, <2>3 DEF p
<1>12. MqInv'
  BY <1>2, <1>4, <1>6, <1>11 DEF MqInv
<1> QED BY <1>10, <1>12 DEF MqGood

\* No call goes on: what the callers hold is not touched.
LEMMA MqStays ==
    ASSUME NEW m, NEW h, NEW p, NEW lo, MqFilled(m, h, p, lo), NEW z,
           \A u \in Thread : h[u] # Nil => z.data[h[u]] = m.data[h[u]],
           \A i \in ToSet(z.queue) : z.data[i] \in Message
    PROVE  MqFilled(z, h, p, lo) /\ MqReceived(z, h, p, lo) = MqReceived(m, h, p, lo)
<1>1. ASSUME NEW u \in Thread
      PROVE  /\ MqCall(z, h[u], p[u], lo[u].val)
             /\ MqInboxOf(z, h[u], p[u], lo[u].val) = MqInboxOf(m, h[u], p[u], lo[u].val)
  <2>1. MqCall(m, h[u], p[u], lo[u].val) /\ (h[u] # Nil => z.data[h[u]] = m.data[h[u]])
    BY DEF MqFilled
  <2> QED BY <2>1 DEF MqCall, MqHolds, MqInboxOf
<1>2. Receiver \subseteq Thread
  BY BlockingAssumption
<1> QED BY <1>1, <1>2 DEF MqFilled, MqReceived

\* An item goes from the free list into the queue.
LEMMA MqQueuesItem ==
    ASSUME NEW m, NEW h, MqPool(m, h), NEW v \in Message, m.free # << >>
    PROVE  LET i == Head(m.free)
               z == MqPut(MqTook(m, v), Append(m.queue, i))
           IN  /\ MqPool(z, h) /\ i \in MqItem /\ i \notin ToSet(m.queue)
               /\ \A u \in Thread : h[u] # i
               /\ ToSet(z.queue) = ToSet(m.queue) \cup {i}
               /\ z.queue = Append(m.queue, i) /\ z.entry = m.entry + 1
               /\ Len(z.free) = Len(m.free) - 1
               /\ z.data[i] = v /\ \A k \in MqItem \ {i} : z.data[k] = m.data[k]
<1> DEFINE i == Head(m.free)
           z == MqPut(MqTook(m, v), Append(m.queue, i))
<1>1. /\ Tail(m.free) \in Seq(MqItem) /\ i \in MqItem /\ i \in ToSet(m.free)
      /\ IsInjective(Tail(m.free)) /\ ToSet(Tail(m.free)) = ToSet(m.free) \ {i}
      /\ Len(Tail(m.free)) = Len(m.free) - 1
  BY MqParts, TailElements
<1>2. i \notin ToSet(m.queue) /\ \A u \in Thread : h[u] # i
  BY <1>1, MqParts DEF MqPool
<1>3. /\ z.free = Tail(m.free) /\ z.queue = Append(m.queue, i) /\ z.entry = m.entry + 1
      /\ z.data = [m.data EXCEPT ![i] = v]
      /\ z = [free |-> z.free, queue |-> z.queue, entry |-> z.entry, data |-> z.data]
  BY DEF MqTook, MqPut
<1> HIDE DEF i, z
<1>4. /\ z.queue \in Seq(MqItem) /\ IsInjective(z.queue)
      /\ ToSet(z.queue) = ToSet(m.queue) \cup {i} /\ Len(z.queue) = Len(m.queue) + 1
  <2>1. m.queue \in Seq(MqItem) /\ IsInjective(m.queue)
    BY MqParts
  <2>2. Len(Append(m.queue, i)) = Len(m.queue) + 1
    BY <1>1, <2>1
  <2> QED BY <1>1, <1>2, <1>3, <2>1, <2>2, AppendElements
<1>5. /\ z.data \in [MqItem -> Message \cup {Nil}] /\ z.data[i] = v
      /\ \A k \in MqItem \ {i} : z.data[k] = m.data[k]
  BY <1>1, <1>3, MqParts
<1>6. z \in MqState
  <2>1. m.entry + 1 \in Nat
    BY MqParts
  <2> QED BY <1>1, <1>3, <1>4, <1>5, <2>1 DEF MqState
<1>7. ASSUME NEW u \in Thread, h[u] # Nil
      PROVE  /\ h[u] \notin ToSet(z.free) /\ h[u] \notin ToSet(z.queue)
             /\ \A w \in Thread \ {u} : h[w] # h[u]
  BY <1>1, <1>2, <1>3, <1>4, <1>7 DEF MqPool
<1>8. ASSUME NEW x \in MqItem
      PROVE  x \in ToSet(z.free) \/ x \in ToSet(z.queue) \/ \E u \in Thread : h[u] = x
  BY <1>1, <1>3, <1>4 DEF MqPool
<1>9. MqPool(z, h)
  BY <1>1, <1>2, <1>3, <1>4, <1>6, <1>7, <1>8, MqParts DEF MqPool
<1> QED BY <1>1, <1>2, <1>3, <1>4, <1>5, <1>9 DEF i, z

LEMMA MqIsrStep ==
    ASSUME MqInv, IsrMqSend
    PROVE  MqGood
<1>1. CASE UNCHANGED queueVars
  <2>1. UNCHANGED <<s, pc, loc, mq, hand>>
    BY <1>1 DEF queueVars, threadVars
  <2>2. MqInv'
    BY <2>1 DEF MqInv
  <2>3. MqChan' = MqChan /\ MqBox' = MqBox
    BY <2>1 DEF MqChan, MqBox
  <2> QED BY <2>2, <2>3, MqStutters
<1> DEFINE i == Head(mq.free)
           w(v) == MqTook(mq, v)
           z(v) == MqPut(w(v), Append(mq.queue, i))
<1>2. ASSUME NEW v \in Message, v \notin Urgent, mq.free # << >>, mq' = z(v),
             s' = ResumeOne(s, suspend_thread), UNCHANGED <<pc, loc, hand>>
      PROVE  MqGood
  <2> DEFINE a == w(v)
             b == z(v)
  <2>1. /\ Flow(s, pc, MqWhere, MqThere(mq)) /\ Locals(pc, loc, MqCarries)
        /\ MqPool(mq, hand) /\ MqFilled(mq, hand, pc, loc)
        /\ \A k \in ToSet(mq.queue) : mq.data[k] \in Message
        /\ IsFiniteSet(MqItem)
    BY MessageQueueAssumption DEF MqInv, MqFilled
  <2>2. /\ MqPool(b, hand) /\ i \in MqItem /\ i \notin ToSet(mq.queue)
        /\ \A u \in Thread : hand[u] # i
        /\ ToSet(b.queue) = ToSet(mq.queue) \cup {i}
        /\ b.queue = Append(mq.queue, i) /\ b.entry = mq.entry + 1
        /\ Len(b.free) = Len(mq.free) - 1
        /\ b.data[i] = v /\ \A k \in MqItem \ {i} : b.data[k] = mq.data[k]
    BY <1>2, <2>1, MqQueuesItem
  <2>3. a.queue = mq.queue /\ b.data = a.data
    BY DEF MqTook, MqPut
  <2> HIDE DEF a, b, i
  <2>4. ToSet(mq.queue) \subseteq MqItem /\ mq.queue \in Seq(MqItem) /\ IsInjective(mq.queue)
        /\ \A u \in Thread : hand[u] # Nil => hand[u] \in MqItem
    BY <2>1, MqParts
  <2>5. MqFilled(b, hand, pc, loc) /\ MqReceived(b, hand, pc, loc) = MqBox
    <3>1. \A u \in Thread : hand[u] # Nil => b.data[hand[u]] = mq.data[hand[u]]
      BY <2>2, <2>4
    <3>2. \A k \in ToSet(b.queue) : b.data[k] \in Message
      BY <2>1, <2>2, <2>4
    <3> QED BY <2>1, <3>1, <3>2, MqStays DEF MqBox
  <2>6. MqMessages(b) = Append(MqMessages(mq), v)
    <3>1. MqMessages(a) = MqMessages(mq)
      BY <2>2, <2>3, <2>4, MqSameMessages
    <3>2. MqMessages(b) = Append(MqMessages(a), a.data[i])
      BY ZenonT(60), <2>2, <2>3, <2>4, MqAppended
    <3> QED BY <2>2, <2>3, <3>1, <3>2
  <2>7. Len(MqChan) < mq_max_msgs
    <3>1. Len(mq.queue) < Cardinality(MqItem)
      BY <2>1, <2>2, <2>4, LeavesOut
    <3> QED BY <2>1, <3>1, MqMessagesAre DEF MqChan, mq_max_msgs
  <2>8. mq' = b /\ pc' = pc /\ loc' = loc /\ hand' = hand
    BY <1>2 DEF b, i
  <2>9. MqBox' = MqBox /\ MqChan' = Append(MqChan, v)
    BY <2>5, <2>6, <2>8 DEF MqBox, MqChan
  <2>10. MqChannel!Next
    BY <1>2, <2>7, <2>9, MqSteps
  <2>11. Flow(s', pc, MqWhere, MqThere(b))
    <3> DEFINE e == mq.entry
               f == Len(mq.free)
    <3>1. /\ e \in Int /\ f \in Int /\ f - 1 \in Int /\ MqThere(b) = MqCount(e + 1, f - 1)
          /\ Flow(s, pc, MqWhere, MqCount(e, f))
      BY <2>1, <2>2, MqParts DEF MqThere
    <3> HIDE DEF e, f
    <3>2. \A x \in DOMAIN MqWhere : MqCount(e, f - 1)[x] <= MqCount(e, f)[x]
      BY <3>1, MqCountIs, MqPlace
    <3>3. Counts(MqWhere, MqCount(e, f - 1))
      BY <3>1, MqCountIs
    <3>4. Flow(s, pc, MqWhere, MqCount(e, f - 1))
      <4> DEFINE n == MqCount(e, f)
                 m == MqCount(e, f - 1)
      <4>1. /\ Flow(s, pc, MqWhere, n) /\ Counts(MqWhere, m)
            /\ \A x \in DOMAIN MqWhere : m[x] <= n[x]
        BY <3>1, <3>2, <3>3
      <4> HIDE DEF n, m
      <4>2. Flow(s, pc, MqWhere, m)
        BY <4>1, FlowLess
      <4> QED BY <4>2 DEF m
    <3>5. Flow(ResumeOne(s, suspend_thread), pc, MqWhere, MqCount(e + 1, f - 1))
      BY <3>1, <3>4, MqResumesOne
    <3> QED BY <1>2, <3>1, <3>5
  <2>12. MqInv'
    BY <2>1, <2>2, <2>5, <2>8, <2>11 DEF MqInv, Locals
  <2> QED BY <2>10, <2>12 DEF MqGood
<1>3. \A v : [mq EXCEPT !.free = Tail(@), !.data[Head(mq.free)] = v,
                        !.queue = Append(@, Head(mq.free)), !.entry = @ + 1] = z(v)
  BY MqFields DEF MqInv
<1>4. CASE /\ mq.free # << >>
           /\ \E v \in Message \ Urgent :
                  mq' = [mq EXCEPT !.free = Tail(@), !.data[Head(mq.free)] = v,
                                   !.queue = Append(@, Head(mq.free)), !.entry = @ + 1]
           /\ s' = ResumeOne(s, suspend_thread) /\ UNCHANGED <<pc, loc, hand>>
  <2>1. PICK v \in Message \ Urgent : mq' = z(v)
    BY <1>3, <1>4
  <2> HIDE DEF z
  <2> QED BY <1>2, <1>4, <2>1
<1> QED BY <1>1, <1>4 DEF IsrMqSend

LEMMA MqResetStep ==
    ASSUME MqInv, NEW t \in Thread, MqReset(t)
    PROVE  MqGood
<1> DEFINE w == "mq_recv_wait"
           x == "mq_send_wait"
           q == rt_ipc_list_resume_all(s, suspend_thread)
           z == MqEmptied(mq)
<1>1. /\ Flow(s, pc, MqWhere, MqThere(mq)) /\ Locals(pc, loc, MqCarries)
      /\ MqPool(mq, hand) /\ MqFilled(mq, hand, pc, loc)
      /\ q = rt_ipc_list_resume_all(s, MqWhere[w])
      /\ s' = rt_ipc_list_resume_all(q, MqWhere[x])
      /\ pc' = pc /\ loc' = loc /\ hand' = hand
      /\ DOMAIN MqWhere = {w, x} /\ w # x
  BY MqPlace DEF MqInv, MqReset
<1>2. mq' = z
  BY <1>1, MqFields DEF MqReset
<1>3. /\ MqPool(z, hand) /\ z.queue = << >> /\ z.entry = 0 /\ z.data = mq.data
  BY <1>1, MqFreesAll DEF MqEmptied
<1> HIDE DEF z, q
<1>4. MqFilled(z, hand, pc, loc) /\ MqReceived(z, hand, pc, loc) = MqBox
  <2>1. \A i \in ToSet(z.queue) : z.data[i] \in Message
    BY <1>3 DEF ToSet
  <2>2. \A u \in Thread : hand[u] # Nil => z.data[hand[u]] = mq.data[hand[u]]
    BY <1>3
  <2> QED BY <1>1, <2>1, <2>2, MqStays DEF MqBox
<1>5. MqBox' = MqBox /\ MqChan' = << >>
  <2>1. MqMessages(z) \in Seq(Message) /\ Len(MqMessages(z)) = 0
    BY <1>3, <1>4, MqMessagesAre
  <2>2. MqMessages(z) = << >>
    BY <2>1, EmptySeq
  <2> QED BY <1>1, <1>2, <1>4, <2>2 DEF MqBox, MqChan
<1>6. MqChannel!Next
  BY <1>5, MqSteps
<1> DEFINE e == mq.entry
           f == Len(mq.free)
           n == MqCount(e, f)
           k == MqCount(0, f)
           m == MqCount(0, Len(z.free))
<1>7. /\ e \in Int /\ f \in Int /\ 0 <= e /\ Len(z.free) \in Int
      /\ MqThere(mq) = n /\ MqThere(z) = m
  BY <1>1, <1>3, MqParts DEF MqThere
<1>8. /\ Counts(MqWhere, n) /\ Counts(MqWhere, k) /\ Counts(MqWhere, m)
      /\ n[w] = e /\ n[x] = f /\ k[w] = 0 /\ k[x] = f /\ m[w] = 0
  BY <1>7, MqCountIs
<1>9. Flow(s, pc, MqWhere, n)
  BY <1>1, <1>7
<1> HIDE DEF w, x, e, f, n, k, m
<1>10. Flow(q, pc, MqWhere, k)
  <2>1. \A v \in DOMAIN MqWhere \ {w} : k[v] <= n[v]
    BY <1>1, <1>7, <1>8
  <2> QED BY <1>1, <1>8, <1>9, <2>1, FlowEmpties
<1>11. Flow(s', pc, MqWhere, m)
  <2> DEFINE r == s'
  <2>1. r = rt_ipc_list_resume_all(q, MqWhere[x])
        /\ \A v \in DOMAIN MqWhere \ {x} : m[v] <= k[v]
    BY <1>1, <1>8
  <2> HIDE DEF r
  <2>2. Flow(r, pc, MqWhere, m)
    BY <1>1, <1>8, <1>10, <2>1, FlowEmpties
  <2> QED BY <2>2 DEF r
<1>12. MqInv'
  BY <1>1, <1>2, <1>3, <1>4, <1>7, <1>11 DEF MqInv, Locals
<1> QED BY <1>6, <1>12 DEF MqGood

LEMMA MqNextStep ==
    ASSUME MqInv, [MessageQueueNext]_queueVars
    PROVE  MqGood
<1>0. /\ Sender \cup Receiver \cup Resetter \subseteq Thread /\ Nil \notin Message
      /\ Urgent \subseteq Message
      /\ Waits(s, pc, MqWhere) /\ Locals(pc, loc, MqCarries) /\ MqPool(mq, hand)
      /\ MqThere(mq)["mq_recv_wait"] = mq.entry
      /\ MqThere(mq)["mq_send_wait"] = Len(mq.free)
      /\ DOMAIN MqWhere = {"mq_recv_wait", "mq_send_wait"}
      /\ MqWhere["mq_recv_wait"] = suspend_thread
      /\ MqWhere["mq_send_wait"] = suspend_sender_thread
      /\ mq.entry \in Nat /\ Len(<< >>) = 0
  BY BlockingAssumption, MessageQueueAssumption, MqPlace, MqThereIs DEF MqInv, Flow
<1>1. CASE UNCHANGED queueVars
  <2>1. UNCHANGED <<s, pc, loc, mq, hand>>
    BY <1>1 DEF queueVars, threadVars
  <2>2. MqInv'
    BY <2>1 DEF MqInv
  <2>3. MqChan' = MqChan /\ MqBox' = MqBox
    BY <2>1 DEF MqChan, MqBox
  <2> QED BY <2>2, <2>3, MqStutters
<1>2. ASSUME NEW t \in Sender, MqSend(t) PROVE MqGood
  <2>1. PICK v \in Message \ Urgent, time \in Time :
            Begin(t, "mq_send", time, v) /\ mq' = mq /\ hand' = hand
    BY <1>2 DEF MqSend
  <2> QED BY <1>0, <2>1, MqBegins
<1>3. ASSUME NEW t \in Sender, MqUrgent(t) PROVE MqGood
  <2>1. PICK v \in Urgent : Begin(t, "mq_urgent", "no", v) /\ mq' = mq /\ hand' = hand
    BY <1>3 DEF MqUrgent
  <2>2. "no" \in Time
    BY DEF Time
  <2> QED BY <1>0, <2>1, <2>2, MqBegins
<1>4. ASSUME NEW t \in Sender, MqAllocate(t) PROVE MqGood
  BY <1>4, MqAllocateStep
<1>5. ASSUME NEW t \in Sender, MqSendFull(t) PROVE MqGood
  <2>1. /\ t \in Thread /\ t \notin s.asleep /\ pc[t] \in {"mq_send", "mq_send_wait", "mq_urgent"}
        /\ mq.free = << >> /\ Return(t) /\ s' = s /\ mq' = mq /\ hand' = hand
    BY <1>0, <1>5, TestIs DEF MqSendFull, Runs
  <2>2. \A w \in DOMAIN MqWhere : pc[t] = w => MqThere(mq)[w] <= 0
    BY <1>0, <2>1
  <2>3. pc[t] \notin MqHolds
    BY <2>1 DEF MqHolds
  <2> QED BY <2>1, <2>2, <2>3, MqReturns
<1>6. ASSUME NEW t \in Sender, MqSendWait(t) PROVE MqGood
  <2>1. /\ t \in Thread /\ t \notin s.asleep /\ (pc[t] = "mq_send" \/ pc[t] = "mq_send_wait")
        /\ mq.free = << >> /\ mq' = mq /\ hand' = hand /\ TimeLeft(t, "mq_send") \subseteq Time
    BY <1>0, <1>6, TestIs DEF MqSendWait
  <2>2. PICK time \in Time : SuspendSelf(t, suspend_sender_thread, time, "mq_send_wait")
    BY <1>6, <2>1 DEF MqSendWait
  <2>3. MqThere(mq)["mq_send_wait"] <= 0
    BY <1>0, <2>1
  <2> QED BY <1>0, <2>1, <2>2, <2>3, MqWaits
<1>7. ASSUME NEW t \in Sender, MqSendFails(t) PROVE MqGood
  BY <1>0, <1>7, MqFails DEF MqSendFails
<1>8. ASSUME NEW t \in Sender, MqLink(t) PROVE MqGood
  BY <1>8, MqLinkStep
<1>9. ASSUME NEW t \in Receiver, MqRecv(t) PROVE MqGood
  <2>1. PICK time \in Time : Begin(t, "mq_recv", time, Nil) /\ mq' = mq /\ hand' = hand
    BY <1>9 DEF MqRecv
  <2> QED BY <1>0, <2>1, MqBegins
<1>10. ASSUME NEW t \in Receiver, MqUnlink(t) PROVE MqGood
  BY <1>10, MqUnlinkStep
<1>11. ASSUME NEW t \in Receiver, MqRecvEmpty(t) PROVE MqGood
  <2>1. /\ t \in Thread /\ t \notin s.asleep /\ (pc[t] = "mq_recv" \/ pc[t] = "mq_recv_wait")
        /\ mq.entry = 0 /\ Return(t) /\ s' = s /\ mq' = mq /\ hand' = hand
    BY <1>0, <1>11, TestIs DEF MqRecvEmpty
  <2>2. \A w \in DOMAIN MqWhere : pc[t] = w => MqThere(mq)[w] <= 0
    BY <1>0, <2>1
  <2>3. pc[t] \notin MqHolds
    BY <2>1 DEF MqHolds
  <2> QED BY <2>1, <2>2, <2>3, MqReturns
<1>12. ASSUME NEW t \in Receiver, MqRecvWait(t) PROVE MqGood
  <2>1. /\ t \in Thread /\ t \notin s.asleep /\ (pc[t] = "mq_recv" \/ pc[t] = "mq_recv_wait")
        /\ mq.entry = 0 /\ mq' = mq /\ hand' = hand /\ TimeLeft(t, "mq_recv") \subseteq Time
    BY <1>0, <1>12, TestIs DEF MqRecvWait
  <2>2. PICK time \in Time : SuspendSelf(t, suspend_thread, time, "mq_recv_wait")
    BY <1>12, <2>1 DEF MqRecvWait
  <2>3. MqThere(mq)["mq_recv_wait"] <= 0
    BY <1>0, <2>1
  <2> QED BY <1>0, <2>1, <2>2, <2>3, MqWaits
<1>13. ASSUME NEW t \in Receiver, MqRecvFails(t) PROVE MqGood
  BY <1>0, <1>13, MqFails DEF MqRecvFails
<1>14. ASSUME NEW t \in Receiver, MqCopied(t) PROVE MqGood
  BY <1>14, MqCopiedStep
<1>15. ASSUME NEW t \in Receiver, MqFree(t) PROVE MqGood
  BY <1>15, MqFreeStep
<1>16. ASSUME NEW t \in Resetter, MqReset(t) PROVE MqGood
  BY <1>0, <1>16, MqResetStep
<1>17. CASE IsrMqSend
  BY <1>17, MqIsrStep
<1>18. ASSUME NEW t \in Thread, TimerExpires(t), UNCHANGED <<mq, hand>> PROVE MqGood
  BY <1>18, MqExpires
<1> QED BY <1>1, <1>2, <1>3, <1>4, <1>5, <1>6, <1>7, <1>8, <1>9, <1>10, <1>11, <1>12, <1>13,
           <1>14, <1>15, <1>16, <1>17, <1>18 DEF MessageQueueNext

LEMMA MqFirstPool ==
    ASSUME MqInit
    PROVE  /\ MqPool(mq, hand)
           /\ mq.queue = << >> /\ mq.queue \in Seq(MqItem) /\ Len(mq.queue) = 0
           /\ ToSet(mq.queue) = {} /\ hand = [t \in Thread |-> Nil]
<1>1. /\ IsFiniteSet(MqItem) /\ Nil \notin MqItem
      /\ SetToSeq(MqItem) \in Seq(MqItem) /\ IsInjective(SetToSeq(MqItem))
      /\ ToSet(SetToSeq(MqItem)) = MqItem
  BY MessageQueueAssumption, SetToSeqElements
<1>2. /\ mq.free = SetToSeq(MqItem) /\ mq.queue = << >> /\ mq.entry = 0
      /\ mq.data = [i \in MqItem |-> Nil]
      /\ mq = [free |-> mq.free, queue |-> mq.queue, entry |-> mq.entry, data |-> mq.data]
      /\ hand = [t \in Thread |-> Nil]
  BY DEF MqInit
<1>3. mq.queue \in Seq(MqItem) /\ Len(mq.queue) = 0 /\ IsInjective(mq.queue) /\ ToSet(mq.queue) = {}
  BY <1>2 DEF IsInjective, ToSet
<1>4. MqPool(mq, hand)
  <2>1. mq.data \in [MqItem -> Message \cup {Nil}] /\ mq.free \in Seq(MqItem) /\ mq.entry \in Nat
    BY <1>1, <1>2
  <2>2. mq \in MqState
    BY <1>2, <1>3, <2>1 DEF MqState
  <2> QED BY <1>1, <1>2, <1>3, <2>2 DEF MqPool
<1> QED BY <1>2, <1>3, <1>4

LEMMA MqFirst ==
    ASSUME BlockingInit, MqInit
    PROVE  MqInv /\ MqChannel!Init
<1>2. hand = [t \in Thread |-> Nil] /\ pc = [t \in Thread |-> "user"]
  BY MqFirstPool DEF BlockingInit
<1>3. mq.queue \in Seq(MqItem) /\ Len(mq.queue) = 0 /\ ToSet(mq.queue) = {}
  BY MqFirstPool
<1>4. MqPool(mq, hand)
  BY MqFirstPool
<1>5. MqFilled(mq, hand, pc, loc)
  BY <1>2, <1>3 DEF MqFilled, MqCall, MqHolds
<1>6. MqInv
  <2> DEFINE n == MqThere(mq)
  <2>1. Counts(MqWhere, n) /\ "user" \notin MqCarries
    BY <1>4, MqThereIs DEF MqCarries
  <2> HIDE DEF n
  <2>2. Flow(s, pc, MqWhere, n) /\ Locals(pc, loc, MqCarries)
    BY <2>1, MqPlace, FirstFlow
  <2> QED BY <1>4, <1>5, <2>2 DEF MqInv, n
<1>7. MqMessages(mq) = << >>
  <2>1. MqMessages(mq) \in Seq(Message) /\ Len(MqMessages(mq)) = 0
    BY <1>3, <1>4, <1>5, MqMessagesAre
  <2> QED BY <2>1, EmptySeq
<1>8. MqReceived(mq, hand, pc, loc) = [t \in Receiver |-> Nil]
  <2>1. Receiver \subseteq Thread
    BY BlockingAssumption
  <2> QED BY <1>2, <2>1 DEF MqReceived, MqInboxOf
<1>9. MqChannel!Init
  BY <1>7, <1>8, MqChannelIs DEF MqChannel!Init
<1> QED BY <1>6, <1>9

\* A message queue is a bounded channel, first in first out but for urgent
\* messages, which come before the others: for any number of threads that
\* send, receive and reset, for any number of items, beside interrupts that
\* send and timers that expire, although messages are copied with interrupts
\* enabled.
THEOREM MessageQueueIsAChannel == MessageQueueSpec => MqImplementsChannel
<1>1. BlockingInit /\ MqInit => MqInv /\ MqChannel!Init
  BY MqFirst
<1>2. MqInv /\ [MessageQueueNext]_queueVars => MqInv' /\ [MqChannel!Next]_MqChannel!vars
  BY MqNextStep DEF MqGood
<1> QED BY <1>1, <1>2, PTL DEF MessageQueueSpec, MqImplementsChannel, MqChannel!Spec

-----------------------------------------------------------------------------
(* The memory pool.                                                        *)

Holder == Thread \cup {"isr"}

\* MpBlocksConserved, with the types
MpBlocks(m) ==
    /\ m \in [free : Seq(Block), count : Nat, held : [Holder -> SUBSET Block]]
    /\ m.count = Len(m.free) /\ IsInjective(m.free)
    /\ \A h \in Holder : m.held[h] \cap ToSet(m.free) = {}
    /\ \A h, g \in Holder : h # g => m.held[h] \cap m.held[g] = {}
    /\ \A b \in Block : b \in ToSet(m.free) \/ \E h \in Holder : b \in m.held[h]

MpWhere == [w \in {"mp_alloc_wait"} |-> suspend_thread]

\* c blocks for those who allocate
MpCount(c) == [w \in DOMAIN MpWhere |-> c]

MpInv == Flow(s, pc, MpWhere, MpCount(pool.count)) /\ Locals(pc, loc, {}) /\ MpBlocks(pool)

LEMMA MpPlace ==
    /\ DOMAIN MpWhere = {"mp_alloc_wait"} /\ MpWhere["mp_alloc_wait"] = suspend_thread
    /\ WaitPlaces(MpWhere)
BY BlockingAssumption DEF MpWhere, WaitPlaces

LEMMA MpCountIs ==
    ASSUME NEW c \in Int
    PROVE  Counts(MpWhere, MpCount(c)) /\ \A w \in DOMAIN MpWhere : MpCount(c)[w] = c
BY DEF Counts, MpCount

LEMMA MpParts ==
    ASSUME NEW m, MpBlocks(m)
    PROVE  /\ m = [free |-> m.free, count |-> m.count, held |-> m.held]
           /\ m.free \in Seq(Block) /\ IsInjective(m.free) /\ m.count \in Nat
           /\ m.held \in [Holder -> SUBSET Block] /\ m.count = Len(m.free)
           /\ m.count \in Int /\ m.count >= 0
BY DEF MpBlocks

\* A block is taken, by whoever h is.
LEMMA MpTakesBlock ==
    ASSUME MpBlocks(pool), pool.count > 0, NEW h \in Holder
    PROVE  MpBlocks(MpTaken(h)) /\ MpTaken(h).count = pool.count - 1
<1> DEFINE b == Head(pool.free)
           f == Tail(pool.free)
           c == pool.count - 1
           k == [pool.held EXCEPT ![h] = @ \cup {b}]
           z == [free |-> f, count |-> c, held |-> k]
<1>1. MpTaken(h) = z
  <2> DEFINE x == [pool EXCEPT !.count = c]
             y == [x EXCEPT !.free = f]
  <2>1. x = [free |-> pool.free, count |-> c, held |-> pool.held]
    <3> HIDE DEF c
    <3> QED BY MpParts
  <2>2. MpTaken(h) = [y EXCEPT !.held = k]
    BY MpParts DEF MpTaken
  <2> HIDE DEF x, f, k, c
  <2>3. y = [free |-> f, count |-> c, held |-> pool.held]
    BY <2>1
  <2> HIDE DEF y
  <2> QED BY <2>2, <2>3
<1>2. pool.free # << >> /\ c \in Nat
  BY MpParts
<1>3. /\ f \in Seq(Block) /\ b \in Block /\ b \in ToSet(pool.free) /\ IsInjective(f)
      /\ ToSet(f) = ToSet(pool.free) \ {b} /\ Len(f) = c
  BY <1>2, MpParts, TailElements
<1>4. /\ k \in [Holder -> SUBSET Block] /\ k[h] = pool.held[h] \cup {b}
      /\ \A g \in Holder \ {h} : k[g] = pool.held[g]
  BY <1>3, MpParts
<1>5. \A g \in Holder : b \notin pool.held[g]
  BY <1>3 DEF MpBlocks
<1> HIDE DEF b, f, c, k
<1>6. \A g \in Holder : k[g] \cap ToSet(f) = {}
  BY <1>3, <1>4 DEF MpBlocks
<1>7. \A g, u \in Holder : g # u => k[g] \cap k[u] = {}
  BY <1>4, <1>5 DEF MpBlocks
<1>8. ASSUME NEW x \in Block PROVE x \in ToSet(f) \/ \E g \in Holder : x \in k[g]
  <2>1. x \in ToSet(pool.free) \/ \E g \in Holder : x \in pool.held[g]
    BY DEF MpBlocks
  <2> QED BY <1>3, <1>4, <2>1
<1>9. MpBlocks(z)
  BY <1>2, <1>3, <1>4, <1>6, <1>7, <1>8 DEF MpBlocks
<1> QED BY <1>1, <1>9 DEF c

\* A block that h holds is given back.
LEMMA MpGivesBlock ==
    ASSUME MpBlocks(pool), NEW h \in Holder, NEW b \in pool.held[h]
    PROVE  MpBlocks(MpReturned(h, b)) /\ MpReturned(h, b).count = pool.count + 1
<1> DEFINE f == <<b>> \o pool.free
           c == pool.count + 1
           k == [pool.held EXCEPT ![h] = @ \ {b}]
           z == [free |-> f, count |-> c, held |-> k]
<1>1. MpReturned(h, b) = z
  <2> DEFINE x == [pool EXCEPT !.count = c]
             y == [x EXCEPT !.free = f]
  <2>1. x = [free |-> pool.free, count |-> c, held |-> pool.held]
    <3> HIDE DEF c
    <3> QED BY MpParts
  <2>2. MpReturned(h, b) = [y EXCEPT !.held = k]
    BY MpParts DEF MpReturned
  <2> HIDE DEF x, f, k, c
  <2>3. y = [free |-> f, count |-> c, held |-> pool.held]
    BY <2>1
  <2> HIDE DEF y
  <2> QED BY <2>2, <2>3
<1>2. c \in Nat /\ b \in Block /\ b \notin ToSet(pool.free)
  BY MpParts DEF MpBlocks
<1>3. /\ f \in Seq(Block) /\ IsInjective(f) /\ ToSet(f) = ToSet(pool.free) \cup {b}
      /\ Len(f) = c
  BY <1>2, MpParts, PrependElements
<1>4. /\ k \in [Holder -> SUBSET Block] /\ k[h] = pool.held[h] \ {b}
      /\ \A g \in Holder \ {h} : k[g] = pool.held[g]
  BY <1>2, MpParts
<1>5. \A g \in Holder \ {h} : b \notin pool.held[g]
  BY DEF MpBlocks
<1> HIDE DEF f, c, k
<1>6. \A g \in Holder : k[g] \cap ToSet(f) = {}
  BY <1>3, <1>4, <1>5 DEF MpBlocks
<1>7. \A g, u \in Holder : g # u => k[g] \cap k[u] = {}
  BY <1>4 DEF MpBlocks
<1>8. ASSUME NEW x \in Block PROVE x \in ToSet(f) \/ \E g \in Holder : x \in k[g]
  <2>1. x \in ToSet(pool.free) \/ \E g \in Holder : x \in pool.held[g]
    BY DEF MpBlocks
  <2> QED BY <1>3, <1>4, <2>1
<1>9. MpBlocks(z)
  BY <1>2, <1>3, <1>4, <1>6, <1>7, <1>8 DEF MpBlocks
<1> QED BY <1>1, <1>9 DEF c

\* h has passed block b to g
MpPassed(h, g, b) == [pool EXCEPT !.held[h] = @ \ {b}, !.held[g] = @ \cup {b}]

\* A block goes from hand to hand.
LEMMA MpPassesBlock ==
    ASSUME MpBlocks(pool), NEW h \in Holder, NEW g \in Holder, h # g, NEW b \in pool.held[h],
           NEW z, z = MpPassed(h, g, b)
    PROVE  MpBlocks(z) /\ z.count = pool.count
<1> DEFINE k == [[pool.held EXCEPT ![h] = @ \ {b}] EXCEPT ![g] = @ \cup {b}]
<1>1. z = [free |-> pool.free, count |-> pool.count, held |-> k]
  <2>1. z = [pool EXCEPT !.held = k]
    BY MpParts DEF MpPassed
  <2> HIDE DEF k
  <2> QED BY <2>1, MpParts
<1>2. b \in Block
  BY MpParts
<1>3. /\ k \in [Holder -> SUBSET Block] /\ k[h] = pool.held[h] \ {b}
      /\ k[g] = pool.held[g] \cup {b}
      /\ \A u \in Holder \ {h, g} : k[u] = pool.held[u]
  BY <1>2, MpParts
<1>4. /\ b \notin ToSet(pool.free) /\ \A u \in Holder \ {h} : b \notin pool.held[u]
  BY DEF MpBlocks
<1> HIDE DEF k
<1>5. \A u \in Holder : k[u] \cap ToSet(pool.free) = {}
  BY <1>3, <1>4 DEF MpBlocks
<1>6. \A u, v \in Holder : u # v => k[u] \cap k[v] = {}
  <2> SUFFICES ASSUME NEW u \in Holder, NEW v \in Holder, u # v, NEW x \in k[u], x \in k[v]
               PROVE  FALSE
    OBVIOUS
  <2>1. CASE x = b
    BY <1>3, <1>4, <2>1
  <2>2. CASE x # b
    <3>1. x \in pool.held[u] /\ x \in pool.held[v]
      BY <1>3, <2>2
    <3> QED BY <3>1 DEF MpBlocks
  <2> QED BY <2>1, <2>2
<1>7. ASSUME NEW x \in Block PROVE x \in ToSet(pool.free) \/ \E u \in Holder : x \in k[u]
  <2>1. x \in ToSet(pool.free) \/ \E u \in Holder : x \in pool.held[u]
    BY DEF MpBlocks
  <2> QED BY <1>3, <2>1
<1>8. MpBlocks(z)
  BY <1>1, <1>3, <1>5, <1>6, <1>7, MpParts DEF MpBlocks
<1> QED BY <1>1, <1>8

\* Whoever is resumed for a block has no error that is to be cleared.
LEMMA AfterMpFreeIs ==
    ASSUME NEW j, NEW p, Waits(j, p, MpWhere)
    PROVE  AfterMpFree(j) = ResumeOne(j, suspend_thread)
<1> DEFINE l == suspend_thread
           h == Head(j.list[l])
           r == rt_ipc_list_resume(j, l)
<1>1. CASE j.list[l] = << >>
  BY <1>1 DEF AfterMpFree, ResumeOne
<1>2. CASE j.list[l] # << >>
  <2>1. l \in WaitList /\ Sleepers(j)
    BY BlockingAssumption DEF Waits
  <2>2. h \in j.asleep
    BY <1>2, <2>1, HeadIs
  <2>3. Sleepers(r) /\ r.error = j.error /\ j.error[h] = "EOK" /\ h \in Thread
    <3>1. r = rt_thread_resume(j, h) /\ j.error[h] = "EOK" /\ h \in Thread
      BY <2>1, <2>2 DEF rt_ipc_list_resume, Sleepers, SleepState
    <3> HIDE DEF h, r
    <3> QED BY <2>1, <2>2, <3>1, ResumeIs
  <2>4. AfterMpFree(j) = [r EXCEPT !.error[h] = "EOK"] /\ ResumeOne(j, l) = r
    BY <1>2 DEF AfterMpFree, ResumeOne
  <2> HIDE DEF h, r, l
  <2>5. [r EXCEPT !.error[h] = "EOK"] = r
    <3>1. [r.error EXCEPT ![h] = "EOK"] = r.error
      BY <2>3 DEF Sleepers, SleepState
    <3> QED BY <2>3, <3>1 DEF Sleepers, SleepState
  <2> QED BY <2>4, <2>5 DEF l
<1> QED BY <1>1, <1>2

\* A block is free again, and the first who waits is resumed.
LEMMA MpFrees ==
    ASSUME MpInv, NEW h \in Holder, NEW b \in pool.held[h],
           pool' = MpReturned(h, b), s' = AfterMpFree(s), pc' = pc, loc' = loc
    PROVE  MpInv'
<1> DEFINE c == pool.count
           n == MpCount(c)
           m == MpCount(c + 1)
           w == "mp_alloc_wait"
           r == s'
<1>1. MpBlocks(pool) /\ c \in Int /\ c + 1 \in Int /\ Flow(s, pc, MpWhere, n)
      /\ Waits(s, pc, MpWhere)
  BY MpParts DEF MpInv, Flow
<1>2. MpBlocks(pool') /\ pool'.count = c + 1
  BY <1>1, MpGivesBlock
<1>3. r = ResumeOne(s, MpWhere[w]) /\ w \in DOMAIN MpWhere /\ DOMAIN MpWhere = {w}
  BY <1>1, AfterMpFreeIs, MpPlace
<1>4. Counts(MpWhere, m) /\ n[w] = c /\ m[w] = c + 1
  BY <1>1, <1>3, MpCountIs
<1> HIDE DEF c, n, m, w, r
<1>5. Flow(r, pc, MpWhere, m)
  <2>1. m[w] <= n[w] + 1 /\ \A v \in DOMAIN MpWhere \ {w} : m[v] <= n[v]
    BY <1>1, <1>3, <1>4
  <2> QED BY <1>1, <1>3, <1>4, <2>1, FlowResumes
<1> QED BY <1>2, <1>5 DEF MpInv, Locals, r, m

\* Nobody sleeps or wakes, and no block comes.
LEMMA MpStill ==
    ASSUME MpInv, SameSleepers(MpWhere), Waits(s', pc', MpWhere), Locals(pc', loc', {}),
           pool' = pool
    PROVE  MpInv'
<1>1. Flow(s', pc', MpWhere, MpCount(pool.count))
  BY FlowTimes DEF MpInv, SameSleepers
<1> QED BY <1>1 DEF MpInv

\* A call returns, with a block or with nothing where there is none.
LEMMA MpReturns ==
    ASSUME MpInv, NEW t \in Thread, t \notin s.asleep, Return(t), s' = s, MpBlocks(pool'),
           pool'.count <= 0 \/ pool'.count <= pool.count - 1
    PROVE  MpInv'
<1> DEFINE n == MpCount(pool.count)
           m == MpCount(pool'.count)
           x == "user"
           q == pc'
<1>1. /\ Flow(s, pc, MpWhere, n) /\ Waits(s, pc, MpWhere) /\ Locals(pc, loc, {})
      /\ x \notin DOMAIN MpWhere /\ pool.count \in Int /\ pool'.count \in Int
  BY MpParts, MpPlace DEF MpInv, Flow
<1>2. Locals(pc', loc', {}) /\ q = Placed(pc, t, x)
  BY <1>1, ReturnIs
<1>3. /\ Counts(MpWhere, m)
      /\ \A w \in DOMAIN MpWhere : n[w] = pool.count /\ m[w] = pool'.count
  BY <1>1, MpCountIs
<1> HIDE DEF n, m, x, q
<1>4. \A w \in DOMAIN MpWhere : Takes(pc, t, w, n[w], m[w])
  BY <1>3 DEF Takes
<1>5. Flow(s, q, MpWhere, m)
  BY <1>1, <1>2, <1>3, <1>4, FlowGoes
<1> QED BY <1>2, <1>5 DEF MpInv, q, m

LEMMA MpWaitStep ==
    ASSUME MpInv, NEW t \in Thread, MpAllocWait(t)
    PROVE  MpInv'
<1> DEFINE n == MpCount(pool.count)
           w == "mp_alloc_wait"
           q == pc'
           r == s'
<1>1. /\ Flow(s, pc, MpWhere, n) /\ Waits(s, pc, MpWhere) /\ Locals(pc, loc, {})
      /\ DOMAIN MpWhere = {w} /\ MpWhere[w] = suspend_thread /\ MpWhere[w] \in WaitList
      /\ Sleepers(s) /\ s \in SleepState /\ pool.count \in Int
  BY MpParts, MpPlace, BlockingAssumption DEF MpInv, Flow, Waits, Sleepers
<1>2. t \notin s.asleep /\ TimeLeft(t, "mp_alloc") \subseteq Time /\ pool.count = 0
  BY <1>1, TestIs DEF MpAllocWait
<1>3. PICK time \in Time :
          /\ s' = PushedBy(s, suspend_thread, t, time)
          /\ Goto(t, "mp_alloc_wait") /\ loc' = [loc EXCEPT ![t].time = time]
          /\ pool' = pool
  BY <1>2 DEF MpAllocWait, PushedBy
<1>4. r = Pushed(s, MpWhere[w], t, time)
  <2> HIDE DEF w
  <2>1. Pushed(s, MpWhere[w], t, time) = Pushed(s, suspend_thread, t, time)
    BY <1>1
  <2> QED BY <1>1, <1>3, <2>1, PushedFields
<1>5. q = Placed(pc, t, w) /\ n[w] <= 0
  BY <1>1, <1>2, <1>3, MpCountIs DEF Goto, Placed
<1>6. Locals(pc', loc', {})
  BY <1>1, <1>3 DEF Locals
<1> HIDE DEF n, w, q, r
<1>7. JoinsAt(s, r, MpWhere[w], t)
  BY <1>1, <1>2, <1>4, PushedJoins
<1>8. Flow(r, q, MpWhere, n)
  BY <1>1, <1>2, <1>5, <1>7, FlowJoins
<1> QED BY <1>3, <1>6, <1>8 DEF MpInv, q, r, n

LEMMA MpNextStep ==
    ASSUME MpInv, [MemPoolNext]_poolVars
    PROVE  MpInv'
<1>0. /\ Waits(s, pc, MpWhere) /\ Locals(pc, loc, {}) /\ MpBlocks(pool)
      /\ Flow(s, pc, MpWhere, MpCount(pool.count))
      /\ "user" \notin DOMAIN MpWhere /\ "mp_alloc" \notin DOMAIN MpWhere
      /\ Thread \subseteq Holder /\ "isr" \in Holder /\ pool.count \in Int
      /\ Nil \in Message \cup {Nil}
  BY MpPlace, MpParts DEF MpInv, Flow, Holder
<1>1. CASE UNCHANGED poolVars
  <2>1. UNCHANGED <<s, pc, loc, pool>>
    BY <1>1 DEF poolVars, threadVars
  <2> QED BY <2>1 DEF MpInv
<1>2. ASSUME NEW t \in Thread, MpAlloc(t) PROVE MpInv'
  <2>1. PICK time \in Time : Begin(t, "mp_alloc", time, Nil) /\ pool' = pool
    BY <1>2 DEF MpAlloc
  <2>2. SameSleepers(MpWhere) /\ Waits(s', pc', MpWhere) /\ Locals(pc', loc', {})
    BY <1>0, <2>1, BeginIs
  <2> QED BY <2>1, <2>2, MpStill
<1>3. ASSUME NEW t \in Thread, MpTake(t) PROVE MpInv'
  <2>1. t \notin s.asleep /\ pool.count > 0 /\ pool' = MpTaken(t) /\ Return(t) /\ s' = s
    BY <1>0, <1>3, TestIs DEF MpTake
  <2>2. MpBlocks(pool') /\ pool'.count = pool.count - 1
    BY <1>0, <2>1, MpTakesBlock
  <2> QED BY <1>0, <2>1, <2>2, MpReturns
<1>4. ASSUME NEW t \in Thread, MpAllocNone(t) PROVE MpInv'
  <2>1. t \notin s.asleep /\ pool.count = 0 /\ pool' = pool /\ Return(t) /\ s' = s
    BY <1>0, <1>4, TestIs DEF MpAllocNone
  <2> QED BY <1>0, <2>1, MpReturns
<1>5. ASSUME NEW t \in Thread, MpAllocWait(t) PROVE MpInv'
  BY <1>5, MpWaitStep
<1>6. ASSUME NEW t \in Thread, MpAllocFails(t) PROVE MpInv'
  <2>1. WaitFails(t, "mp_alloc_wait") /\ pool' = pool
    BY <1>6 DEF MpAllocFails
  <2>2. SameSleepers(MpWhere) /\ Waits(s', pc', MpWhere) /\ Locals(pc', loc', {})
    BY <1>0, <2>1, WaitFailsIs
  <2> QED BY <2>1, <2>2, MpStill
<1>7. ASSUME NEW t \in Thread, NEW b \in Block, MpFree(t, b) PROVE MpInv'
  BY <1>0, <1>7, MpFrees DEF MpFree
<1>8. ASSUME NEW h \in Holder, NEW g \in Holder, NEW b \in Block, MpHandOver(h, g, b)
      PROVE  MpInv'
  <2>1. MpBlocks(pool') /\ pool'.count = pool.count
    <3> DEFINE z == pool'
    <3>1. z = MpPassed(h, g, b) /\ b \in pool.held[h] /\ h # g
      BY <1>8 DEF MpHandOver, MpPassed
    <3> HIDE DEF z
    <3>2. MpBlocks(z) /\ z.count = pool.count
      BY <1>0, <3>1, MpPassesBlock
    <3> QED BY <3>2 DEF z
  <2>2. UNCHANGED <<s, pc, loc>>
    BY <1>8 DEF MpHandOver, threadVars
  <2> QED BY <1>0, <2>1, <2>2 DEF MpInv
<1>9. CASE IsrMpAlloc
  <2>1. pool.count > 0 /\ pool' = MpTaken("isr") /\ UNCHANGED <<s, pc, loc>>
    BY <1>9 DEF IsrMpAlloc, threadVars
  <2> DEFINE h == "isr"
             n == MpCount(pool.count)
             m == MpCount(pool'.count)
  <2>2. pool' = MpTaken(h) /\ h \in Holder
    BY <1>0, <2>1
  <2> HIDE DEF h
  <2>3. MpBlocks(pool') /\ pool'.count = pool.count - 1
    BY <1>0, <2>1, <2>2, MpTakesBlock
  <2>4. /\ Counts(MpWhere, m) /\ Flow(s, pc, MpWhere, n)
        /\ \A w \in DOMAIN MpWhere : m[w] <= n[w]
    <3>1. pool'.count \in Int
      BY <1>0, <2>3
    <3> QED BY <1>0, <2>3, <3>1, MpCountIs
  <2> HIDE DEF m, n
  <2>5. Flow(s, pc, MpWhere, m)
    BY <2>4, FlowLess
  <2> QED BY <1>0, <2>1, <2>3, <2>5 DEF MpInv, m
<1>10. ASSUME NEW b \in Block, IsrMpFree(b) PROVE MpInv'
  BY <1>0, <1>10, MpFrees DEF IsrMpFree
<1>11. ASSUME NEW t \in Thread, TimerExpires(t), UNCHANGED pool PROVE MpInv'
  <2>1. /\ Waits(s', pc', MpWhere) /\ pc' = pc /\ loc' = loc
        /\ \A v : /\ Asleep(s', pc', v) \subseteq Asleep(s, pc, v)
                  /\ Awake(s', pc', v) = Awake(s, pc, v)
    BY <1>0, <1>11, TimerExpiresIs
  <2>2. Flow(s', pc', MpWhere, MpCount(pool.count))
    BY <1>0, <2>1, FlowTimes
  <2> QED BY <1>0, <1>11, <2>1, <2>2 DEF MpInv
<1> QED BY <1>0, <1>1, <1>2, <1>3, <1>4, <1>5, <1>6, <1>7, <1>8, <1>9, <1>10, <1>11
    DEF MemPoolNext

LEMMA MpFirstBlocks ==
    ASSUME MpInit
    PROVE  MpBlocks(pool)
<1>1. /\ SetToSeq(Block) \in Seq(Block) /\ IsInjective(SetToSeq(Block))
      /\ ToSet(SetToSeq(Block)) = Block
  BY MemPoolAssumption, SetToSeqElements
<1>2. Len(SetToSeq(Block)) = Cardinality(Block) /\ Cardinality(Block) \in Nat
  BY MemPoolAssumption, SetToSeqElements, FS_CardinalityType
<1>3. /\ pool = [free |-> pool.free, count |-> pool.count, held |-> pool.held]
      /\ pool.free = SetToSeq(Block) /\ pool.count = Cardinality(Block)
      /\ pool.held = [h \in Holder |-> {}]
  BY DEF MpInit, Holder
<1> QED BY <1>1, <1>2, <1>3 DEF MpBlocks

LEMMA MpFirst ==
    ASSUME BlockingInit, MpInit
    PROVE  MpInv
<1>3. MpBlocks(pool)
  BY MpFirstBlocks
<1> DEFINE n == MpCount(pool.count)
<1>4. Counts(MpWhere, n)
  BY <1>3, MpParts, MpCountIs
<1> HIDE DEF n
<1>5. Flow(s, pc, MpWhere, n) /\ Locals(pc, loc, {})
  BY <1>4, MpPlace, FirstFlow
<1> QED BY <1>3, <1>5 DEF MpInv, n

-----------------------------------------------------------------------------
(* The event.                                                              *)

EvWhere == [w \in {"ev_recv_wait"} |-> suspend_thread]

EvState ==
    [set : SUBSET Bit, want : [Thread -> SUBSET Bit], info : [Thread -> Option]]

\* of the threads of A, none has what it waits for
NoneSatisfied(A, ev) == \A t \in A : ~Satisfied(ev.set, ev.want[t], ev.info[t])

EvInv ==
    /\ Waits(s, pc, EvWhere) /\ Locals(pc, loc, {})
    /\ event \in EvState /\ NoneSatisfied(s.asleep, event)

LEMMA EvPlace ==
    /\ DOMAIN EvWhere = {"ev_recv_wait"} /\ EvWhere["ev_recv_wait"] = suspend_thread
    /\ WaitPlaces(EvWhere)
BY BlockingAssumption DEF EvWhere, WaitPlaces

\* All who sleep wait for the event, and are in its list.
LEMMA EvSleepers ==
    ASSUME NEW j, NEW p, Waits(j, p, EvWhere)
    PROVE  /\ Asleep(j, p, "ev_recv_wait") = j.asleep /\ On(j, suspend_thread) = j.asleep
           /\ j.list[suspend_thread] \in Seq(Thread) /\ IsInjective(j.list[suspend_thread])
<1> DEFINE w == "ev_recv_wait"
<1>1. DOMAIN EvWhere = {w} /\ EvWhere[w] = suspend_thread
  BY EvPlace
<1> HIDE DEF w
<1>2. Asleep(j, p, w) = j.asleep
  BY <1>1 DEF Waits, AtPlaces, Asleep
<1>3. On(j, suspend_thread) = j.asleep
  BY <1>1, <1>2, AsleepIsOn
<1>4. j.list[suspend_thread] \in Seq(Thread) /\ IsInjective(j.list[suspend_thread])
  BY BlockingAssumption DEF Waits, Sleepers, SleepState
<1> QED BY <1>2, <1>3, <1>4 DEF w

\* what a thread that is satisfied reports
Report(ev, t) == IF ev.info[t].all THEN ev.want[t] ELSE ev.want[t] \cap ev.set

\* the event after the satisfied t has been served
Granted(ev, t) ==
    [set |-> IF ev.info[t].clear THEN ev.set \ Report(ev, t) ELSE ev.set,
     want |-> [ev.want EXCEPT ![t] = Report(ev, t)], info |-> ev.info]

LEMMA ServeWaiterIs ==
    ASSUME NEW r, r.ev \in EvState, NEW t \in Thread
    PROVE  ServeWaiter(r, t) =
               IF ~Satisfied(r.ev.set, r.ev.want[t], r.ev.info[t]) THEN r
               ELSE [ss |-> rt_thread_resume(r.ss, t), ev |-> Granted(r.ev, t)]
<1> DEFINE ev == r.ev
           got == Report(ev, t)
           k == [ev.want EXCEPT ![t] = got]
           u == IF ev.info[t].clear THEN ev.set \ got ELSE ev.set
           x == [ev EXCEPT !.want = k]
<1>1. x = [set |-> ev.set, want |-> k, info |-> ev.info]
  <2> HIDE DEF k
  <2> QED BY DEF EvState
<1>2. [ev EXCEPT !.want[t] = got, !.set = IF ev.info[t].clear THEN @ \ got ELSE @]
        = [x EXCEPT !.set = u]
  BY DEF EvState
<1> HIDE DEF x
<1>3. [x EXCEPT !.set = u] = [set |-> u, want |-> k, info |-> ev.info]
  <2> HIDE DEF u, k
  <2> QED BY <1>1
<1>4. Granted(ev, t) = [set |-> u, want |-> k, info |-> ev.info]
  BY DEF Granted
<1>5. ServeWaiter(r, t) =
          IF ~Satisfied(ev.set, ev.want[t], ev.info[t]) THEN r
          ELSE [ss |-> rt_thread_resume(r.ss, t),
                ev |-> [ev EXCEPT !.want[t] = got,
                                  !.set = IF ev.info[t].clear THEN @ \ got ELSE @]]
  BY DEF ServeWaiter, Report
<1> QED BY <1>2, <1>3, <1>4, <1>5

\* those of D who have been resumed and clear what they report
Cleared(r, D) == {t \in D : t \notin r.ss.asleep /\ r.ev.info[t].clear}

\* what is so when the walk has passed the waiters of D
Walked(r, D) ==
    /\ Waits(r.ss, pc, EvWhere) /\ r.ss.error = s.error
    /\ r.ss.asleep \subseteq s.asleep /\ s.asleep \ r.ss.asleep \subseteq D
    /\ r.ev \in EvState /\ r.ev.info = event.info
    /\ NoneSatisfied(r.ss.asleep \cap D, r.ev)
    /\ \A t \in Cleared(r, D) : r.ev.want[t] \cap r.ev.set = {}
    /\ \A t, u \in Cleared(r, D) : t # u => r.ev.want[t] \cap r.ev.want[u] = {}

LEMMA WalksOn ==
    ASSUME NEW r, NEW D, Walked(r, D), NEW h \in s.asleep, h \notin D
    PROVE  Walked(ServeWaiter(r, h), D \cup {h})
<1> DEFINE ev == r.ev
           z == ServeWaiter(r, h)
           e == z.ev
           w == "ev_recv_wait"
<1>1. /\ Waits(r.ss, pc, EvWhere) /\ r.ss.error = s.error
      /\ r.ss.asleep \subseteq s.asleep /\ s.asleep \ r.ss.asleep \subseteq D
      /\ ev \in EvState /\ ev.info = event.info
      /\ NoneSatisfied(r.ss.asleep \cap D, ev)
      /\ \A t \in Cleared(r, D) : ev.want[t] \cap ev.set = {}
      /\ \A t, u \in Cleared(r, D) : t # u => ev.want[t] \cap ev.want[u] = {}
  BY DEF Walked
<1>2. h \in r.ss.asleep /\ h \in Thread
  BY <1>1 DEF Waits, Sleepers, SleepState
<1>3. z = IF ~Satisfied(ev.set, ev.want[h], ev.info[h]) THEN r
          ELSE [ss |-> rt_thread_resume(r.ss, h), ev |-> Granted(ev, h)]
  BY <1>1, <1>2, ServeWaiterIs
<1> HIDE DEF z
<1>4. CASE ~Satisfied(ev.set, ev.want[h], ev.info[h])
  <2>1. z = r /\ Cleared(r, D \cup {h}) = Cleared(r, D)
    BY <1>2, <1>3, <1>4 DEF Cleared
  <2>2. NoneSatisfied(r.ss.asleep \cap (D \cup {h}), ev)
    BY <1>1, <1>4 DEF NoneSatisfied
  <2> QED BY <1>1, <2>1, <2>2 DEF Walked, z
<1>5. CASE Satisfied(ev.set, ev.want[h], ev.info[h])
  <2>1. z.ss = rt_thread_resume(r.ss, h) /\ e = Granted(ev, h)
    BY <1>3, <1>5
  <2>2. w \in DOMAIN EvWhere /\ h \in On(r.ss, EvWhere[w])
    BY <1>1, <1>2, EvPlace, EvSleepers
  <2>3. Waits(z.ss, pc, EvWhere) /\ z.ss.error = s.error /\ z.ss.asleep = r.ss.asleep \ {h}
    <3> DEFINE q == z.ss
    <3>1. q = rt_thread_resume(r.ss, h)
      BY <2>1
    <3> HIDE DEF q, w
    <3>2. Waits(q, pc, EvWhere) /\ q.error = r.ss.error /\ q.asleep = r.ss.asleep \ {h}
      BY <1>1, <2>2, <3>1, WakesOne
    <3> QED BY <1>1, <3>2 DEF q
  <2> DEFINE got == Report(ev, h)
  <2>4. got \subseteq ev.set /\ got \subseteq Bit
    BY <1>1, <1>2, <1>5 DEF Report, Satisfied, EvState
  <2>5. /\ e.set = (IF ev.info[h].clear THEN ev.set \ got ELSE ev.set)
        /\ e.want = [ev.want EXCEPT ![h] = got] /\ e.info = ev.info
        /\ e = [set |-> e.set, want |-> e.want, info |-> e.info]
    BY <2>1 DEF Granted
  <2> HIDE DEF e, got
  <2>6. /\ e.set \subseteq ev.set /\ e.want[h] = got
        /\ \A t \in Thread \ {h} : e.want[t] = ev.want[t]
        /\ ev.info[h].clear => e.set \cap got = {}
    BY <1>1, <1>2, <2>5 DEF EvState
  <2>7. e \in EvState
    BY <1>1, <1>2, <2>4, <2>5, <2>6 DEF EvState
  <2>8. z.ss.asleep \cap (D \cup {h}) = r.ss.asleep \cap D /\ r.ss.asleep \subseteq Thread
    BY <1>1, <2>3 DEF Waits, Sleepers, SleepState
  <2>9. NoneSatisfied(z.ss.asleep \cap (D \cup {h}), e)
    <3> SUFFICES ASSUME NEW t \in r.ss.asleep \cap D
                 PROVE  ~Satisfied(e.set, e.want[t], e.info[t])
      BY <2>8 DEF NoneSatisfied
    <3>1. e.want[t] = ev.want[t] /\ e.info[t] = ev.info[t]
          /\ ~Satisfied(ev.set, ev.want[t], ev.info[t])
      BY <1>1, <2>5, <2>6, <2>8 DEF NoneSatisfied
    <3> QED BY <2>6, <3>1 DEF Satisfied
  <2> DEFINE C == Cleared(z, D \cup {h})
  <2>10. \A t \in C : t \in Cleared(r, D) \/ (t = h /\ ev.info[h].clear)
    BY <1>1, <2>3, <2>5 DEF Cleared, e
  <2>11. \A t \in Cleared(r, D) : e.want[t] = ev.want[t] /\ ev.want[t] \cap ev.set = {}
    <3>1. \A t \in Cleared(r, D) : t # h
      BY DEF Cleared
    <3>2. \A t \in Cleared(r, D) \ {h} : [ev.want EXCEPT ![h] = got][t] = ev.want[t]
      <4> SUFFICES ASSUME NEW t \in Cleared(r, D) \ {h}
                   PROVE  [ev.want EXCEPT ![h] = got][t] = ev.want[t]
        OBVIOUS
      <4>1. ev.want \in [Thread -> SUBSET Bit]
        BY <1>1 DEF EvState
      <4> QED BY <4>1
    <3> QED BY <1>1, <2>5, <3>1, <3>2
  <2> HIDE DEF C
  <2>12. \A t \in C : e.want[t] \cap e.set = {}
    BY <2>6, <2>10, <2>11
  <2>13. \A t, u \in C : t # u => e.want[t] \cap e.want[u] = {}
    BY <1>1, <2>4, <2>6, <2>10, <2>11
  <2> QED BY <1>1, <2>3, <2>5, <2>7, <2>9, <2>12, <2>13 DEF Walked, C, e, z
<1> QED BY <1>4, <1>5

\* f[i] is the state after i turns of the walk of rt_event_send
SendTurns(f, set, waiters, n) ==
    f = [i \in 0 .. n |->
            IF i = 0 THEN [ss |-> s, ev |-> [event EXCEPT !.set = @ \cup set]]
            ELSE ServeWaiter(f[i - 1], waiters[i])]

LEMMA SendTurnsExist ==
    ASSUME NEW set, NEW waiters, NEW n \in Nat
    PROVE  \E f : SendTurns(f, set, waiters, n)
<1> DEFINE x == [ss |-> s, ev |-> [event EXCEPT !.set = @ \cup set]]
           Turns(f, m) == SendTurns(f, set, waiters, m)
           G == {m \in 0 .. n : \E f : Turns(f, m)}
<1>0. ASSUME NEW f, NEW m
      PROVE  Turns(f, m) <=> f = [i \in 0 .. m |-> IF i = 0 THEN x
                                                  ELSE ServeWaiter(f[i - 1], waiters[i])]
  BY DEF SendTurns
<1> HIDE DEF x, Turns
<1>1. 0 \in G
  <2> DEFINE f == [i \in 0 .. 0 |-> x]
  <2>1. \A i \in 0 .. 0 : x = IF i = 0 THEN x ELSE ServeWaiter(f[i - 1], waiters[i])
    OBVIOUS
  <2>2. Turns(f, 0)
    BY <1>0, <2>1
  <2> HIDE DEF f
  <2> QED BY <2>2
<1>2. ASSUME NEW m \in 0 .. n - 1, m \in G PROVE m + 1 \in G
  <2>1. PICK f : Turns(f, m)
    BY <1>2
  <2>0. f = [i \in 0 .. m |-> IF i = 0 THEN x ELSE ServeWaiter(f[i - 1], waiters[i])]
    BY <1>0, <2>1
  <2> DEFINE k == m + 1
             g == [i \in 0 .. k |-> IF i = k THEN ServeWaiter(f[m], waiters[i]) ELSE f[i]]
             h == [i \in 0 .. k |-> IF i = 0 THEN x ELSE ServeWaiter(g[i - 1], waiters[i])]
  <2>2. ASSUME NEW i \in 0 .. k PROVE g[i] = h[i]
    <3>0. m \in Nat /\ k # 0 /\ i \in Int  OBVIOUS
    <3>1. CASE i = k
      <4>1. i # 0 /\ i - 1 = m /\ m \in 0 .. k /\ m # k  BY <3>0, <3>1
      <4>2. g[i - 1] = f[m]  BY <4>1
      <4>3. h[i] = ServeWaiter(g[i - 1], waiters[i])  BY <4>1
      <4>4. g[i] = ServeWaiter(f[m], waiters[i])  BY <3>1
      <4> HIDE DEF g, h, k
      <4> QED BY <4>2, <4>3, <4>4
    <3>2. CASE i = 0
      <4>1. 0 \in 0 .. m /\ 0 \in 0 .. k /\ 0 # k  BY <3>0
      <4>2. f[0] = x  BY <2>0, <4>1
      <4> QED BY <3>2, <4>1, <4>2
    <3>3. CASE i # k /\ i # 0
      <4>1. i \in 0 .. m /\ i - 1 \in 0 .. k /\ i - 1 # k  BY <3>0, <3>3
      <4>2. f[i] = ServeWaiter(f[i - 1], waiters[i])  BY <2>0, <3>3, <4>1
      <4>3. g[i - 1] = f[i - 1]  BY <4>1
      <4>4. g[i] = f[i]  BY <3>3
      <4>5. h[i] = ServeWaiter(g[i - 1], waiters[i])  BY <3>3
      <4> HIDE DEF g, h, k
      <4> QED BY <4>2, <4>3, <4>4, <4>5
    <3> QED BY <3>1, <3>2, <3>3
  <2>3. g = h
    <3>1. g = [i \in 0 .. k |-> g[i]] /\ h = [i \in 0 .. k |-> h[i]]
      OBVIOUS
    <3> HIDE DEF g, h, k
    <3> QED BY <2>2, <3>1
  <2>4. Turns(g, k)
    <3> HIDE DEF g, k
    <3> QED BY <1>0, <2>3
  <2>5. k \in 0 .. n  OBVIOUS
  <2> HIDE DEF g, h
  <2> QED BY <2>4, <2>5
<1>3. n \in 0 .. n  OBVIOUS
<1> HIDE DEF G
<1>4. n \in G
  BY <1>1, <1>2, <1>3, InductionUpTo
<1> QED BY <1>4 DEF G, Turns

\* The walk passes everybody who waits.
LEMMA SendWalks ==
    ASSUME EvInv, NEW set \in SUBSET Bit
    PROVE  Walked(rt_event_send(set), s.asleep)
<1> DEFINE W == s.list[suspend_thread]
           n == Len(W)
           x == [ss |-> s, ev |-> [event EXCEPT !.set = @ \cup set]]
           F == CHOOSE f : SendTurns(f, set, W, n)
           Done(i) == {W[k] : k \in 1 .. i}
           G == {i \in 0 .. n : Walked(F[i], Done(i))}
<1>1. /\ n \in Nat /\ W \in Seq(Thread) /\ IsInjective(W) /\ ToSet(W) = s.asleep
      /\ Waits(s, pc, EvWhere) /\ event \in EvState /\ Waits(x.ss, pc, EvWhere)
  BY EvSleepers, LenProperties DEF EvInv, On
<1>2. rt_event_send(set) = F[n]
  BY DEF rt_event_send, SendTurns
<1>3. F = [i \in 0 .. n |-> IF i = 0 THEN x ELSE ServeWaiter(F[i - 1], W[i])]
  <2>1. \E f : SendTurns(f, set, W, n)
    <3> HIDE DEF n
    <3> QED BY <1>1, SendTurnsExist
  <2>2. SendTurns(F, set, W, n)
    <3> HIDE DEF n
    <3> QED BY <2>1
  <2> HIDE DEF F, n
  <2> QED BY <2>2 DEF SendTurns
<1> HIDE DEF F
<1>4. 0 \in G
  <2>1. Done(0) = {} /\ F[0] = x /\ 0 \in 0 .. n
    BY <1>1, <1>3
  <2>2. x.ss = s /\ x.ev.info = event.info /\ x.ev \in EvState
    BY <1>1 DEF EvState
  <2> HIDE DEF x, Done
  <2>3. Walked(x, {})
    BY <1>1, <2>2 DEF Walked, NoneSatisfied, Cleared
  <2> QED BY <2>1, <2>3
<1>5. ASSUME NEW i \in 0 .. n - 1, i \in G PROVE i + 1 \in G
  <2> DEFINE k == i + 1
  <2>1. k \in 1 .. n /\ k \in 0 .. n /\ k # 0 /\ k - 1 = i /\ Walked(F[i], Done(i))
    BY <1>1, <1>5
  <2>2. W[k] \in s.asleep
    BY <1>1, <2>1 DEF ToSet
  <2>3. W[k] \notin Done(i)
    <3>1. \A q \in 1 .. i : q \in DOMAIN W /\ k \in DOMAIN W /\ q # k
      BY <1>1, <2>1
    <3>2. \A q \in 1 .. i : W[q] # W[k]
      BY <1>1, <3>1 DEF IsInjective
    <3> HIDE DEF W, k
    <3> QED BY <3>2
  <2>4. Done(k) = Done(i) \cup {W[k]}
    <3>1. 1 .. k = 1 .. i \cup {k}
      OBVIOUS
    <3> HIDE DEF k, W
    <3> QED BY <3>1
  <2>5. F[k] = ServeWaiter(F[i], W[k])
    BY <1>3, <2>1
  <2> HIDE DEF k, W, Done
  <2>6. Walked(F[k], Done(k))
    BY <2>1, <2>2, <2>3, <2>4, <2>5, WalksOn
  <2> QED BY <2>1, <2>6 DEF k
<1>6. Walked(F[n], Done(n))
  <2>1. n \in 0 .. n  BY <1>1
  <2> HIDE DEF n, G
  <2>2. n \in G
    BY <1>1, <1>4, <1>5, <2>1, InductionUpTo
  <2> QED BY <2>2 DEF G
<1>7. Done(n) = s.asleep
  BY <1>1 DEF ToSet
<1> QED BY <1>2, <1>6, <1>7

\* Whom a send leaves asleep waits for what there is not; bits that somebody
\* has cleared go to nobody else.
LEMMA EvSends ==
    ASSUME EvInv, NEW set \in SUBSET Bit \ {{}}, EvSend(set)
    PROVE  /\ EvInv'
           /\ \A t \in ServedClearing : event'.want[t] \cap event'.set = {}
           /\ \A t, u \in ServedClearing : t # u => event'.want[t] \cap event'.want[u] = {}
<1> DEFINE r == rt_event_send(set)
<1>1. s' = r.ss /\ event' = r.ev /\ pc' = pc /\ loc' = loc
  BY DEF EvSend
<1>2. Walked(r, s.asleep)
  BY SendWalks
<1> HIDE DEF r
<1>3. /\ Waits(s', pc', EvWhere) /\ event' \in EvState /\ event'.info = event.info
      /\ s'.asleep \subseteq s.asleep /\ NoneSatisfied(s'.asleep \cap s.asleep, event')
  BY <1>1, <1>2 DEF Walked
<1>4. EvInv'
  <2>1. NoneSatisfied(s'.asleep, event')
    BY <1>3 DEF NoneSatisfied
  <2> QED BY <1>1, <1>3, <2>1 DEF EvInv
<1>5. \A t \in ServedClearing : t \in Cleared(r, s.asleep)
  BY <1>1, <1>3 DEF ServedClearing, Cleared
<1> QED BY <1>1, <1>2, <1>4, <1>5 DEF Walked

\* A wait begins.
LEMMA EvWaits ==
    ASSUME EvInv, NEW t \in Thread, NEW want \in SUBSET Bit, NEW option \in Option,
           EvRecvWait(t, want, option)
    PROVE  EvInv' /\ s.asleep \subseteq s'.asleep
<1> DEFINE w == "ev_recv_wait"
           e == event'
<1>1. /\ t \notin s.asleep /\ pc[t] = "user" /\ ~Satisfied(event.set, want, option)
      /\ event' = [event EXCEPT !.want[t] = want, !.info[t] = option]
      /\ Waits(s, pc, EvWhere) /\ Locals(pc, loc, {}) /\ event \in EvState
  BY DEF EvRecvWait, Runs, EvInv
<1>2. PICK time \in Time : SuspendSelf(t, suspend_thread, time, w)
  BY DEF EvRecvWait
<1>3. w \in DOMAIN EvWhere /\ EvWhere[w] = suspend_thread
  BY EvPlace
<1> HIDE DEF w
<1>4. Waits(s', pc', EvWhere) /\ Locals(pc', loc', {}) /\ s'.asleep = s.asleep \cup {t}
  <2>1. SuspendSelf(t, EvWhere[w], time, w)
    BY <1>2, <1>3
  <2> QED BY <1>1, <1>3, <2>1, SuspendSelfIs
<1>5. e = [set |-> event.set, want |-> [event.want EXCEPT ![t] = want],
           info |-> [event.info EXCEPT ![t] = option]]
  <2> DEFINE k == [event.want EXCEPT ![t] = want]
             i == [event.info EXCEPT ![t] = option]
             x == [event EXCEPT !.want = k]
  <2>1. x = [set |-> event.set, want |-> k, info |-> event.info]
    <3> HIDE DEF k
    <3> QED BY <1>1 DEF EvState
  <2>2. e = [x EXCEPT !.info = i]
    BY <1>1 DEF EvState
  <2> HIDE DEF x
  <2>3. [x EXCEPT !.info = i] = [set |-> event.set, want |-> k, info |-> i]
    <3> HIDE DEF k, i
    <3> QED BY <2>1
  <2> QED BY <2>2, <2>3
<1> HIDE DEF e
<1>6. /\ e.set = event.set /\ e.want[t] = want /\ e.info[t] = option /\ e \in EvState
      /\ \A u \in Thread \ {t} : e.want[u] = event.want[u] /\ e.info[u] = event.info[u]
  BY <1>1, <1>5 DEF EvState
<1>7. NoneSatisfied(s'.asleep, e)
  <2>1. NoneSatisfied(s.asleep, event) /\ s.asleep \subseteq Thread
    BY <1>1 DEF EvInv, Waits, Sleepers, SleepState
  <2> QED BY <1>1, <1>4, <1>6, <2>1 DEF NoneSatisfied
<1> QED BY <1>4, <1>6, <1>7 DEF EvInv, e

\* A wait ends, whatever ended it.
LEMMA EvReturns ==
    ASSUME EvInv, NEW t \in Thread, EvRecvReturn(t)
    PROVE  EvInv' /\ s'.asleep = s.asleep
<1> DEFINE x == "user"
           r == s'
           q == pc'
           e == event'
<1>1. /\ t \notin s.asleep /\ Return(t) /\ r = [s EXCEPT !.error[t] = "EOK"]
      /\ event' = [event EXCEPT !.want[t] = {}, !.info[t] = NoOption]
      /\ Waits(s, pc, EvWhere) /\ Locals(pc, loc, {}) /\ event \in EvState
      /\ x \notin DOMAIN EvWhere /\ NoneSatisfied(s.asleep, event)
      /\ s.asleep \subseteq Thread
  BY EvPlace DEF EvRecvReturn, Runs, EvInv, Waits, Sleepers, SleepState
<1>2. Locals(pc', loc', {}) /\ q = Placed(pc, t, x)
  BY <1>1, ReturnIs
<1> HIDE DEF x, r, q
<1>3. Waits(r, pc, EvWhere) /\ r.asleep = s.asleep
  BY <1>1, Forgets
<1>4. Waits(r, q, EvWhere)
  BY <1>1, <1>2, <1>3, Moves
<1>5. e = [set |-> event.set, want |-> [event.want EXCEPT ![t] = {}],
           info |-> [event.info EXCEPT ![t] = NoOption]]
  <2> DEFINE k == [event.want EXCEPT ![t] = {}]
             i == [event.info EXCEPT ![t] = NoOption]
             y == [event EXCEPT !.want = k]
  <2>1. y = [set |-> event.set, want |-> k, info |-> event.info]
    <3> HIDE DEF k
    <3> QED BY <1>1 DEF EvState
  <2>2. e = [y EXCEPT !.info = i]
    BY <1>1 DEF EvState
  <2> HIDE DEF y
  <2>3. [y EXCEPT !.info = i] = [set |-> event.set, want |-> k, info |-> i]
    <3> HIDE DEF k, i
    <3> QED BY <2>1
  <2> QED BY <2>2, <2>3
<1> HIDE DEF e
<1>6. /\ e.set = event.set /\ e \in EvState
      /\ \A u \in Thread \ {t} : e.want[u] = event.want[u] /\ e.info[u] = event.info[u]
  BY <1>1, <1>5 DEF EvState, Option, NoOption
<1>7. NoneSatisfied(r.asleep, e)
  BY <1>1, <1>3, <1>6 DEF NoneSatisfied
<1> QED BY <1>2, <1>3, <1>4, <1>6, <1>7 DEF EvInv, e, r, q

\* Nobody who sleeps has been told an error; a reset tells all of them one.
LEMMA EvResets ==
    ASSUME EvInv, NEW t \in Thread, EvReset(t)
    PROVE  EvInv' /\ ServedClearing = {}
<1> DEFINE w == "ev_recv_wait"
           r == s'
<1>1. /\ r = rt_ipc_list_resume_all(s, suspend_thread) /\ pc' = pc /\ loc' = loc
      /\ event' = [event EXCEPT !.set = {}]
      /\ Waits(s, pc, EvWhere) /\ Locals(pc, loc, {}) /\ event \in EvState
  BY DEF EvReset, EvInv
<1>2. w \in DOMAIN EvWhere /\ EvWhere[w] = suspend_thread /\ Asleep(s, pc, w) = s.asleep
  BY <1>1, EvPlace, EvSleepers
<1> HIDE DEF w, r
<1>3. /\ Waits(r, pc, EvWhere) /\ r.asleep = {}
      /\ \A x \in Thread : r.error[x] = IF x \in s.asleep THEN "ERROR" ELSE s.error[x]
  BY <1>1, <1>2, AllWake
<1>4. event' \in EvState
  BY <1>1 DEF EvState
<1>5. EvInv'
  BY <1>1, <1>3, <1>4 DEF EvInv, NoneSatisfied, r
<1>6. ServedClearing = {}
  <2>1. s.asleep \subseteq Thread
    BY <1>1 DEF Waits, Sleepers, SleepState
  <2> QED BY <1>3, <2>1 DEF ServedClearing, r
<1> QED BY <1>5, <1>6

LEMMA EvTimes ==
    ASSUME EvInv, NEW t \in Thread, TimerExpires(t), event' = event
    PROVE  EvInv' /\ ServedClearing = {}
<1> DEFINE w == "ev_recv_wait"
<1>1. /\ Waits(s', pc', EvWhere) /\ pc' = pc /\ loc' = loc
      /\ Asleep(s', pc', w) \subseteq Asleep(s, pc, w)
      /\ Awake(s', pc', w) = Awake(s, pc, w)
  BY TimerExpiresIs DEF EvInv
<1>2. /\ Asleep(s', pc', w) = s'.asleep /\ Asleep(s, pc, w) = s.asleep
      /\ s.asleep \subseteq Thread
  BY <1>1, EvSleepers DEF EvInv, Waits, Sleepers, SleepState
<1>3. EvInv'
  BY <1>1, <1>2 DEF EvInv, NoneSatisfied
<1>4. ServedClearing = {}
  BY <1>1, <1>2 DEF ServedClearing, Awake, Asleep
<1> QED BY <1>3, <1>4

\* A thread receives at once, or gets nothing.
LEMMA EvTakes ==
    ASSUME EvInv, UNCHANGED threadVars, NEW set, set \subseteq event.set,
           event' = [event EXCEPT !.set = set]
    PROVE  EvInv'
<1>1. event \in EvState /\ s' = s /\ pc' = pc /\ loc' = loc
  BY DEF EvInv, threadVars
<1>2. event' = [set |-> set, want |-> event.want, info |-> event.info]
  BY <1>1 DEF EvState
<1>3. event' \in EvState
  BY <1>1, <1>2 DEF EvState
<1>4. NoneSatisfied(s'.asleep, event')
  BY <1>1, <1>2 DEF EvInv, NoneSatisfied, Satisfied
<1> QED BY <1>1, <1>3, <1>4 DEF EvInv

\* A step keeps the invariant, and gives each bit that is cleared once.
LEMMA EvNextStep ==
    ASSUME EvInv, [EventNext]_eventVars
    PROVE  /\ EvInv'
           /\ \A t \in ServedClearing :
                  /\ event'.want[t] \cap event'.set = {}
                  /\ \A u \in ServedClearing \ {t} : event'.want[t] \cap event'.want[u] = {}
<1> DEFINE Once ==
        \A t \in ServedClearing :
            /\ event'.want[t] \cap event'.set = {}
            /\ \A u \in ServedClearing \ {t} : event'.want[t] \cap event'.want[u] = {}
<1>0. Sender \cup Receiver \cup Resetter \subseteq Thread
  BY BlockingAssumption
<1>1. s.asleep \subseteq s'.asleep => Once
  BY DEF ServedClearing
<1>2. ServedClearing = {} => Once
  OBVIOUS
<1>3. CASE UNCHANGED eventVars
  <2>1. UNCHANGED <<s, pc, loc, event>>
    BY <1>3 DEF eventVars, threadVars
  <2> QED BY <1>1, <2>1 DEF EvInv
<1>4. ASSUME NEW set \in SUBSET Bit \ {{}}, EvSend(set) PROVE EvInv' /\ Once
  <2>1. /\ EvInv'
        /\ \A t \in ServedClearing : event'.want[t] \cap event'.set = {}
        /\ \A t, u \in ServedClearing : t # u => event'.want[t] \cap event'.want[u] = {}
    BY <1>4, EvSends
  <2> QED BY <2>1
<1>5. ASSUME NEW t \in Receiver, NEW want \in SUBSET Bit, NEW option \in Option,
             EvRecvNow(t, want, option)
      PROVE  EvInv' /\ Once
  <2> DEFINE set == IF option.clear THEN event.set \ want ELSE event.set
  <2>1. UNCHANGED threadVars /\ event' = [event EXCEPT !.set = set] /\ s' = s
    BY <1>5 DEF EvRecvNow, threadVars
  <2>2. set \subseteq event.set
    OBVIOUS
  <2> HIDE DEF set
  <2> QED BY <1>1, <2>1, <2>2, EvTakes
<1>6. ASSUME NEW t \in Receiver, NEW want \in SUBSET Bit, NEW option \in Option,
             EvRecvNoWait(t, want, option)
      PROVE  EvInv' /\ Once
  <2>1. UNCHANGED eventVars
    BY <1>6 DEF EvRecvNoWait
  <2> QED BY <1>3, <2>1
<1>7. ASSUME NEW t \in Receiver, NEW want \in SUBSET Bit, NEW option \in Option,
             EvRecvWait(t, want, option)
      PROVE  EvInv' /\ Once
  BY <1>0, <1>1, <1>7, EvWaits
<1>8. ASSUME NEW t \in Receiver, EvRecvReturn(t) PROVE EvInv' /\ Once
  BY <1>0, <1>1, <1>8, EvReturns
<1>9. ASSUME NEW t \in Resetter, EvReset(t) PROVE EvInv' /\ Once
  BY <1>0, <1>2, <1>9, EvResets
<1>10. ASSUME NEW t \in Thread, TimerExpires(t), UNCHANGED event PROVE EvInv' /\ Once
  BY <1>2, <1>10, EvTimes
<1> QED BY <1>3, <1>4, <1>5, <1>6, <1>7, <1>8, <1>9, <1>10 DEF EventNext

LEMMA EvFirst ==
    ASSUME BlockingInit, EvInit
    PROVE  EvInv
<1> DEFINE n == [w \in DOMAIN EvWhere |-> 0]
<1>1. Counts(EvWhere, n)
  BY DEF Counts
<1> HIDE DEF n
<1>2. Flow(s, pc, EvWhere, n) /\ Locals(pc, loc, {})
  BY <1>1, EvPlace, FirstFlow
<1>3. Waits(s, pc, EvWhere) /\ s.asleep = {}
  BY <1>2 DEF Flow, BlockingInit
<1>4. event \in EvState
  BY DEF EvInit, EvState, Option, NoOption
<1> QED BY <1>2, <1>3, <1>4 DEF EvInv, NoneSatisfied

-----------------------------------------------------------------------------
(* The objects side by side, as MCObjects has them.                        *)

\* Where nobody can sleep, nobody waits.
LEMMA NobodyAt ==
    ASSUME NEW where, Waits(s, pc, where), NEW w, w \notin DOMAIN where
    PROVE  WaitingAt(w) = {}
BY DEF Waits, AtPlaces, WaitingAt

LEMMA SleepersSay ==
    ASSUME NEW where, Waits(s, pc, where)
    PROVE  /\ SleepersAgree
           /\ \A w : WaitingAt(w) = Asleep(s, pc, w) /\ WokenAt(w) = Awake(s, pc, w)
BY DEF Waits, Sleepers, On, SleepersAgree, WaitingAt, WokenAt, Woken, Runs, Asleep, Awake

LEMMA MbSays ==
    ASSUME MbInv
    PROVE  Waits(s, pc, MbWhere) /\ MbIndicesAgree /\ MbNoLostWakeup
<1>1. /\ Waits(s, pc, MbWhere) /\ MbRing(mb)
      /\ \A w \in DOMAIN MbWhere : Enough(Asleep(s, pc, w), Awake(s, pc, w), MbThere(mb)[w])
  BY DEF MbInv, Flow
<1>2. MbIndicesAgree
  BY <1>1 DEF MbRing, MbIndicesAgree
<1> DEFINE x == "mb_recv_wait"
           y == "mb_send_wait"
<1>3. /\ DOMAIN MbWhere = {x, y} /\ MbThere(mb)[x] = mb.entry
      /\ MbThere(mb)[y] = mb_size - mb.entry
  BY <1>1, MbPlace, MbThereIs
<1>4. MbNoLostWakeup <=> /\ WaitingAt(x) # {} => mb.entry <= Cardinality(WokenAt(x))
                         /\ WaitingAt(y) # {} => mb_size - mb.entry <= Cardinality(WokenAt(y))
  BY DEF MbNoLostWakeup
<1> HIDE DEF x, y
<1>5. MbNoLostWakeup
  BY <1>1, <1>3, <1>4, SleepersSay DEF Enough
<1> QED BY <1>1, <1>2, <1>5

\* The items of a queue are in one place each.
LEMMA MqAgrees ==
    ASSUME MqPool(mq, hand), Nil \notin MqItem
    PROVE  MqItemsConserved
<1> DEFINE f == mq.free
           q == mq.queue
<1>1. /\ f \in Seq(MqItem) /\ q \in Seq(MqItem) /\ IsInjective(f) /\ IsInjective(q)
      /\ ToSet(f) \cap ToSet(q) = {} /\ mq.entry = Len(q)
      /\ hand \in [Thread -> MqItem \cup {Nil}]
  BY DEF MqPool, MqState
<1>2. ToSet(f \o q) = ToSet(f) \cup ToSet(q) /\ IsInjective(f \o q)
  <2> HIDE DEF f, q
  <2> QED BY <1>1, ConcatHolds
<1>3. ToSet(f) \subseteq MqItem /\ ToSet(q) \subseteq MqItem
  BY <1>1 DEF ToSet
<1>4. ToSet(f \o q) = MqItem \ Held
  BY <1>1, <1>2, <1>3 DEF MqPool, Held
<1>5. \A t, u \in Thread : t # u /\ hand[t] # Nil => hand[t] # hand[u]
  BY DEF MqPool
<1> QED BY <1>1, <1>2, <1>4, <1>5 DEF MqItemsConserved

LEMMA MqSays ==
    ASSUME MqInv
    PROVE  Waits(s, pc, MqWhere) /\ MqItemsConserved /\ MqNoLostWakeup
<1>1. /\ Waits(s, pc, MqWhere) /\ MqPool(mq, hand)
      /\ \A w \in DOMAIN MqWhere : Enough(Asleep(s, pc, w), Awake(s, pc, w), MqThere(mq)[w])
  BY DEF MqInv, Flow
<1>2. MqItemsConserved
  BY <1>1, MqAgrees, MessageQueueAssumption
<1> DEFINE x == "mq_recv_wait"
           y == "mq_send_wait"
<1>3. /\ DOMAIN MqWhere = {x, y} /\ MqThere(mq)[x] = mq.entry
      /\ MqThere(mq)[y] = Len(mq.free)
  BY <1>1, MqPlace, MqThereIs
<1>4. MqNoLostWakeup <=> /\ WaitingAt(x) # {} => mq.entry <= Cardinality(WokenAt(x))
                         /\ WaitingAt(y) # {} => Len(mq.free) <= Cardinality(WokenAt(y))
  BY DEF MqNoLostWakeup
<1> HIDE DEF x, y
<1>5. MqNoLostWakeup
  BY <1>1, <1>3, <1>4, SleepersSay DEF Enough
<1> QED BY <1>1, <1>2, <1>5

LEMMA EvSays ==
    ASSUME EvInv
    PROVE  Waits(s, pc, EvWhere) /\ NoneWaitsSatisfied
BY DEF EvInv, NoneSatisfied, NoneWaitsSatisfied, WaitingAt

\* The blocks of a pool are in one place each.
LEMMA MpAgrees ==
    ASSUME MpBlocks(pool)
    PROVE  MpBlocksConserved
<1>1. /\ pool.free \in Seq(Block) /\ pool.held \in [Holder -> SUBSET Block]
      /\ pool.count = Len(pool.free) /\ IsInjective(pool.free) /\ DOMAIN pool.held = Holder
  BY MpParts
<1>2. ToSet(pool.free) \subseteq Block
  BY <1>1 DEF ToSet
<1>3. ToSet(pool.free) = Block \ UNION {pool.held[h] : h \in Holder}
  BY <1>1, <1>2 DEF MpBlocks
<1> QED BY <1>1, <1>3 DEF MpBlocks, MpBlocksConserved

LEMMA MpSays ==
    ASSUME MpInv
    PROVE  Waits(s, pc, MpWhere) /\ MpBlocksConserved /\ MpNoLostWakeup
<1> DEFINE w == "mp_alloc_wait"
           n == MpCount(pool.count)
<1>1. /\ Waits(s, pc, MpWhere) /\ MpBlocks(pool) /\ DOMAIN MpWhere = {w} /\ n[w] = pool.count
      /\ \A v \in DOMAIN MpWhere : Enough(Asleep(s, pc, v), Awake(s, pc, v), n[v])
  BY MpPlace, MpParts, MpCountIs DEF MpInv, Flow
<1>2. MpNoLostWakeup <=> (WaitingAt(w) # {} => pool.count <= Cardinality(WokenAt(w)))
  BY DEF MpNoLostWakeup
<1> HIDE DEF w, n
<1>3. MpNoLostWakeup
  BY <1>1, <1>2, SleepersSay DEF Enough
<1> QED BY <1>1, <1>3, MpAgrees

\* An object of a kind that is not the one in use is as it was initialised.
ObjInv ==
    /\ IF system = "mailbox" THEN MbInv ELSE MbInit
    /\ IF system = "queue" THEN MqInv ELSE MqInit
    /\ IF system = "event" THEN EvInv ELSE EvInit
    /\ IF system = "pool" THEN MpInv ELSE MpInit
    /\ system \notin {"mailbox", "queue", "event", "pool"} => BlockingInit

LEMMA ObjFirst ==
    ASSUME MCInit
    PROVE  ObjInv
BY MbFirst, MqFirst, EvFirst, MpFirst DEF MCInit, ObjInv

\* what an object that is not in use says of itself
LEMMA IdleSay ==
    /\ MbInit => MbIndicesAgree
    /\ MqInit => MqItemsConserved
    /\ MpInit => MpBlocksConserved
<1>1. MbInit => MbIndicesAgree
  BY MbFirstRing DEF MbRing, MbIndicesAgree
<1>2. MqInit => MqItemsConserved
  BY MqFirstPool, MqAgrees, MessageQueueAssumption
<1> QED BY <1>1, <1>2, MpFirstBlocks, MpAgrees

LEMMA PlacesDiffer ==
    /\ DOMAIN MbWhere = {"mb_recv_wait", "mb_send_wait"}
    /\ DOMAIN MqWhere = {"mq_recv_wait", "mq_send_wait"}
    /\ DOMAIN EvWhere = {"ev_recv_wait"} /\ DOMAIN MpWhere = {"mp_alloc_wait"}
BY MbPlace, MqPlace, EvPlace, MpPlace

\* nobody waits for an object
NoneForMb == WaitingAt("mb_recv_wait") = {} /\ WaitingAt("mb_send_wait") = {}
NoneForMq == WaitingAt("mq_recv_wait") = {} /\ WaitingAt("mq_send_wait") = {}
NoneForEv == WaitingAt("ev_recv_wait") = {}
NoneForMp == WaitingAt("mp_alloc_wait") = {}

LEMMA NoneSay ==
    /\ NoneForMb => MbNoLostWakeup
    /\ NoneForMq => MqNoLostWakeup
    /\ NoneForEv => NoneWaitsSatisfied
    /\ NoneForMp => MpNoLostWakeup
BY DEF NoneForMb, NoneForMq, NoneForEv, NoneForMp,
       MbNoLostWakeup, MqNoLostWakeup, NoneWaitsSatisfied, MpNoLostWakeup

LEMMA ObjSays ==
    ASSUME ObjInv
    PROVE  ObjectsAgree /\ WaitersAreServed
<1> USE DEF ObjectsAgree, WaitersAreServed
<1>1. CASE system = "mailbox"
  <2>1. MbInv /\ MqInit /\ MpInit
    BY <1>1 DEF ObjInv
  <2>2. Waits(s, pc, MbWhere) /\ MbIndicesAgree /\ MbNoLostWakeup
    BY <2>1, MbSays
  <2>3. NoneForMq /\ NoneForEv /\ NoneForMp
    BY <2>2, NobodyAt, PlacesDiffer DEF NoneForMq, NoneForEv, NoneForMp
  <2> QED BY <2>1, <2>2, <2>3, SleepersSay, IdleSay, NoneSay
<1>2. CASE system = "queue"
  <2>1. MqInv /\ MbInit /\ MpInit
    BY <1>2 DEF ObjInv
  <2>2. Waits(s, pc, MqWhere) /\ MqItemsConserved /\ MqNoLostWakeup
    BY <2>1, MqSays
  <2>3. NoneForMb /\ NoneForEv /\ NoneForMp
    BY <2>2, NobodyAt, PlacesDiffer DEF NoneForMb, NoneForEv, NoneForMp
  <2> QED BY <2>1, <2>2, <2>3, SleepersSay, IdleSay, NoneSay
<1>3. CASE system = "event"
  <2>1. EvInv /\ MbInit /\ MqInit /\ MpInit
    BY <1>3 DEF ObjInv
  <2>2. Waits(s, pc, EvWhere) /\ NoneWaitsSatisfied
    BY <2>1, EvSays
  <2>3. NoneForMb /\ NoneForMq /\ NoneForMp
    BY <2>2, NobodyAt, PlacesDiffer DEF NoneForMb, NoneForMq, NoneForMp
  <2> QED BY <2>1, <2>2, <2>3, SleepersSay, IdleSay, NoneSay
<1>4. CASE system = "pool"
  <2>1. MpInv /\ MbInit /\ MqInit
    BY <1>4 DEF ObjInv
  <2>2. Waits(s, pc, MpWhere) /\ MpBlocksConserved /\ MpNoLostWakeup
    BY <2>1, MpSays
  <2>3. NoneForMb /\ NoneForMq /\ NoneForEv
    BY <2>2, NobodyAt, PlacesDiffer DEF NoneForMb, NoneForMq, NoneForEv
  <2> QED BY <2>1, <2>2, <2>3, SleepersSay, IdleSay, NoneSay
<1>5. CASE system \notin {"mailbox", "queue", "event", "pool"}
  <2>1. BlockingInit /\ MbInit /\ MqInit /\ EvInit /\ MpInit
    BY <1>5 DEF ObjInv
  <2>2. Waits(s, pc, EvWhere) /\ MbInv
    BY <2>1, EvFirst, EvSays, MbFirst
  <2>3. Waits(s, pc, MbWhere) /\ MbIndicesAgree /\ MbNoLostWakeup
    BY <2>2, MbSays
  <2>4. NoneForMb /\ NoneForMq /\ NoneForEv /\ NoneForMp
    BY <2>2, <2>3, NobodyAt, PlacesDiffer DEF NoneForMb, NoneForMq, NoneForEv, NoneForMp
  <2> QED BY <2>1, <2>2, <2>3, <2>4, SleepersSay, IdleSay, NoneSay
<1> QED BY <1>1, <1>2, <1>3, <1>4, <1>5

\* the variables of MCObjects
objectVars == <<system, threadVars, mb, mq, hand, event, pool, heap, timers>>

\* what MCObjects does with event, in every system
EvOnce ==
    \A t \in ServedClearing :
        /\ event'.want[t] \cap event'.set = {}
        /\ \A u \in ServedClearing \ {t} : event'.want[t] \cap event'.want[u] = {}

\* Whoever has called nothing has asked to clear nothing.
LEMMA EvIdle ==
    ASSUME ObjInv, system # "event"
    PROVE  EvOnce
<1>1. EvInit /\ s.asleep \subseteq Thread
  <2>1. MbInv \/ MqInv \/ MpInv \/ BlockingInit
    BY DEF ObjInv
  <2>2. \A where : Waits(s, pc, where) => s.asleep \subseteq Thread
    BY DEF Waits, Sleepers, SleepState
  <2>3. BlockingInit => s.asleep \subseteq Thread
    BY DEF BlockingInit
  <2> QED BY <2>1, <2>2, <2>3, MbSays, MqSays, MpSays DEF ObjInv
<1>2. \A t \in Thread : ~event.info[t].clear
  BY <1>1 DEF EvInit, NoOption
<1>3. ServedClearing = {}
  BY <1>1, <1>2 DEF ServedClearing
<1> QED BY <1>3 DEF EvOnce

LEMMA ObjStep ==
    ASSUME ObjInv, [MCNext]_objectVars
    PROVE  ObjInv' /\ EvOnce
<1>1. CASE UNCHANGED objectVars
  <2>1. UNCHANGED <<system, s, pc, loc, mb, mq, hand, event, pool>>
    BY <1>1 DEF objectVars, threadVars
  <2>2. MbInv' <=> MbInv
    BY <2>1 DEF MbInv
  <2>3. MqInv' <=> MqInv
    BY <2>1 DEF MqInv
  <2>4. EvInv' <=> EvInv
    BY <2>1 DEF EvInv
  <2>5. MpInv' <=> MpInv
    BY <2>1 DEF MpInv
  <2>6. (MbInit' <=> MbInit) /\ (MqInit' <=> MqInit) /\ (EvInit' <=> EvInit)
        /\ (MpInit' <=> MpInit) /\ (BlockingInit' <=> BlockingInit)
    BY <2>1 DEF MbInit, MqInit, EvInit, MpInit, BlockingInit
  <2>7. ObjInv'
    BY <2>1, <2>2, <2>3, <2>4, <2>5, <2>6 DEF ObjInv
  <2>8. ServedClearing = {}
    BY <2>1 DEF ServedClearing
  <2> QED BY <2>7, <2>8 DEF EvOnce
<1> SUFFICES ASSUME MCNext PROVE ObjInv' /\ EvOnce
  BY <1>1
<1>0. system' = system
  BY DEF MCNext
<1>2. CASE system = "mailbox"
  <2>1. MbInv /\ MailboxNext /\ UNCHANGED <<mq, hand, event, pool>>
        /\ MqInit /\ EvInit /\ MpInit
    BY <1>2 DEF MCNext, ObjInv
  <2>2. MbInv'
    BY <2>1, MbNextStep DEF MbGood
  <2>3. MqInit' /\ EvInit' /\ MpInit'
    BY <2>1 DEF MqInit, EvInit, MpInit
  <2> QED BY <1>0, <1>2, <2>2, <2>3, EvIdle DEF ObjInv
<1>3. CASE system = "queue"
  <2>1. MqInv /\ MessageQueueNext /\ UNCHANGED <<mb, event, pool>>
        /\ MbInit /\ EvInit /\ MpInit
    BY <1>3 DEF MCNext, ObjInv
  <2>2. MqInv'
    BY <2>1, MqNextStep DEF MqGood
  <2>3. MbInit' /\ EvInit' /\ MpInit'
    BY <2>1 DEF MbInit, EvInit, MpInit
  <2> QED BY <1>0, <1>3, <2>2, <2>3, EvIdle DEF ObjInv
<1>4. CASE system = "event"
  <2>1. EvInv /\ EventNext /\ UNCHANGED <<mb, mq, hand, pool>>
        /\ MbInit /\ MqInit /\ MpInit
    BY <1>4 DEF MCNext, ObjInv
  <2>2. EvInv' /\ EvOnce
    BY <2>1, EvNextStep DEF EvOnce
  <2>3. MbInit' /\ MqInit' /\ MpInit'
    BY <2>1 DEF MbInit, MqInit, MpInit
  <2> QED BY <1>0, <1>4, <2>2, <2>3 DEF ObjInv
<1>5. CASE system = "pool"
  <2>1. MpInv /\ MemPoolNext /\ UNCHANGED <<mb, mq, hand, event>>
        /\ MbInit /\ MqInit /\ EvInit
    BY <1>5 DEF MCNext, ObjInv
  <2>2. MpInv'
    BY <2>1, MpNextStep
  <2>3. MbInit' /\ MqInit' /\ EvInit'
    BY <2>1 DEF MbInit, MqInit, EvInit
  <2> QED BY <1>0, <1>5, <2>2, <2>3, EvIdle DEF ObjInv
<1>6. CASE system \notin {"mailbox", "queue", "event", "pool"}
  <2>1. UNCHANGED <<threadVars, mb, mq, hand, event, pool>>
        /\ MbInit /\ MqInit /\ EvInit /\ MpInit /\ BlockingInit
    BY <1>6 DEF MCNext, ObjInv
  <2>2. UNCHANGED <<s, pc, loc>>
    BY <2>1 DEF threadVars
  <2>3. MbInit' /\ MqInit' /\ EvInit' /\ MpInit' /\ BlockingInit'
    BY <2>1, <2>2 DEF MbInit, MqInit, EvInit, MpInit, BlockingInit
  <2> QED BY <1>0, <1>6, <2>3, EvIdle DEF ObjInv
<1> QED BY <1>2, <1>3, <1>4, <1>5, <1>6

\* Whoever is linked into a list of waiters sleeps; the indices of a mailbox
\* enclose its messages; an item of a queue and a block of a pool are free, in
\* use or in a thread's hands, once: for any threads, sizes and messages.
THEOREM ObjectsAlwaysAgree == MCSpec => []ObjectsAgree
<1>1. MCInit => ObjInv
  BY ObjFirst
<1>2. ObjInv /\ [MCNext]_objectVars => ObjInv'
  BY ObjStep
<1>3. ObjInv => ObjectsAgree
  BY ObjSays
<1> QED BY <1>1, <1>2, <1>3, PTL DEF MCSpec, objectVars

\* No wakeup of rt_mb_send, rt_mb_recv, rt_mq_send, rt_mq_recv, rt_event_send
\* and rt_mp_free is lost, whoever overtakes the threads they resume, and
\* whenever a timer ends a wait.
THEOREM WaitersAreAlwaysServed == MCSpec => []WaitersAreServed
<1>1. MCInit => ObjInv
  BY ObjFirst
<1>2. ObjInv /\ [MCNext]_objectVars => ObjInv'
  BY ObjStep
<1>3. ObjInv => WaitersAreServed
  BY ObjSays
<1> QED BY <1>1, <1>2, <1>3, PTL DEF MCSpec, objectVars

\* rt_event_send gives a bit that its receivers clear to one of them, however
\* many wait, and for whatever.
THEOREM EventsAreExclusive == MCSpec => EvGrantsExclusive
<1>1. MCInit => ObjInv
  BY ObjFirst
<1>2. ObjInv /\ [MCNext]_objectVars => ObjInv' /\ [EvOnce]_eventVars
  BY ObjStep
<1>3. EvGrantsExclusive <=> [][EvOnce]_eventVars
  BY PTL DEF EvGrantsExclusive, EvOnce
<1> QED BY <1>1, <1>2, <1>3, PTL DEF MCSpec, objectVars
=============================================================================
