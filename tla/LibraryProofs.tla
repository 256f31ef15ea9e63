---------------------------- MODULE LibraryProofs ----------------------------
(***************************************************************************)
(* The driver library, for any users, buffers and sizes: the transmission  *)
(* by DMA never stops with buffers in its queue; the blocks of a ring of   *)
(* blocks share no byte; a file descriptor's struct lives as long as its   *)
(* references; the ring buffer and the data queue are queues, and so is the*)
(* FIFO of a serial device, where the DMA controller spares what is unread;*)
(* nobody who waits on a completion, a data queue, a pipe, a poll or the   *)
(* end of a work is forgotten, and the worker by nobody but itself.        *)
(***************************************************************************)
EXTENDS MCLibrary, BlockingProofs

-----------------------------------------------------------------------------
(* Serial: transmission by DMA.                                            *)

TxType ==
    tx \in [queue : Seq(TxNode), active : BOOLEAN, wire : SUBSET TxNode,
            pushed : [TxWriter -> SUBSET TxNode]]

TxInv == TxType /\ DmaNotIdle

LEMMA TxInitial == TxInit => TxInv
BY DEF TxInit, TxInv, TxType, DmaNotIdle

\* the push leaves its writer between its two sections
LEMMA TxPushPreserves ==
    ASSUME TxInv, NEW t \in TxWriter, NEW node \in TxNode, TxPush(t, node)
    PROVE  TxInv'
<1>1. TxType'
    <2>1. Append(tx.queue, node) \in Seq(TxNode)
        BY DEF TxInv, TxType
    <2>2. [tx.pushed EXCEPT ![t] = {node}] \in [TxWriter -> SUBSET TxNode]
        BY DEF TxInv, TxType
    <2>3. tx' = [tx EXCEPT !.queue = Append(tx.queue, node),
                           !.pushed = [tx.pushed EXCEPT ![t] = {node}]]
        BY DEF TxInv, TxType, TxPush
    <2> QED BY Zenon, <2>1, <2>2, <2>3 DEF TxInv, TxType
<1>2. tx'.pushed[t] # {}
    BY DEF TxInv, TxType, TxPush
<1> QED BY <1>1, <1>2 DEF TxInv, DmaNotIdle

\* after the look at activated a transfer is active
LEMMA TxStartPreserves ==
    ASSUME TxInv, NEW t \in TxWriter, TxStart(t)
    PROVE  TxInv'
<1>1. TxType'
    BY Zenon DEF TxInv, TxType, TxStart
<1>2. tx'.active
    BY DEF TxInv, TxType, TxStart
<1> QED BY <1>1, <1>2 DEF TxInv, DmaNotIdle

\* the interrupt goes on exactly when the pop leaves a buffer
LEMMA TxDmaDonePreserves ==
    ASSUME TxInv, TxDmaDone
    PROVE  TxInv'
<1> DEFINE rest == IF tx.queue = << >> THEN tx.queue ELSE Tail(tx.queue)
           more  == Len(tx.queue) > 1
           wire  == IF more THEN {tx.queue[2]} ELSE {}
<1>1. tx' = [tx EXCEPT !.queue = rest, !.active = more, !.wire = wire]
    BY DEF TxDmaDone
<1>2. tx.queue \in Seq(TxNode) /\ TxType
    BY DEF TxInv, TxType
<1>3. rest \in Seq(TxNode) /\ (rest # << >> => more)
    <2>1. CASE tx.queue = << >>
        BY <1>2, <2>1
    <2>2. CASE tx.queue # << >>
        <3>1. Tail(tx.queue) \in Seq(TxNode) /\ Len(Tail(tx.queue)) = Len(tx.queue) - 1
            BY <1>2, <2>2
        <3>2. Tail(tx.queue) # << >> => Len(Tail(tx.queue)) > 0
            BY <1>2, <2>2
        <3>3. rest = Tail(tx.queue)
            BY <2>2
        <3>4. Len(tx.queue) \in Nat
            BY <1>2
        <3> QED BY <3>1, <3>2, <3>3, <3>4
    <2> QED BY <2>1, <2>2
<1>4. wire \in SUBSET TxNode /\ more \in BOOLEAN
    BY <1>2
<1> HIDE DEF rest, more, wire
<1>5. TxType'
    BY Zenon, <1>1, <1>2, <1>3, <1>4 DEF TxType
<1>6. tx'.queue = rest /\ tx'.active = more
    BY <1>1, <1>2 DEF TxType
<1> QED BY <1>3, <1>5, <1>6 DEF TxInv, DmaNotIdle

LEMMA TxNextPreserves == TxInv /\ [TxNext]_tx => TxInv'
<1> SUFFICES ASSUME TxInv, [TxNext]_tx PROVE TxInv'
    OBVIOUS
<1>1. CASE \E t \in TxWriter : TxStart(t)
    BY <1>1, TxStartPreserves
<1>2. CASE \E t \in TxWriter, node \in TxNode : TxPush(t, node)
    BY <1>2, TxPushPreserves
<1>3. CASE TxDmaDone
    BY <1>3, TxDmaDonePreserves
<1>4. CASE UNCHANGED tx
    BY <1>4 DEF TxInv, TxType, DmaNotIdle
<1> QED BY <1>1, <1>2, <1>3, <1>4 DEF TxNext

\* A buffer in the queue of the DMA is always on its way: the flag activated is
\* set, or its writer is between the push and the look at the flag
\* (_serial_dma_tx and the DMADONE branch of rt_hw_serial_isr).
THEOREM DmaNeverIdle == TxSpec => []DmaNotIdle
<1>1. TxInv => DmaNotIdle
    BY DEF TxInv
<1> QED BY <1>1, TxInitial, TxNextPreserves, PTL DEF TxSpec

-----------------------------------------------------------------------------
(* RingBlk.  That the blocks share no byte is not inductive: rt_rbb_blk_alloc
   looks at the first and the last block only.  What it relies on is that the
   blocks lie in the buffer in the cyclic order of their list.              *)

RbbState ==
    [list : Seq(Blk), status : [Blk -> {"UNUSED", "INITED", "PUT", "GET"}],
     buf : [Blk -> Nat], size : [Blk -> Nat], first : Nat, num : Nat]

EndOf(r, b) == r.buf[b] + r.size[b]

\* x, y and z follow each other round the buffer
Round(x, y, z) ==
    \/ x < y /\ y < z
    \/ y < z /\ z < x
    \/ z < x /\ x < y

GoesRound(r) ==
    \A i, j, k \in DOMAIN r.list : i < j /\ j < k =>
        Round(r.buf[r.list[i]], r.buf[r.list[j]], r.buf[r.list[k]])

BlocksFit(r) ==
    /\ \A b \in ToSet(r.list) :
          r.status[b] # "UNUSED" /\ r.size[b] > 0 /\ EndOf(r, b) <= RbbSize
    /\ \A b, c \in ToSet(r.list) :
          b # c => EndOf(r, b) <= r.buf[c] \/ EndOf(r, c) <= r.buf[b]

RbbGood(r) == r \in RbbState /\ IsInjective(r.list) /\ BlocksFit(r) /\ GoesRound(r)

LEMMA RbbFields ==
    ASSUME NEW r \in RbbState
    PROVE  /\ r.list \in Seq(Blk) /\ r.status \in [Blk -> {"UNUSED", "INITED", "PUT", "GET"}]
           /\ r.buf \in [Blk -> Nat] /\ r.size \in [Blk -> Nat]
           /\ r.first \in Nat /\ r.num \in Nat
           /\ ToSet(r.list) \subseteq Blk
           /\ DOMAIN r.list = 1 .. Len(r.list) /\ Len(r.list) \in Nat
           /\ \A i \in DOMAIN r.list : r.list[i] \in ToSet(r.list)
<1>1. /\ r.list \in Seq(Blk) /\ r.status \in [Blk -> {"UNUSED", "INITED", "PUT", "GET"}]
      /\ r.buf \in [Blk -> Nat] /\ r.size \in [Blk -> Nat]
      /\ r.first \in Nat /\ r.num \in Nat
  BY DEF RbbState
<1>2. DOMAIN r.list = 1 .. Len(r.list) /\ Len(r.list) \in Nat
  BY <1>1, LenProperties
<1>3. \A i \in DOMAIN r.list : r.list[i] \in ToSet(r.list) /\ r.list[i] \in Blk
  BY <1>1, <1>2, LenProperties DEF ToSet
<1>4. ToSet(r.list) \subseteq Blk
  BY <1>3 DEF ToSet
<1> QED BY <1>1, <1>2, <1>3, <1>4

\* With fewer blocks in the list, each where it was, all is still well.
LEMMA FewerBlocks ==
    ASSUME NEW r, RbbGood(r), NEW q \in RbbState, PartOf(q.list, r.list),
           \A b \in ToSet(q.list) :
               q.status[b] # "UNUSED" /\ q.buf[b] = r.buf[b] /\ q.size[b] = r.size[b]
    PROVE  RbbGood(q)
<1>1. r \in RbbState /\ IsInjective(r.list) /\ BlocksFit(r) /\ GoesRound(r)
  BY DEF RbbGood
<1>2. ToSet(q.list) \subseteq ToSet(r.list) /\ IsInjective(q.list)
  BY <1>1, RbbFields, PartElements
<1>3. BlocksFit(q)
  BY <1>1, <1>2 DEF BlocksFit, EndOf
<1>4. GoesRound(q)
  <2>1. PICK at \in [DOMAIN q.list -> DOMAIN r.list] :
            /\ \A i, j \in DOMAIN q.list : i < j => at[i] < at[j]
            /\ \A i \in DOMAIN q.list : q.list[i] = r.list[at[i]]
    BY DEF PartOf
  <2> SUFFICES ASSUME NEW i \in DOMAIN q.list, NEW j \in DOMAIN q.list,
                      NEW k \in DOMAIN q.list, i < j, j < k
               PROVE  Round(q.buf[q.list[i]], q.buf[q.list[j]], q.buf[q.list[k]])
    BY DEF GoesRound
  <2>2. /\ at[i] \in DOMAIN r.list /\ at[j] \in DOMAIN r.list /\ at[k] \in DOMAIN r.list
        /\ at[i] < at[j] /\ at[j] < at[k]
    BY <2>1
  <2>3. Round(r.buf[r.list[at[i]]], r.buf[r.list[at[j]]], r.buf[r.list[at[k]]])
    BY <1>1, <2>2 DEF GoesRound
  <2>4. \A m \in DOMAIN q.list : q.buf[q.list[m]] = r.buf[r.list[at[m]]]
    BY Zenon, <2>1, RbbFields
  <2> QED BY <2>3, <2>4
<1> QED BY <1>2, <1>3, <1>4 DEF RbbGood

\* Where n bytes can be put at the end of the list.
FitsAt(r, a, n) ==
    /\ a \in Nat /\ a + n <= RbbSize
    /\ \A b \in ToSet(r.list) : a + n <= r.buf[b] \/ EndOf(r, b) <= a
    /\ \A i, j \in DOMAIN r.list : i < j => Round(r.buf[r.list[i]], r.buf[r.list[j]], a)

\* A block that is added where it fits.
Added(r, b, a, n) ==
    [r EXCEPT !.list = Append(@, b), !.status[b] = "INITED", !.buf[b] = a, !.size[b] = n]

HasAdded(q, r, b, a, n) ==
    /\ q \in RbbState /\ IsInjective(q.list)
    /\ ToSet(q.list) = ToSet(r.list) \cup {b}
    /\ DOMAIN q.list = 1 .. Len(r.list) + 1
    /\ q.list[Len(r.list) + 1] = b
    /\ \A i \in DOMAIN r.list : q.list[i] = r.list[i]
    /\ q.status[b] = "INITED" /\ q.buf[b] = a /\ q.size[b] = n
    /\ \A c \in Blk \ {b} :
           q.status[c] = r.status[c] /\ q.buf[c] = r.buf[c] /\ q.size[c] = r.size[c]

LEMMA AddedFields ==
    ASSUME NEW r \in RbbState, IsInjective(r.list), NEW b \in Blk \ ToSet(r.list),
           NEW a \in Nat, NEW n \in Nat
    PROVE  HasAdded(Added(r, b, a, n), r, b, a, n)
<1> DEFINE l == Append(r.list, b)
           st == [r.status EXCEPT ![b] = "INITED"]
           bu == [r.buf EXCEPT ![b] = a]
           si == [r.size EXCEPT ![b] = n]
           q == [r EXCEPT !.list = l, !.status = st, !.buf = bu, !.size = si]
<1>1. /\ l \in Seq(Blk) /\ IsInjective(l) /\ ToSet(l) = ToSet(r.list) \cup {b}
  BY RbbFields, AppendElements
<1>2. /\ DOMAIN l = 1 .. Len(r.list) + 1 /\ l[Len(r.list) + 1] = b
      /\ \A i \in DOMAIN r.list : l[i] = r.list[i]
  BY RbbFields, AppendProperties, LenProperties
<1>3. /\ st \in [Blk -> {"UNUSED", "INITED", "PUT", "GET"}] /\ bu \in [Blk -> Nat]
      /\ si \in [Blk -> Nat]
  BY RbbFields
<1>4. /\ st[b] = "INITED" /\ bu[b] = a /\ si[b] = n
      /\ \A c \in Blk \ {b} : st[c] = r.status[c] /\ bu[c] = r.buf[c] /\ si[c] = r.size[c]
  BY RbbFields
<1>5. Added(r, b, a, n) = q
  BY DEF Added, RbbState
<1> HIDE DEF l, st, bu, si
<1>6. /\ q \in RbbState /\ q.list = l /\ q.status = st /\ q.buf = bu /\ q.size = si
  BY Zenon, <1>1, <1>3 DEF RbbState
<1> QED BY <1>1, <1>2, <1>4, <1>5, <1>6 DEF HasAdded

LEMMA AddedKeeps ==
    ASSUME NEW r, RbbGood(r), NEW b \in Blk \ ToSet(r.list),
           NEW a, NEW n \in Nat \ {0}, FitsAt(r, a, n)
    PROVE  RbbGood(Added(r, b, a, n))
<1> DEFINE q == Added(r, b, a, n)
           m == Len(r.list) + 1
<1>1. r \in RbbState /\ IsInjective(r.list) /\ BlocksFit(r) /\ GoesRound(r)
  BY DEF RbbGood
<1>2. /\ a \in Nat /\ a + n <= RbbSize
      /\ \A c \in ToSet(r.list) : a + n <= r.buf[c] \/ EndOf(r, c) <= a
      /\ \A i, j \in DOMAIN r.list : i < j => Round(r.buf[r.list[i]], r.buf[r.list[j]], a)
  BY DEF FitsAt
<1>3. /\ q \in RbbState /\ IsInjective(q.list) /\ ToSet(q.list) = ToSet(r.list) \cup {b}
      /\ DOMAIN q.list = 1 .. m /\ q.list[m] = b
      /\ \A i \in DOMAIN r.list : q.list[i] = r.list[i]
      /\ q.status[b] = "INITED" /\ q.buf[b] = a /\ q.size[b] = n
      /\ \A c \in Blk \ {b} :
             q.status[c] = r.status[c] /\ q.buf[c] = r.buf[c] /\ q.size[c] = r.size[c]
  <2>1. HasAdded(q, r, b, a, n)  BY <1>1, <1>2, AddedFields
  <2> HIDE DEF q
  <2> QED BY <2>1 DEF HasAdded
<1>4. /\ DOMAIN r.list = 1 .. Len(r.list) /\ Len(r.list) \in Nat /\ ToSet(r.list) \subseteq Blk
      /\ \A i \in DOMAIN r.list : r.list[i] \in ToSet(r.list)
  BY <1>1, RbbFields
<1> HIDE DEF q
<1>5. \A c \in ToSet(r.list) :
         c # b /\ q.status[c] = r.status[c] /\ q.buf[c] = r.buf[c] /\ EndOf(q, c) = EndOf(r, c)
         /\ q.size[c] = r.size[c]
  BY <1>3, <1>4 DEF EndOf
<1>6. q.buf[b] = a /\ EndOf(q, b) = a + n
  BY <1>3 DEF EndOf
<1>7. BlocksFit(q)
  <2>1. ASSUME NEW c \in ToSet(q.list)
        PROVE  q.status[c] # "UNUSED" /\ q.size[c] > 0 /\ EndOf(q, c) <= RbbSize
    <3>1. CASE c = b
      BY <3>1, <1>2, <1>3, <1>6
    <3>2. CASE c \in ToSet(r.list)
      BY <3>2, <1>1, <1>5 DEF BlocksFit
    <3> QED BY <3>1, <3>2, <1>3
  <2>2. ASSUME NEW c \in ToSet(q.list), NEW d \in ToSet(q.list), c # d
        PROVE  EndOf(q, c) <= q.buf[d] \/ EndOf(q, d) <= q.buf[c]
    <3>1. CASE c \in ToSet(r.list) /\ d \in ToSet(r.list)
      BY <2>2, <3>1, <1>1, <1>5 DEF BlocksFit
    <3>2. CASE c = b /\ d \in ToSet(r.list)
      BY <3>2, <1>2, <1>5, <1>6
    <3>3. CASE d = b /\ c \in ToSet(r.list)
      BY <3>3, <1>2, <1>5, <1>6
    <3> QED BY <2>2, <3>1, <3>2, <3>3, <1>3
  <2> QED BY <2>1, <2>2 DEF BlocksFit
<1>8. GoesRound(q)
  <2> SUFFICES ASSUME NEW i \in DOMAIN q.list, NEW j \in DOMAIN q.list,
                      NEW k \in DOMAIN q.list, i < j, j < k
               PROVE  Round(q.buf[q.list[i]], q.buf[q.list[j]], q.buf[q.list[k]])
    BY DEF GoesRound
  <2>1. i \in DOMAIN r.list /\ j \in DOMAIN r.list /\ (k \in DOMAIN r.list \/ k = m)
    BY <1>3, <1>4
  <2>2. \A x \in DOMAIN r.list : q.buf[q.list[x]] = r.buf[r.list[x]]
    BY <1>3, <1>4, <1>5
  <2>3. CASE k \in DOMAIN r.list
    BY <2>1, <2>2, <2>3, <1>1 DEF GoesRound
  <2>4. CASE k = m
    BY <2>1, <2>2, <2>4, <1>2, <1>3
  <2> QED BY <2>1, <2>3, <2>4
<1> QED BY <1>3, <1>7, <1>8 DEF RbbGood, q

\* Between which bytes the blocks lie: behind the first block as far as the
\* last, or, when they go round the end, not between the last and the first.
LEMMA BlocksBetween ==
    ASSUME NEW r, RbbGood(r), r.list # << >>,
           NEW i \in DOMAIN r.list, NEW j \in DOMAIN r.list, i < j
    PROVE  LET x == r.buf[r.list[i]]
               y == r.buf[r.list[j]]
               h == r.buf[r.list[1]]
               t == r.buf[r.list[Len(r.list)]]
           IN  /\ x \in Nat /\ y \in Nat /\ h \in Nat /\ t \in Nat
               /\ x # y
               /\ i = 1 \/ Round(h, x, y)
               /\ j = Len(r.list) \/ Round(x, y, t)
               /\ i = 1 \/ j = Len(r.list) \/ Round(h, x, t)
<1>1. r \in RbbState /\ IsInjective(r.list) /\ BlocksFit(r) /\ GoesRound(r)
  BY DEF RbbGood
<1>2. /\ DOMAIN r.list = 1 .. Len(r.list) /\ Len(r.list) \in Nat /\ ToSet(r.list) \subseteq Blk
      /\ \A k \in DOMAIN r.list : r.list[k] \in ToSet(r.list)
      /\ r.buf \in [Blk -> Nat] /\ r.size \in [Blk -> Nat]
  BY <1>1, RbbFields
<1>3. \A k \in DOMAIN r.list : r.buf[r.list[k]] \in Nat
  BY Zenon, <1>2
<1>4. 1 \in DOMAIN r.list /\ Len(r.list) \in DOMAIN r.list /\ i \in Nat /\ j \in Nat
      /\ 1 <= i /\ j <= Len(r.list)
  BY <1>2
<1>5. r.buf[r.list[i]] # r.buf[r.list[j]]
  <2>1. r.list[i] # r.list[j]
    BY <1>1, <1>4 DEF IsInjective
  <2>2. r.list[i] \in Blk /\ r.list[j] \in Blk
        /\ r.list[i] \in ToSet(r.list) /\ r.list[j] \in ToSet(r.list)
    BY <1>2
  <2>3. /\ r.size[r.list[i]] \in Nat /\ r.size[r.list[j]] \in Nat
        /\ r.size[r.list[i]] > 0 /\ r.size[r.list[j]] > 0
        /\ \/ EndOf(r, r.list[i]) <= r.buf[r.list[j]]
           \/ EndOf(r, r.list[j]) <= r.buf[r.list[i]]
    BY <1>1, <1>2, <2>1, <2>2 DEF BlocksFit
  <2> QED BY <1>3, <2>3 DEF EndOf
<1>6. \A k, l, m \in DOMAIN r.list : k < l /\ l < m =>
         Round(r.buf[r.list[k]], r.buf[r.list[l]], r.buf[r.list[m]])
  BY <1>1 DEF GoesRound
<1>7. i = 1 \/ Round(r.buf[r.list[1]], r.buf[r.list[i]], r.buf[r.list[j]])
  <2>1. i = 1 \/ 1 < i  BY <1>4
  <2> QED BY <2>1, <1>4, <1>6
<1>8. j = Len(r.list) \/ Round(r.buf[r.list[i]], r.buf[r.list[j]], r.buf[r.list[Len(r.list)]])
  <2>1. j = Len(r.list) \/ j < Len(r.list)  BY <1>2, <1>4
  <2> QED BY <2>1, <1>4, <1>6
<1>9. i = 1 \/ j = Len(r.list)
      \/ Round(r.buf[r.list[1]], r.buf[r.list[i]], r.buf[r.list[Len(r.list)]])
  <2>1. i = 1 \/ 1 < i  BY <1>4
  <2>2. i < Len(r.list)  BY <1>2, <1>4
  <2> QED BY <2>1, <2>2, <1>4, <1>6
<1> QED BY <1>3, <1>4, <1>5, <1>7, <1>8, <1>9

\* The first and the last block, and where every other one is.
EndBlocks(r) ==
    LET h == r.list[1]
        t == r.list[Len(r.list)]
    IN  /\ h \in ToSet(r.list) /\ t \in ToSet(r.list)
        /\ r.buf[h] \in Nat /\ r.buf[t] \in Nat /\ r.size[t] \in Nat
        /\ EndOf(r, t) \in Nat /\ r.buf[t] < EndOf(r, t) /\ EndOf(r, t) <= RbbSize
        /\ r.buf[h] <= RbbSize
        /\ h # t => EndOf(r, t) <= r.buf[h] \/ EndOf(r, h) <= r.buf[t]
        /\ \A b \in ToSet(r.list) \ {h, t} : Round(r.buf[h], r.buf[b], r.buf[t])
        /\ \A b \in ToSet(r.list) :
              /\ r.buf[b] \in Nat /\ r.size[b] \in Nat /\ r.size[b] > 0
              /\ EndOf(r, b) = r.buf[b] + r.size[b]
              /\ b # t => EndOf(r, b) <= r.buf[t] \/ EndOf(r, t) <= r.buf[b]

LEMMA FirstAndLast ==
    ASSUME NEW r, RbbGood(r), r.list # << >>
    PROVE  EndBlocks(r)
<1> DEFINE h == r.list[1]
           t == r.list[Len(r.list)]
<1>1. r \in RbbState /\ BlocksFit(r) /\ GoesRound(r)
  BY DEF RbbGood
<1>2. /\ DOMAIN r.list = 1 .. Len(r.list) /\ Len(r.list) \in Nat /\ ToSet(r.list) \subseteq Blk
      /\ \A k \in DOMAIN r.list : r.list[k] \in ToSet(r.list)
      /\ r.buf \in [Blk -> Nat] /\ r.size \in [Blk -> Nat]
  BY <1>1, RbbFields
<1>3. Len(r.list) > 0
  BY <1>1, <1>2, RbbFields, EmptySeq
<1>4. 1 \in DOMAIN r.list /\ Len(r.list) \in DOMAIN r.list
  BY <1>2, <1>3
<1>5. h \in ToSet(r.list) /\ t \in ToSet(r.list)
  BY <1>2, <1>4
<1>6. \A b \in ToSet(r.list) :
         /\ r.buf[b] \in Nat /\ r.size[b] \in Nat /\ r.size[b] > 0
         /\ EndOf(r, b) = r.buf[b] + r.size[b] /\ EndOf(r, b) <= RbbSize
  BY <1>1, <1>2 DEF BlocksFit, EndOf
<1>7. ASSUME NEW b \in ToSet(r.list), b # h, b # t
      PROVE  Round(r.buf[h], r.buf[b], r.buf[t])
  <2>1. PICK k \in DOMAIN r.list : r.list[k] = b
    BY DEF ToSet
  <2>2. k # 1 /\ k # Len(r.list)
    BY <1>7, <2>1
  <2>3. 1 < k /\ k < Len(r.list)
    BY <1>2, <2>1, <2>2
  <2> QED BY <1>1, <1>4, <2>1, <2>3 DEF GoesRound
<1>8. \A b \in ToSet(r.list) : b # t => EndOf(r, b) <= r.buf[t] \/ EndOf(r, t) <= r.buf[b]
  BY <1>1, <1>5 DEF BlocksFit
<1>10. h # t => EndOf(r, t) <= r.buf[h] \/ EndOf(r, h) <= r.buf[t]
  BY <1>5, <1>8
<1> HIDE DEF h, t
<1>9. /\ EndOf(r, t) \in Nat /\ r.buf[t] < EndOf(r, t) /\ EndOf(r, t) <= RbbSize
      /\ r.buf[h] <= RbbSize /\ r.buf[h] \in Nat /\ r.buf[t] \in Nat /\ r.size[t] \in Nat
  <2>1. RbbSize \in Nat  BY RingBlkAssumption
  <2> QED BY <1>5, <1>6, <2>1
<1> QED BY <1>5, <1>6, <1>7, <1>8, <1>9, <1>10 DEF EndBlocks, h, t

\* The first block is not behind the last: there is room up to the end of the
\* buffer, and before the first block.
LEMMA RoomBehind ==
    ASSUME NEW r, RbbGood(r), r.list # << >>, NEW n \in Nat \ {0},
           r.buf[r.list[1]] <= r.buf[r.list[Len(r.list)]],
           RbbSize - EndOf(r, r.list[Len(r.list)]) >= n
    PROVE  FitsAt(r, EndOf(r, r.list[Len(r.list)]), n)
<1> DEFINE h == r.list[1]
           t == r.list[Len(r.list)]
           a == EndOf(r, t)
<1>0. RbbSize \in Nat /\ n \in Nat
  BY RingBlkAssumption
<1>1. /\ h \in ToSet(r.list) /\ t \in ToSet(r.list)
      /\ r.buf[h] \in Nat /\ r.buf[t] \in Nat
      /\ a \in Nat /\ r.buf[t] < a /\ a <= RbbSize
      /\ \A b \in ToSet(r.list) \ {h, t} : Round(r.buf[h], r.buf[b], r.buf[t])
      /\ \A b \in ToSet(r.list) :
            /\ r.buf[b] \in Nat /\ r.size[b] \in Nat /\ r.size[b] > 0
            /\ EndOf(r, b) = r.buf[b] + r.size[b]
            /\ b # t => EndOf(r, b) <= r.buf[t] \/ a <= r.buf[b]
  BY FirstAndLast DEF EndBlocks
<1>2. r.buf[h] <= r.buf[t] /\ a + n <= RbbSize
  BY <1>0, <1>1
<1>3. \A i, j \in DOMAIN r.list : i < j =>
         LET x == r.buf[r.list[i]]
             y == r.buf[r.list[j]]
         IN  /\ x \in Nat /\ y \in Nat
             /\ x # y
             /\ i = 1 \/ Round(r.buf[h], x, y)
             /\ j = Len(r.list) \/ Round(x, y, r.buf[t])
             /\ i = 1 \/ j = Len(r.list) \/ Round(r.buf[h], x, r.buf[t])
  BY BlocksBetween
<1>4. \A i \in DOMAIN r.list : (i = 1 => r.list[i] = h) /\ (i = Len(r.list) => r.list[i] = t)
  OBVIOUS
<1> HIDE DEF a, h, t
<1>5. ASSUME NEW b \in ToSet(r.list) PROVE EndOf(r, b) <= a
  <2>1. CASE b = t
    BY <2>1, <1>1 DEF a
  <2>2. CASE b # t
    <3>1. b = h \/ Round(r.buf[h], r.buf[b], r.buf[t])
      BY <2>2, <1>1
    <3> QED BY SMTT(30), <2>2, <3>1, <1>1, <1>2 DEF Round
  <2> QED BY <2>1, <2>2
<1>6. ASSUME NEW i \in DOMAIN r.list, NEW j \in DOMAIN r.list, i < j
      PROVE  Round(r.buf[r.list[i]], r.buf[r.list[j]], a)
  <2> DEFINE x == r.buf[r.list[i]]
             y == r.buf[r.list[j]]
  <2>1. /\ x \in Nat /\ y \in Nat /\ x # y
        /\ i = 1 \/ Round(r.buf[h], x, y)
        /\ j = Len(r.list) \/ Round(x, y, r.buf[t])
        /\ i = 1 \/ j = Len(r.list) \/ Round(r.buf[h], x, r.buf[t])
    BY <1>3, <1>6
  <2>2. (i = 1 => x = r.buf[h]) /\ (j = Len(r.list) => y = r.buf[t])
    BY <1>4
  <2> HIDE DEF x, y
  <2> QED BY SMTT(30), <1>1, <1>2, <2>1, <2>2 DEF Round, x, y
<1> QED BY <1>1, <1>2, <1>5, <1>6 DEF FitsAt, a, t

LEMMA RoomBefore ==
    ASSUME NEW r, RbbGood(r), r.list # << >>, NEW n \in Nat \ {0},
           r.buf[r.list[1]] <= r.buf[r.list[Len(r.list)]], r.buf[r.list[1]] >= n
    PROVE  FitsAt(r, 0, n)
<1> DEFINE h == r.list[1]
           t == r.list[Len(r.list)]
<1>0. RbbSize \in Nat /\ n \in Nat /\ n > 0
  BY RingBlkAssumption
<1>1. /\ r.buf[h] \in Nat /\ r.buf[t] \in Nat /\ r.buf[h] <= RbbSize
      /\ \A b \in ToSet(r.list) \ {h, t} : Round(r.buf[h], r.buf[b], r.buf[t])
      /\ \A b \in ToSet(r.list) : r.buf[b] \in Nat
  BY FirstAndLast DEF EndBlocks
<1>2. r.buf[h] <= r.buf[t] /\ n <= r.buf[h]
  BY <1>0, <1>1
<1>3. \A i, j \in DOMAIN r.list : i < j =>
         LET x == r.buf[r.list[i]]
             y == r.buf[r.list[j]]
         IN  /\ x \in Nat /\ y \in Nat
             /\ x # y
             /\ i = 1 \/ Round(r.buf[h], x, y)
             /\ j = Len(r.list) \/ Round(x, y, r.buf[t])
             /\ i = 1 \/ j = Len(r.list) \/ Round(r.buf[h], x, r.buf[t])
  BY BlocksBetween
<1>4. \A i \in DOMAIN r.list : (i = 1 => r.list[i] = h) /\ (i = Len(r.list) => r.list[i] = t)
  OBVIOUS
<1> HIDE DEF h, t
<1>5. ASSUME NEW b \in ToSet(r.list) PROVE n <= r.buf[b]
  <2>1. b = h \/ b = t \/ Round(r.buf[h], r.buf[b], r.buf[t])
    BY <1>1
  <2> QED BY <2>1, <1>0, <1>1, <1>2 DEF Round
<1>6. ASSUME NEW i \in DOMAIN r.list, NEW j \in DOMAIN r.list, i < j
      PROVE  Round(r.buf[r.list[i]], r.buf[r.list[j]], 0)
  <2> DEFINE x == r.buf[r.list[i]]
             y == r.buf[r.list[j]]
  <2>1. /\ x \in Nat /\ y \in Nat /\ x # y
        /\ i = 1 \/ Round(r.buf[h], x, y)
        /\ j = Len(r.list) \/ Round(x, y, r.buf[t])
        /\ i = 1 \/ j = Len(r.list) \/ Round(r.buf[h], x, r.buf[t])
    BY <1>3, <1>6
  <2>2. (i = 1 => x = r.buf[h]) /\ (j = Len(r.list) => y = r.buf[t])
    BY <1>4
  <2> HIDE DEF x, y
  <2> QED BY SMTT(30), <1>0, <1>1, <1>2, <2>1, <2>2 DEF Round, x, y
<1>7. 0 + n <= RbbSize /\ \A b \in ToSet(r.list) : 0 + n <= r.buf[b]
  BY <1>0, <1>1, <1>2, <1>5
<1> QED BY <1>6, <1>7 DEF FitsAt

\* The blocks go round the end: there is room between the last and the first.
LEMMA RoomBetween ==
    ASSUME NEW r, RbbGood(r), r.list # << >>, NEW n \in Nat \ {0},
           ~(r.buf[r.list[1]] <= r.buf[r.list[Len(r.list)]]),
           r.buf[r.list[1]] - EndOf(r, r.list[Len(r.list)]) >= n
    PROVE  FitsAt(r, EndOf(r, r.list[Len(r.list)]), n)
<1> DEFINE h == r.list[1]
           t == r.list[Len(r.list)]
           a == EndOf(r, t)
<1>0. RbbSize \in Nat /\ n \in Nat /\ n > 0
  BY RingBlkAssumption
<1>1. /\ r.buf[h] \in Nat /\ r.buf[t] \in Nat /\ r.buf[h] <= RbbSize
      /\ a \in Nat /\ r.buf[t] < a
      /\ \A b \in ToSet(r.list) \ {h, t} : Round(r.buf[h], r.buf[b], r.buf[t])
      /\ \A b \in ToSet(r.list) :
            /\ r.buf[b] \in Nat /\ r.size[b] \in Nat /\ r.size[b] > 0
            /\ EndOf(r, b) = r.buf[b] + r.size[b]
            /\ b # t => EndOf(r, b) <= r.buf[t] \/ a <= r.buf[b]
  BY FirstAndLast DEF EndBlocks
<1>2. r.buf[t] < r.buf[h] /\ a + n <= r.buf[h]
  BY <1>0, <1>1
<1>3. \A i, j \in DOMAIN r.list : i < j =>
         LET x == r.buf[r.list[i]]
             y == r.buf[r.list[j]]
         IN  /\ x \in Nat /\ y \in Nat
             /\ x # y
             /\ i = 1 \/ Round(r.buf[h], x, y)
             /\ j = Len(r.list) \/ Round(x, y, r.buf[t])
             /\ i = 1 \/ j = Len(r.list) \/ Round(r.buf[h], x, r.buf[t])
  BY BlocksBetween
<1>4. \A i \in DOMAIN r.list : (i = 1 => r.list[i] = h) /\ (i = Len(r.list) => r.list[i] = t)
  OBVIOUS
<1> HIDE DEF a, h, t
<1>5. ASSUME NEW b \in ToSet(r.list) PROVE a + n <= r.buf[b] \/ EndOf(r, b) <= a
  <2>1. CASE b = t
    BY <2>1, <1>1 DEF a
  <2>2. CASE b = h
    BY <2>2, <1>2
  <2>3. CASE b # t /\ b # h
    <3>1. Round(r.buf[h], r.buf[b], r.buf[t])
      BY <2>3, <1>1
    <3> QED BY SMTT(60), <2>3, <3>1, <1>0, <1>1, <1>2 DEF Round
  <2> QED BY <2>1, <2>2, <2>3
<1>6. ASSUME NEW i \in DOMAIN r.list, NEW j \in DOMAIN r.list, i < j
      PROVE  Round(r.buf[r.list[i]], r.buf[r.list[j]], a)
  <2> DEFINE x == r.buf[r.list[i]]
             y == r.buf[r.list[j]]
  <2>1. /\ x \in Nat /\ y \in Nat /\ x # y
        /\ i = 1 \/ Round(r.buf[h], x, y)
        /\ j = Len(r.list) \/ Round(x, y, r.buf[t])
        /\ i = 1 \/ j = Len(r.list) \/ Round(r.buf[h], x, r.buf[t])
    BY <1>3, <1>6
  <2>2. (i = 1 => x = r.buf[h]) /\ (j = Len(r.list) => y = r.buf[t])
    BY <1>4
  <2> HIDE DEF x, y
  <2>3. \A b \in ToSet(r.list) : b = h \/ b = t \/ r.buf[b] < r.buf[t] \/ r.buf[h] < r.buf[b]
    BY <1>1, <1>2 DEF Round
  <2>4. r.list[i] \in ToSet(r.list) /\ r.list[j] \in ToSet(r.list)
    BY DEF ToSet
  <2>5. /\ x = r.buf[h] \/ x = r.buf[t] \/ x < r.buf[t] \/ r.buf[h] < x
        /\ y = r.buf[h] \/ y = r.buf[t] \/ y < r.buf[t] \/ r.buf[h] < y
    BY <2>3, <2>4 DEF x, y
  <2> QED BY SMTT(30), <1>0, <1>1, <1>2, <2>1, <2>2, <2>5 DEF Round, x, y
<1>7. a + n <= RbbSize
  BY <1>0, <1>1, <1>2
<1> QED BY <1>1, <1>5, <1>6, <1>7 DEF FitsAt, a, t

LEMMA FirstOf ==
    ASSUME NEW x \in Nat, NEW seq \in Seq(Nat)
    PROVE  (<<x>> \o seq)[1] = x /\ << >> \o seq = seq
<1>1. <<x>> \in Seq(Nat) /\ Len(<<x>>) = 1 /\ <<x>>[1] = x
  OBVIOUS
<1>2. (<<x>> \o seq)[1] = x
  <2>1. 1 \in 1 .. Len(<<x>>) + Len(seq)
    BY <1>1, LenProperties
  <2> QED BY <1>1, <2>1, ConcatProperties
<1> QED BY <1>2, ConcatEmptySeq

\* rt_rbb_blk_alloc finds a place that is free and at the end of the cycle.
LEMMA PlacesFit ==
    ASSUME RbbGood(rbb), NEW n \in Nat \ {0}, n <= RbbSize, Places(n) # << >>
    PROVE  FitsAt(rbb, Places(n)[1], n)
<1> DEFINE h == rbb.list[1]
           t == rbb.list[Len(rbb.list)]
<1>0. RbbSize \in Nat /\ n \in Nat
  BY RingBlkAssumption
<1>1. CASE rbb.list = << >>
  <2>1. Places(n) = <<0>>
    BY <1>1 DEF Places
  <2>2. DOMAIN rbb.list = {} /\ ToSet(rbb.list) = {}
    BY <1>1 DEF ToSet
  <2>3. FitsAt(rbb, 0, n)
    BY <1>0, <2>2 DEF FitsAt
  <2> QED BY <2>1, <2>3
<1>2. CASE rbb.list # << >>
  <2>0. EndOf(rbb, t) \in Nat /\ End(t) = EndOf(rbb, t)
    BY <1>2, FirstAndLast DEF EndBlocks, End, EndOf
  <2>1. CASE rbb.buf[h] <= rbb.buf[t]
    <3> DEFINE second == IF rbb.buf[h] >= n THEN <<0>> ELSE << >>
    <3>1. Places(n) = (IF RbbSize - End(t) >= n THEN <<End(t)>> ELSE << >>) \o second
      BY <1>2, <2>1 DEF Places
    <3>2. second \in Seq(Nat)
      OBVIOUS
    <3>3. CASE RbbSize - End(t) >= n
      <4> HIDE DEF second
      <4>1. Places(n)[1] = EndOf(rbb, t)
        BY <2>0, <3>1, <3>2, <3>3, FirstOf
      <4> QED BY <1>2, <2>0, <2>1, <3>3, <4>1, RoomBehind
    <3>4. CASE ~(RbbSize - End(t) >= n)
      <4>1. Places(n) = second
        <5> HIDE DEF second
        <5> QED BY <3>1, <3>2, <3>4, FirstOf
      <4>2. rbb.buf[h] >= n
        BY <4>1
      <4>3. Places(n) = <<0>>
        BY <4>1, <4>2
      <4> QED BY <1>2, <2>1, <4>2, <4>3, RoomBefore
    <3> QED BY <3>3, <3>4
  <2>2. CASE ~(rbb.buf[h] <= rbb.buf[t])
    <3>1. Places(n) = IF rbb.buf[h] - End(t) >= n THEN <<End(t)>> ELSE << >>
      BY <1>2, <2>2 DEF Places
    <3>2. rbb.buf[h] - End(t) >= n /\ Places(n)[1] = EndOf(rbb, t)
      BY <2>0, <3>1
    <3> QED BY <1>2, <2>0, <2>2, <3>2, RoomBetween
  <2> QED BY <2>1, <2>2
<1> QED BY <1>1, <1>2

\* The block that rt_rbb_blk_alloc takes is one that nobody uses.
LEMMA FirstUnusedIsUnused ==
    ASSUME Unused # {}
    PROVE  FirstUnused \in Unused
<1>1. Unused \in SUBSET Nat
  BY RingBlkAssumption DEF Unused, Blk
<1> HIDE DEF Unused
<1>2. \E b \in Unused : \A c \in Unused : b <= c
  BY <1>1, LeastElement
<1> QED BY <1>2 DEF FirstUnused

LEMMA RbbAllocPreserves ==
    ASSUME RbbGood(rbb), NEW n \in Nat \ {0}, n <= RbbSize, RbbAlloc(n)
    PROVE  RbbGood(rbb')
<1> DEFINE b == FirstUnused
           a == Places(n)[1]
<1>1. b \in Unused /\ Places(n) # << >>
  BY FirstUnusedIsUnused DEF RbbAlloc
<1>2. b \in Blk \ ToSet(rbb.list)
  BY <1>1 DEF Unused, RbbGood, BlocksFit
<1>3. FitsAt(rbb, a, n)
  BY <1>1, PlacesFit
<1>4. rbb' = Added(rbb, b, a, n)
  BY DEF RbbAlloc, Added
<1> QED BY <1>2, <1>3, <1>4, AddedKeeps

\* rt_rbb_blk_put and rt_rbb_blk_get change what a block is used for.
LEMMA StatusKeeps ==
    ASSUME NEW r, RbbGood(r), NEW b \in Blk, NEW st \in {"PUT", "GET"}
    PROVE  RbbGood([r EXCEPT !.status[b] = st])
<1> DEFINE st1 == [r.status EXCEPT ![b] = st]
           q == [r EXCEPT !.status = st1]
<1>1. r \in RbbState /\ IsInjective(r.list) /\ BlocksFit(r) /\ GoesRound(r)
  BY DEF RbbGood
<1>2. st1 \in [Blk -> {"UNUSED", "INITED", "PUT", "GET"}]
  BY <1>1, RbbFields
<1>3. \A c \in ToSet(r.list) : st1[c] # "UNUSED"
  BY <1>1, RbbFields DEF BlocksFit
<1>4. [r EXCEPT !.status[b] = st] = q
  BY <1>1 DEF RbbState
<1> HIDE DEF st1
<1>5. q \in RbbState /\ q.status = st1 /\ q.list = r.list /\ q.buf = r.buf /\ q.size = r.size
  BY Zenon, <1>1, <1>2 DEF RbbState
<1> HIDE DEF q
<1>6. BlocksFit(q)
  BY <1>1, <1>3, <1>5 DEF BlocksFit, EndOf
<1>7. GoesRound(q)
  BY <1>1, <1>5 DEF GoesRound
<1> QED BY <1>1, <1>4, <1>5, <1>6, <1>7 DEF RbbGood

LEMMA FreedKeeps ==
    ASSUME NEW r, RbbGood(r), NEW b \in Blk
    PROVE  RbbGood(Freed(r, b))
<1> DEFINE l == Without(r.list, b)
           st == [r.status EXCEPT ![b] = "UNUSED"]
           bu == [r.buf EXCEPT ![b] = 0]
           si == [r.size EXCEPT ![b] = 0]
           q == [r EXCEPT !.list = l, !.status = st, !.buf = bu, !.size = si]
<1>1. r \in RbbState /\ IsInjective(r.list) /\ BlocksFit(r)
  BY DEF RbbGood
<1>2. l \in Seq(Blk) /\ PartOf(l, r.list) /\ ToSet(l) = ToSet(r.list) \ {b}
  BY <1>1, RbbFields, WithoutIsPart, WithoutElements
<1>3. /\ st \in [Blk -> {"UNUSED", "INITED", "PUT", "GET"}] /\ bu \in [Blk -> Nat]
      /\ si \in [Blk -> Nat]
      /\ \A c \in Blk \ {b} : st[c] = r.status[c] /\ bu[c] = r.buf[c] /\ si[c] = r.size[c]
  BY <1>1, RbbFields
<1>4. Freed(r, b) = q
  BY <1>1 DEF Freed, RbbState
<1> HIDE DEF l, st, bu, si
<1>5. /\ q \in RbbState /\ q.list = l /\ q.status = st /\ q.buf = bu /\ q.size = si
  BY Zenon, <1>1, <1>2, <1>3 DEF RbbState
<1> HIDE DEF q
<1>6. \A c \in ToSet(l) :
         st[c] # "UNUSED" /\ bu[c] = r.buf[c] /\ si[c] = r.size[c]
  BY Zenon, <1>1, <1>2, <1>3, RbbFields DEF BlocksFit
<1> QED BY <1>2, <1>4, <1>5, <1>6, FewerBlocks

LEMMA FirstPutInList ==
    ASSUME rbb.list \in Seq(Blk), FirstPut > 0
    PROVE  FirstPut \in 1 .. Len(rbb.list)
<1> DEFINE I == {i \in 1 .. Len(rbb.list) : rbb.status[rbb.list[i]] = "PUT"}
<1>1. FirstPut = IF I # {} THEN Min(I) ELSE 0
  BY DEF FirstPut, SelectInSeq
<1>2. I \in SUBSET Nat /\ I \subseteq 1 .. Len(rbb.list)
  BY LenProperties
<1> HIDE DEF I
<1>3. CASE I # {}
  <2>1. \E i \in I : \A j \in I : i <= j
    BY <1>2, <1>3, LeastElement
  <2>2. Min(I) \in I
    BY <2>1 DEF Min
  <2> QED BY Zenon, <1>1, <1>2, <1>3, <2>2
<1>4. CASE I = {}
  <2>1. FirstPut = 0  BY <1>1, <1>4
  <2> QED BY <2>1
<1> QED BY <1>3, <1>4

\* rt_rbb_blk_queue_get takes the first put block, and none beyond the last.
LEMMA TakenInList ==
    ASSUME rbb.list \in Seq(Blk), FirstPut \in 1 .. Len(rbb.list), NEW max
    PROVE  /\ Taken(max) \in Nat
           /\ FirstPut + Taken(max) \in FirstPut + 1 .. Len(rbb.list) + 1
<1> DEFINE n == Len(rbb.list) - FirstPut
           more == {k \in 1 .. n : \A j \in 1 .. k : Joins(max, j)}
<1>0. Len(rbb.list) \in Nat /\ n \in Nat /\ FirstPut \in Nat
  BY LenProperties
<1>1. Taken(max) = 1 + Cardinality(more)
  BY DEF Taken
<1>2. more \subseteq 1 .. n
  OBVIOUS
<1> HIDE DEF more
<1>3. IsFiniteSet(1 .. n) /\ Cardinality(1 .. n) = n
  <2>1. 1 \in Int /\ n \in Int  BY <1>0
  <2> HIDE DEF n
  <2>2. IsFiniteSet(1 .. n) /\ Cardinality(1 .. n) = IF 1 > n THEN 0 ELSE n - 1 + 1
    BY <2>1, FS_Interval
  <2> QED BY <1>0, <2>2
<1>4. Cardinality(more) \in Nat /\ Cardinality(more) <= n
  BY ZenonT(40), <1>2, <1>3, FS_Subset, FS_CardinalityType
<1> QED BY <1>0, <1>1, <1>4

LEMMA RbbQueueGetPreserves ==
    ASSUME RbbGood(rbb), NEW max, RbbQueueGet(max)
    PROVE  RbbGood(rbb')
<1> DEFINE p == FirstPut
           next == p + Taken(max)
           taken == ToSet(SubSeq(rbb.list, p, next - 1))
           l == SubSeq(rbb.list, 1, p - 1) \o SubSeq(rbb.list, next, Len(rbb.list))
           st == [b \in Blk |-> IF b \in taken THEN "GET" ELSE rbb.status[b]]
           q == [rbb EXCEPT !.list = l, !.status = st, !.first = rbb.list[p], !.num = Taken(max)]
<1>1. rbb \in RbbState /\ IsInjective(rbb.list) /\ BlocksFit(rbb)
  BY DEF RbbGood
<1>2. p \in 1 .. Len(rbb.list) /\ Len(rbb.list) \in Nat /\ rbb.list \in Seq(Blk)
  BY <1>1, RbbFields, FirstPutInList DEF RbbQueueGet
<1>3. Taken(max) \in Nat /\ next \in p + 1 .. Len(rbb.list) + 1
  BY <1>2, TakenInList
<1>4. rbb' = q
  BY <1>1 DEF RbbQueueGet, RbbState
<1>5. rbb.list[p] \in Nat
  <2>1. rbb.list[p] \in Blk
    BY <1>2, LenProperties
  <2> QED BY <2>1, RingBlkAssumption DEF Blk
<1>6. l \in Seq(Blk) /\ PartOf(l, rbb.list)
  <2> HIDE DEF p, next
  <2>1. p \in 1 .. Len(rbb.list) + 1 /\ next \in p .. Len(rbb.list) + 1
    BY <1>2, <1>3
  <2> QED BY <1>2, <2>1, CutIsPart
<1>7. st \in [Blk -> {"UNUSED", "INITED", "PUT", "GET"}]
  BY <1>1, RbbFields
<1>8. \A b \in ToSet(rbb.list) : st[b] # "UNUSED"
  BY <1>1, RbbFields DEF BlocksFit
<1> HIDE DEF p, l, st
<1>9. /\ q \in RbbState /\ q.list = l /\ q.status = st /\ q.buf = rbb.buf
       /\ q.size = rbb.size
  BY Zenon, <1>1, <1>3, <1>5, <1>6, <1>7 DEF RbbState
<1> HIDE DEF q
<1>10. ToSet(l) \subseteq ToSet(rbb.list)
  BY <1>2, <1>6, PartElements
<1> QED BY <1>4, <1>6, <1>8, <1>9, <1>10, FewerBlocks

LEMMA RbbQueueFreePreserves ==
    ASSUME RbbGood(rbb), RbbQueueFree
    PROVE  RbbGood(rbb')
<1> DEFINE f == Freed(rbb, rbb.first)
           q == [f EXCEPT !.first = rbb.first + 1, !.num = rbb.num - 1]
<1>1. rbb \in RbbState /\ rbb.num > 0 /\ rbb.first \in Blk
  BY DEF RbbGood, RbbQueueFree
<1>2. RbbGood(f)
  BY <1>1, FreedKeeps
<1>3. f.first = rbb.first /\ f.num = rbb.num
  BY <1>1 DEF Freed, RbbState
<1> HIDE DEF f
<1>4. f \in RbbState /\ IsInjective(f.list) /\ BlocksFit(f) /\ GoesRound(f)
  BY <1>2 DEF RbbGood
<1>5. rbb.first + 1 \in Nat /\ rbb.num - 1 \in Nat
  BY <1>1, RbbFields
<1>6. /\ q \in RbbState /\ q.list = f.list /\ q.status = f.status /\ q.buf = f.buf
      /\ q.size = f.size
  BY Zenon, <1>4, <1>5 DEF RbbState
<1>7. rbb' = q
  <2>1. rbb' = [Freed(rbb, rbb.first) EXCEPT !.first = @ + 1, !.num = @ - 1]
    BY DEF RbbQueueFree
  <2> QED BY <1>3, <1>4, <2>1 DEF f, RbbState
<1> HIDE DEF q
<1>8. BlocksFit(q) /\ GoesRound(q)
  BY <1>4, <1>6 DEF BlocksFit, GoesRound, EndOf
<1> QED BY <1>4, <1>6, <1>7, <1>8 DEF RbbGood

LEMMA RbbNextPreserves ==
    ASSUME \A n \in BlkSize : n <= RbbSize, RbbGood(rbb), [RingBlkNext]_rbb
    PROVE  RbbGood(rbb')
<1>0. BlkSize \subseteq Nat \ {0}
  BY RingBlkAssumption
<1>1. CASE \E n \in BlkSize : RbbAlloc(n)
  BY <1>0, <1>1, RbbAllocPreserves
<1>2. CASE \E b \in Blk : RbbPut(b)
  <2>1. PICK b \in Blk : rbb' = [rbb EXCEPT !.status[b] = "PUT"]
    BY Zenon, <1>2 DEF RbbPut
  <2> QED BY Zenon, <2>1, StatusKeeps
<1>3. CASE \E b \in Blk : RbbFree(b)
  BY <1>3, FreedKeeps DEF RbbFree
<1>4. CASE RbbGet
  <2>1. rbb.list \in Seq(Blk)
    BY RbbFields DEF RbbGood
  <2>2. FirstPut \in 1 .. Len(rbb.list)
    BY <1>4, <2>1, FirstPutInList DEF RbbGet
  <2>3. rbb.list[FirstPut] \in Blk
    BY <2>1, <2>2, LenProperties
  <2>4. rbb' = [rbb EXCEPT !.status[rbb.list[FirstPut]] = "GET"]
    BY <1>4 DEF RbbGet
  <2> DEFINE b == rbb.list[FirstPut]
  <2> HIDE DEF b
  <2> QED BY Zenon, <2>3, <2>4, StatusKeeps DEF b
<1>5. CASE RbbQueueFree
  BY <1>5, RbbQueueFreePreserves
<1>6. CASE \E max \in BlkSize : RbbQueueGet(max)
  BY <1>6, RbbQueueGetPreserves
<1>7. CASE UNCHANGED rbb
  BY <1>7
<1> QED BY <1>1, <1>2, <1>3, <1>4, <1>5, <1>6, <1>7 DEF RingBlkNext

LEMMA RbbInitial == RbbInit => RbbGood(rbb)
<1> SUFFICES ASSUME RbbInit PROVE RbbGood(rbb)
  OBVIOUS
<1>1. rbb.list = << >> /\ rbb \in RbbState
  BY DEF RbbInit, RbbState
<1>2. DOMAIN rbb.list = {} /\ ToSet(rbb.list) = {} /\ IsInjective(rbb.list)
  BY <1>1 DEF ToSet, IsInjective
<1> QED BY <1>1, <1>2 DEF RbbGood, BlocksFit, GoesRound

\* However blocks are allocated, put, got and freed (ringblk_buf.c), those in the
\* list share no byte and end inside the buffer, as long as no block is asked for
\* that is larger than the buffer, which rt_rbb_blk_alloc does not check.
THEOREM RbbBlocksAlwaysDisjoint ==
    ASSUME \A n \in BlkSize : n <= RbbSize
    PROVE  RbbSpec => []RbbBlocksDisjoint
<1>1. RbbGood(rbb) => RbbBlocksDisjoint
  BY DEF RbbGood, BlocksFit, RbbBlocksDisjoint, End, EndOf, Unused
<1>2. RbbGood(rbb) /\ [RingBlkNext]_rbb => RbbGood(rbb)'
  BY RbbNextPreserves
<1> QED BY <1>1, <1>2, RbbInitial, PTL DEF RbbSpec

-----------------------------------------------------------------------------
(* Descriptors.  What is true of the table f and the calls c; n references of
   a call are counted as n slots.                                            *)

FdTable == 0 .. FdMax - 1
FdLabel == {"user", "open", "opening", "closing", "put", "put_twice", "using"}
Holding == {"open", "opening", "closing"}

TableType ==
    [maxfd : 0 .. FdMax, fds : [FdTable -> FdStruct \cup {NoFd}], ref : [FdStruct -> Nat],
     open : SUBSET FdStruct, owned : SUBSET FdTable]
CallType == [at : FdLabel, fd : FdTable, d : FdStruct \cup {NoFd}]

\* how many references a call holds to what its descriptor stands for
Weight(at) ==
    IF at = "user" THEN 0
    ELSE IF at \in {"opening", "closing", "put_twice"} THEN 2 ELSE 1

UsesBy(x, fds, d) == IF fds[x.fd] = d THEN Weight(x.at) ELSE 0

Slots(g) == {r \in FdUser \X {1, 2} : r[2] <= g[r[1]]}
OwnedOf(f, d) == {fd \in f.owned : f.fds[fd] = d}

Calling(c, fds, d) == Cardinality(Slots([t \in FdUser |-> UsesBy(c[t], fds, d)]))
Counted(f, c, d) == Calling(c, f.fds, d) + Cardinality(OwnedOf(f, d))

InTable(f, d) == \E i \in FdTable : f.fds[i] = d

\* a call stands behind an entry that is taken, and knows what is in it
CallOk(x, fds) ==
    /\ x.d = NoFd <=> x.at \in {"user", "open"}
    /\ x.at # "user" => fds[x.fd] # NoFd
    /\ x.at = "user" => x = InNoCall
    /\ x.d # NoFd => fds[x.fd] = x.d

TableOk(f, c) ==
    /\ \A d \in FdStruct :
          /\ InTable(f, d) <=> Counted(f, c, d) > 0
          /\ InTable(f, d) => f.ref[d] = Counted(f, c, d)
    /\ \A i, j \in FdTable : f.fds[i] = f.fds[j] /\ f.fds[i] # NoFd => i = j
    /\ \A i \in FdTable : i >= f.maxfd => f.fds[i] = NoFd

\* a descriptor is a program's, or that of one call that opens or closes it
OwnersOk(f, c) ==
    /\ \A fd \in f.owned : f.fds[fd] \in f.open
    /\ \A t \in FdUser :
          /\ c[t].at = "closing" => c[t].d \in f.open
          /\ c[t].at \in Holding =>
                /\ c[t].fd \notin f.owned
                /\ \A u \in FdUser \ {t} : c[u].at \in Holding => c[u].fd # c[t].fd

FdGood(f, c) ==
    /\ f \in TableType /\ c \in [FdUser -> CallType]
    /\ \A t \in FdUser : CallOk(c[t], f.fds)
    /\ TableOk(f, c) /\ OwnersOk(f, c)

LEMMA FdFields ==
    ASSUME NEW f \in TableType
    PROVE  /\ f.maxfd \in 0 .. FdMax /\ f.fds \in [FdTable -> FdStruct \cup {NoFd}]
           /\ f.ref \in [FdStruct -> Nat] /\ f.open \in SUBSET FdStruct
           /\ f.owned \in SUBSET FdTable
           /\ FdMax \in Nat \ {0} /\ NoFd \notin FdStruct /\ 0 \in FdTable
BY FdAssumption DEF TableType, FdTable

LEMMA CallFields ==
    ASSUME NEW x \in CallType
    PROVE  x.at \in FdLabel /\ x.fd \in FdTable /\ x.d \in FdStruct \cup {NoFd}
BY DEF CallType

LEMMA WeightType == \A at : Weight(at) \in 0 .. 2
BY DEF Weight

\* The slots of one user.
LEMMA OwnSlots ==
    ASSUME NEW t, NEW n \in 0 .. 2
    PROVE  LET own == {r \in {t} \X {1, 2} : r[2] <= n} IN
           IsFiniteSet(own) /\ Cardinality(own) = n
<1> DEFINE own == {r \in {t} \X {1, 2} : r[2] <= n}
<1>1. ASSUME n = 0 PROVE IsFiniteSet(own) /\ Cardinality(own) = n
  <2>1. own = {}
    BY <1>1
  <2> QED BY <1>1, <2>1, FS_EmptySet
<1> DEFINE x == <<t, 1>>
           y == <<t, 2>>
<1>2. /\ n = 1 => own = {x}
      /\ n = 2 => own = {x} \cup {y}
      /\ x # y
  OBVIOUS
<1> HIDE DEF x, y, own
<1>3. IsFiniteSet({x}) /\ Cardinality({x}) = 1
  BY Zenon, FS_Singleton
<1>4. IsFiniteSet({x} \cup {y}) /\ Cardinality({x} \cup {y}) = 2
  <2>1. y \notin {x}
    BY <1>2
  <2> QED BY <1>3, <2>1, FS_AddElement
<1>5. n = 0 \/ n = 1 \/ n = 2
  OBVIOUS
<1>6. IsFiniteSet(own) /\ Cardinality(own) = n
  BY <1>1, <1>2, <1>3, <1>4, <1>5
<1> QED BY <1>6 DEF own

OthersSlots(g, t) == {r \in Slots(g) : r[1] # t}

\* The slots are those of one user and those of the others.
LEMMA SlotsSplit ==
    ASSUME NEW g \in [FdUser -> 0 .. 2], NEW t \in FdUser
    PROVE  /\ IsFiniteSet(OthersSlots(g, t)) /\ Cardinality(OthersSlots(g, t)) \in Nat
           /\ Cardinality(Slots(g)) = Cardinality(OthersSlots(g, t)) + g[t]
<1> DEFINE own == {r \in {t} \X {1, 2} : r[2] <= g[t]}
           rest == OthersSlots(g, t)
<1>1. g[t] \in 0 .. 2
  OBVIOUS
<1>2. IsFiniteSet(own) /\ Cardinality(own) = g[t]
  BY Zenon, <1>1, OwnSlots
<1>3. IsFiniteSet(FdUser \X {1, 2})
  <2>1. IsFiniteSet({1, 2})
    <3>1. IsFiniteSet({1}) /\ {1, 2} = {1} \cup {2}
      BY Zenon, FS_Singleton
    <3> DEFINE one == {1}
    <3> HIDE DEF one
    <3>2. IsFiniteSet(one \cup {2})
      BY <3>1, FS_AddElement DEF one
    <3> QED BY <3>1, <3>2 DEF one
  <2> DEFINE two == {1, 2}
  <2>2. IsFiniteSet(FdUser)
    BY FdAssumption
  <2> HIDE DEF two
  <2>3. IsFiniteSet(FdUser \X two)
    BY <2>1, <2>2, FS_Product DEF two
  <2> QED BY <2>3 DEF two
<1>4. rest \subseteq FdUser \X {1, 2}
  BY DEF OthersSlots, Slots
<1>5. IsFiniteSet(rest) /\ Cardinality(rest) \in Nat
  BY <1>3, <1>4, FS_Subset, FS_CardinalityType
<1>6. Slots(g) = rest \cup own /\ rest \cap own = {}
  <2>1. \A r \in FdUser \X {1, 2} : r[1] = t <=> r \in {t} \X {1, 2}
    OBVIOUS
  <2>2. {t} \X {1, 2} \subseteq FdUser \X {1, 2}
    OBVIOUS
  <2>3. \A r \in {t} \X {1, 2} : r[1] = t
    OBVIOUS
  <2> QED BY <2>1, <2>2, <2>3 DEF OthersSlots, Slots
<1> HIDE DEF rest, own
<1>7. Cardinality(rest \cup own) = Cardinality(rest) + Cardinality(own) - Cardinality(rest \cap own)
  BY <1>2, <1>5, FS_Union
<1>8. Cardinality(rest \cap own) = 0
  BY <1>6, FS_EmptySet
<1>9. Cardinality(Slots(g)) = Cardinality(rest) + g[t]
  BY <1>1, <1>2, <1>5, <1>6, <1>7, <1>8
<1> QED BY <1>5, <1>9 DEF rest

LEMMA UsesType ==
    \A x, fds, d : UsesBy(x, fds, d) \in 0 .. 2
BY WeightType DEF UsesBy

CallingChanges(c, t, x, fds, d) ==
    /\ Calling(c, fds, d) \in Nat /\ UsesBy(c[t], fds, d) <= Calling(c, fds, d)
    /\ Calling([c EXCEPT ![t] = x], fds, d)
          = Calling(c, fds, d) - UsesBy(c[t], fds, d) + UsesBy(x, fds, d)
    /\ Calling(c, fds, d) = UsesBy(c[t], fds, d) =>
          \A u \in FdUser \ {t} : UsesBy(c[u], fds, d) = 0

\* What the calls count when one of them moves on.
LEMMA CallingMoves ==
    ASSUME NEW c \in [FdUser -> CallType], NEW t \in FdUser, NEW x \in CallType,
           NEW fds, NEW d
    PROVE  CallingChanges(c, t, x, fds, d)
<1> DEFINE e == [c EXCEPT ![t] = x]
           g == [u \in FdUser |-> UsesBy(c[u], fds, d)]
           h == [u \in FdUser |-> UsesBy(e[u], fds, d)]
           rest == OthersSlots(g, t)
<1>1. g \in [FdUser -> 0 .. 2] /\ h \in [FdUser -> 0 .. 2]
  BY UsesType
<1>2. e[t] = x /\ \A u \in FdUser \ {t} : e[u] = c[u]
  OBVIOUS
<1>3. h[t] = UsesBy(x, fds, d) /\ g[t] = UsesBy(c[t], fds, d)
  BY <1>2
<1>4. \A u \in FdUser \ {t} : h[u] = g[u]
  BY <1>2
<1>5. Calling(c, fds, d) = Cardinality(Slots(g)) /\ Calling(e, fds, d) = Cardinality(Slots(h))
  BY DEF Calling
<1>6. \A u \in FdUser : g[u] = UsesBy(c[u], fds, d)
  OBVIOUS
<1> HIDE DEF e, g, h
<1>7. OthersSlots(h, t) = rest
  BY <1>4 DEF OthersSlots, Slots
<1>8. /\ IsFiniteSet(rest) /\ Cardinality(rest) \in Nat
      /\ Cardinality(Slots(g)) = Cardinality(rest) + g[t]
      /\ Cardinality(Slots(h)) = Cardinality(rest) + h[t]
  BY <1>1, <1>7, SlotsSplit
<1>9. g[t] \in 0 .. 2 /\ h[t] \in 0 .. 2
  BY <1>1
<1>10. ASSUME Cardinality(rest) = 0, NEW u \in FdUser \ {t}
       PROVE  g[u] = 0
  <2>1. rest = {}
    BY <1>8, <1>10, FS_EmptySet
  <2>2. g[u] \in 0 .. 2
    BY <1>1
  <2>3. CASE g[u] >= 1
    <3>1. <<u, 1>> \in FdUser \X {1, 2} /\ <<u, 1>>[1] = u /\ <<u, 1>>[2] = 1
      OBVIOUS
    <3>2. <<u, 1>> \in rest
      BY <2>3, <3>1 DEF OthersSlots, Slots
    <3> QED BY <2>1, <3>2
  <2> QED BY <2>2, <2>3
<1> HIDE DEF rest
<1>11. ASSUME Calling(c, fds, d) = UsesBy(c[t], fds, d), NEW u \in FdUser \ {t}
       PROVE  UsesBy(c[u], fds, d) = 0
  <2>1. Cardinality(rest) = 0
    BY <1>3, <1>5, <1>8, <1>9, <1>11
  <2> QED BY <1>6, <1>10, <2>1
<1>12. /\ Calling(c, fds, d) \in Nat /\ UsesBy(c[t], fds, d) <= Calling(c, fds, d)
       /\ Calling(e, fds, d) = Calling(c, fds, d) - UsesBy(c[t], fds, d) + UsesBy(x, fds, d)
  BY <1>3, <1>5, <1>8, <1>9
<1> QED BY <1>11, <1>12 DEF e, CallingChanges

\* What the calls count depends on the entries of those that are under way.
LEMMA CallingSame ==
    ASSUME NEW c, NEW fds, NEW gds, NEW d,
           \A t \in FdUser : UsesBy(c[t], gds, d) = UsesBy(c[t], fds, d)
    PROVE  Calling(c, gds, d) = Calling(c, fds, d)
<1>1. [t \in FdUser |-> UsesBy(c[t], gds, d)] = [t \in FdUser |-> UsesBy(c[t], fds, d)]
  OBVIOUS
<1> QED BY <1>1 DEF Calling

\* The open descriptors that stand for a struct.
LEMMA OwnedCount ==
    ASSUME NEW f \in TableType, NEW d
    PROVE  /\ IsFiniteSet(OwnedOf(f, d)) /\ Cardinality(OwnedOf(f, d)) \in Nat
           /\ Cardinality(OwnedOf(f, d)) = 0 => \A fd \in f.owned : f.fds[fd] # d
<1>1. IsFiniteSet(FdTable)
  <2>1. 0 \in Int /\ FdMax - 1 \in Int
    BY FdAssumption
  <2> DEFINE n == FdMax - 1
  <2> HIDE DEF n
  <2>2. IsFiniteSet(0 .. n)
    BY <2>1, FS_Interval DEF n
  <2> QED BY <2>2 DEF FdTable, n
<1>2. OwnedOf(f, d) \subseteq FdTable
  BY FdFields DEF OwnedOf
<1>3. IsFiniteSet(OwnedOf(f, d))
  BY <1>1, <1>2, FS_Subset
<1>4. Cardinality(OwnedOf(f, d)) \in Nat
  BY <1>3, FS_CardinalityType
<1>5. Cardinality(OwnedOf(f, d)) = 0 => OwnedOf(f, d) = {}
  BY <1>3, FS_EmptySet
<1> QED BY <1>3, <1>4, <1>5 DEF OwnedOf

Opens(f, d, fd) == IF f.fds[fd] = d THEN 1 ELSE 0

LEMMA OwnedMore ==
    ASSUME NEW f \in TableType, NEW g \in TableType, NEW d, NEW fd \in FdTable \ f.owned,
           g.fds = f.fds, g.owned = f.owned \cup {fd}
    PROVE  Cardinality(OwnedOf(g, d)) = Cardinality(OwnedOf(f, d)) + Opens(f, d, fd)
<1>1. IsFiniteSet(OwnedOf(f, d)) /\ Cardinality(OwnedOf(f, d)) \in Nat
  BY OwnedCount
<1>2. CASE f.fds[fd] = d
  <2>1. OwnedOf(g, d) = OwnedOf(f, d) \cup {fd} /\ fd \notin OwnedOf(f, d)
    BY <1>2 DEF OwnedOf
  <2> HIDE DEF OwnedOf
  <2> QED BY ZenonT(40), <1>1, <1>2, <2>1, FS_AddElement DEF Opens
<1>3. CASE f.fds[fd] # d
  <2>1. OwnedOf(g, d) = OwnedOf(f, d)
    BY <1>3 DEF OwnedOf
  <2> QED BY <1>1, <1>3, <2>1 DEF Opens
<1> QED BY <1>2, <1>3

\* By how many an open descriptor more, or less, changes the count.
OwnerShift(f, g, fd, o) ==
    \/ o = 0 /\ g.owned = f.owned
    \/ o = 1 /\ fd \notin f.owned /\ g.owned = f.owned \cup {fd}
    \/ o = -1 /\ fd \in f.owned /\ g.owned = f.owned \ {fd}

LEMMA OwnedShift ==
    ASSUME NEW f \in TableType, NEW g \in TableType, NEW d, NEW fd \in FdTable, NEW o,
           g.fds = f.fds, OwnerShift(f, g, fd, o)
    PROVE  /\ o \in Int /\ Cardinality(OwnedOf(f, d)) \in Nat
           /\ Cardinality(OwnedOf(g, d))
                 = Cardinality(OwnedOf(f, d)) + (IF f.fds[fd] = d THEN o ELSE 0)
<1>1. Cardinality(OwnedOf(f, d)) \in Nat /\ Cardinality(OwnedOf(g, d)) \in Nat
  BY OwnedCount
<1>2. CASE o = 0 /\ g.owned = f.owned
  <2>1. OwnedOf(g, d) = OwnedOf(f, d)
    BY <1>2 DEF OwnedOf
  <2> QED BY <1>1, <1>2, <2>1
<1>3. CASE o = 1 /\ fd \notin f.owned /\ g.owned = f.owned \cup {fd}
  <2>1. Cardinality(OwnedOf(g, d)) = Cardinality(OwnedOf(f, d)) + Opens(f, d, fd)
    BY <1>3, OwnedMore
  <2> QED BY <1>1, <1>3, <2>1 DEF Opens
<1>4. CASE o = -1 /\ fd \in f.owned /\ g.owned = f.owned \ {fd}
  <2>1. fd \in FdTable \ g.owned /\ f.fds = g.fds /\ f.owned = g.owned \cup {fd}
    BY <1>4
  <2>2. Cardinality(OwnedOf(f, d)) = Cardinality(OwnedOf(g, d)) + Opens(g, d, fd)
    BY <2>1, OwnedMore
  <2>3. Opens(g, d, fd) = IF f.fds[fd] = d THEN 1 ELSE 0
    BY DEF Opens
  <2> QED BY <1>1, <1>4, <2>2, <2>3
<1> QED BY <1>2, <1>3, <1>4 DEF OwnerShift

\* A call of thread t moves on to x, at the same entry fd; o open descriptors
\* are added.
StepMoves(f, g, c, t, x, fd, o) ==
    /\ f \in TableType /\ g \in TableType /\ c \in [FdUser -> CallType]
    /\ x \in CallType /\ fd \in FdTable /\ f.fds[fd] \in FdStruct
    /\ c[t].at = "user" \/ c[t].fd = fd
    /\ x.at = "user" \/ x.fd = fd
    /\ g.fds = f.fds /\ OwnerShift(f, g, fd, o)

CountChanges(f, g, c, t, x, fd, o, d) ==
    /\ Counted(f, c, d) \in Nat /\ Counted(g, [c EXCEPT ![t] = x], d) \in Nat
    /\ Counted(g, [c EXCEPT ![t] = x], d)
          = Counted(f, c, d)
            + (IF f.fds[fd] = d THEN Weight(x.at) - Weight(c[t].at) + o ELSE 0)

LEMMA CountMoves ==
    ASSUME NEW f, NEW g, NEW c, NEW t \in FdUser, NEW x, NEW fd, NEW o,
           StepMoves(f, g, c, t, x, fd, o), NEW d
    PROVE  CountChanges(f, g, c, t, x, fd, o, d)
<1> DEFINE e == [c EXCEPT ![t] = x]
<1>1. /\ f \in TableType /\ g \in TableType /\ c \in [FdUser -> CallType] /\ x \in CallType
      /\ fd \in FdTable /\ g.fds = f.fds /\ OwnerShift(f, g, fd, o)
      /\ c[t].at = "user" \/ c[t].fd = fd
      /\ x.at = "user" \/ x.fd = fd
  BY DEF StepMoves
<1>2. /\ UsesBy(c[t], f.fds, d) = IF f.fds[fd] = d THEN Weight(c[t].at) ELSE 0
      /\ UsesBy(x, f.fds, d) = IF f.fds[fd] = d THEN Weight(x.at) ELSE 0
  BY <1>1 DEF UsesBy, Weight
<1>3. Weight(c[t].at) \in 0 .. 2 /\ Weight(x.at) \in 0 .. 2
  BY WeightType
<1>4. /\ Calling(c, f.fds, d) \in Nat
      /\ Calling(e, f.fds, d) = Calling(c, f.fds, d) - UsesBy(c[t], f.fds, d) + UsesBy(x, f.fds, d)
      /\ UsesBy(c[t], f.fds, d) <= Calling(c, f.fds, d)
  <2>1. CallingChanges(c, t, x, f.fds, d)
    BY <1>1, CallingMoves
  <2> QED BY <2>1 DEF CallingChanges
<1>5. /\ o \in Int /\ Cardinality(OwnedOf(f, d)) \in Nat
      /\ Cardinality(OwnedOf(g, d))
            = Cardinality(OwnedOf(f, d)) + (IF f.fds[fd] = d THEN o ELSE 0)
  BY <1>1, OwnedShift
<1>6. Cardinality(OwnedOf(g, d)) \in Nat
  BY <1>1, OwnedCount
<1> HIDE DEF e
<1>7. /\ Counted(f, c, d) = Calling(c, f.fds, d) + Cardinality(OwnedOf(f, d))
      /\ Counted(g, e, d) = Calling(e, f.fds, d) + Cardinality(OwnedOf(g, d))
  BY <1>1 DEF Counted
<1>8. Calling(e, f.fds, d) \in Nat
  BY <1>2, <1>3, <1>4
<1>9. Counted(g, e, d) = Counted(f, c, d)
         + (IF f.fds[fd] = d THEN Weight(x.at) - Weight(c[t].at) + o ELSE 0)
  BY <1>2, <1>3, <1>4, <1>5, <1>7
<1> QED BY <1>4, <1>5, <1>6, <1>7, <1>8, <1>9 DEF e, CountChanges

RefsMove(f, g, c, t, x, fd, o) ==
    /\ g.maxfd = f.maxfd
    /\ g.ref[f.fds[fd]] = f.ref[f.fds[fd]] + Weight(x.at) - Weight(c[t].at) + o
    /\ g.ref[f.fds[fd]] > 0
    /\ \A d \in FdStruct : d # f.fds[fd] => g.ref[d] = f.ref[d]

\* ref_count changes as the references do.
LEMMA TableMoves ==
    ASSUME NEW f, NEW g, NEW c, NEW t \in FdUser, NEW x, NEW fd, NEW o,
           StepMoves(f, g, c, t, x, fd, o), RefsMove(f, g, c, t, x, fd, o), TableOk(f, c)
    PROVE  TableOk(g, [c EXCEPT ![t] = x])
<1> DEFINE e == [c EXCEPT ![t] = x]
<1>1. /\ f \in TableType /\ g \in TableType /\ fd \in FdTable /\ f.fds[fd] \in FdStruct
      /\ g.fds = f.fds /\ OwnerShift(f, g, fd, o)
      /\ g.maxfd = f.maxfd
      /\ g.ref[f.fds[fd]] = f.ref[f.fds[fd]] + Weight(x.at) - Weight(c[t].at) + o
      /\ g.ref[f.fds[fd]] > 0
      /\ \A d \in FdStruct : d # f.fds[fd] => g.ref[d] = f.ref[d]
  BY DEF StepMoves, RefsMove
<1>2. ASSUME NEW d \in FdStruct
      PROVE  /\ Counted(f, c, d) \in Nat /\ Counted(g, e, d) \in Nat
             /\ Counted(g, e, d) = Counted(f, c, d)
                   + (IF f.fds[fd] = d THEN Weight(x.at) - Weight(c[t].at) + o ELSE 0)
  <2>1. CountChanges(f, g, c, t, x, fd, o, d)
    BY CountMoves
  <2> QED BY <2>1 DEF CountChanges
<1> HIDE DEF e
<1>3. \A d : InTable(g, d) <=> InTable(f, d)
  BY <1>1 DEF InTable
<1>4. InTable(f, f.fds[fd])
  BY <1>1 DEF InTable
<1>5. ASSUME NEW d \in FdStruct
      PROVE  /\ InTable(g, d) <=> Counted(g, e, d) > 0
             /\ InTable(g, d) => g.ref[d] = Counted(g, e, d)
  <2>1. /\ InTable(f, d) <=> Counted(f, c, d) > 0
        /\ InTable(f, d) => f.ref[d] = Counted(f, c, d)
    BY DEF TableOk
  <2>2. CASE d # f.fds[fd]
    BY <1>1, <1>2, <1>3, <2>1, <2>2
  <2>3. CASE d = f.fds[fd]
    <3>1. Weight(x.at) \in Int /\ Weight(c[t].at) \in Int /\ o \in Int
      BY WeightType DEF OwnerShift, StepMoves
    <3>2. f.ref[d] = Counted(f, c, d)
      BY <1>4, <2>1, <2>3
    <3>3. Counted(g, e, d) = Counted(f, c, d) + Weight(x.at) - Weight(c[t].at) + o
      BY <1>2, <2>3, <3>1
    <3>4. g.ref[d] = Counted(g, e, d) /\ g.ref[d] > 0
      BY <1>1, <2>3, <3>2, <3>3
    <3> QED BY <1>3, <1>4, <2>3, <3>4
  <2> QED BY <2>2, <2>3
<1>6. \A i, j \in FdTable : g.fds[i] = g.fds[j] /\ g.fds[i] # NoFd => i = j
  BY <1>1 DEF TableOk
<1>7. \A i \in FdTable : i >= g.maxfd => g.fds[i] = NoFd
  BY <1>1 DEF TableOk
<1> QED BY Zenon, <1>5, <1>6, <1>7 DEF TableOk, e

\* What is left to show of a step: the entries, and who has the descriptors.
LEMMA MoveKeeps ==
    ASSUME NEW f, NEW g, NEW c, NEW t \in FdUser, NEW x, NEW fd, NEW o,
           FdGood(f, c), StepMoves(f, g, c, t, x, fd, o), RefsMove(f, g, c, t, x, fd, o),
           CallOk(x, f.fds), OwnersOk(g, [c EXCEPT ![t] = x])
    PROVE  FdGood(g, [c EXCEPT ![t] = x])
<1> DEFINE e == [c EXCEPT ![t] = x]
<1>1. f \in TableType /\ c \in [FdUser -> CallType] /\ \A u \in FdUser : CallOk(c[u], f.fds)
      /\ TableOk(f, c)
  BY DEF FdGood
<1>2. g \in TableType /\ x \in CallType /\ g.fds = f.fds
  BY DEF StepMoves
<1>3. e \in [FdUser -> CallType] /\ \A u \in FdUser : e[u] = IF u = t THEN x ELSE c[u]
  BY <1>1, <1>2
<1>4. \A u \in FdUser : CallOk(e[u], g.fds)
  BY <1>1, <1>2, <1>3
<1>5. TableOk(g, e)
  BY Zenon, <1>1, TableMoves
<1> HIDE DEF e
<1> QED BY <1>2, <1>3, <1>4, <1>5 DEF FdGood, e

LEMMA NoFdFacts ==
    ASSUME NEW f, NEW c, FdGood(f, c)
    PROVE  /\ f \in TableType /\ c \in [FdUser -> CallType]
           /\ \A t \in FdUser : c[t] \in CallType /\ CallOk(c[t], f.fds)
           /\ \A fd \in FdTable : f.fds[fd] # NoFd =>
                 f.fds[fd] \in FdStruct /\ f.ref[f.fds[fd]] \in Nat /\ f.ref[f.fds[fd]] > 0
           /\ \A fd \in f.owned : fd \in FdTable /\ f.fds[fd] \in f.open /\ f.fds[fd] # NoFd
<1>1. /\ f \in TableType /\ c \in [FdUser -> CallType]
      /\ \A t \in FdUser : CallOk(c[t], f.fds)
      /\ TableOk(f, c) /\ OwnersOk(f, c)
  BY DEF FdGood
<1>2. ASSUME NEW fd \in FdTable, f.fds[fd] # NoFd
      PROVE  f.fds[fd] \in FdStruct /\ f.ref[f.fds[fd]] \in Nat /\ f.ref[f.fds[fd]] > 0
  <2>1. f.fds[fd] \in FdStruct /\ f.ref[f.fds[fd]] \in Nat
    BY <1>1, <1>2, FdFields
  <2>2. InTable(f, f.fds[fd])
    BY DEF InTable
  <2> QED BY <1>1, <2>1, <2>2 DEF TableOk
<1>3. \A fd \in f.owned : fd \in FdTable /\ f.fds[fd] \in f.open /\ f.fds[fd] # NoFd
  BY <1>1, FdFields DEF OwnersOk
<1> QED BY <1>1, <1>2, <1>3

\* fd_get of a descriptor behind which there is a struct: one reference more.
LEMMA GetRefs ==
    ASSUME NEW f, NEW t \in FdUser, FdGood(fdt, fdcall), NEW fd \in FdTable, NEW next,
           f = fdt \/ (fd \in fdt.owned /\ f = [fdt EXCEPT !.owned = @ \ {fd}]),
           fdt.fds[fd] # NoFd, FdGet(t, f, fd, next)
    PROVE  LET d == fdt.fds[fd] IN
           /\ f \in TableType /\ fdt' \in TableType
           /\ fdt'.maxfd = fdt.maxfd /\ fdt'.fds = fdt.fds /\ fdt'.open = fdt.open
           /\ fdt'.owned = f.owned
           /\ fdt'.ref[d] = fdt.ref[d] + 1 /\ fdt'.ref[d] > 0
           /\ \A e \in FdStruct : e # d => fdt'.ref[e] = fdt.ref[e]
           /\ fdcall' = [fdcall EXCEPT ![t] = [at |-> next, fd |-> fd, d |-> d]]
<1> DEFINE d == fdt.fds[fd]
           more == [f.ref EXCEPT ![d] = f.ref[d] + 1]
<1>1. fdt \in TableType /\ d \in FdStruct /\ fdt.ref[d] \in Nat
  BY NoFdFacts
<1>2. /\ f \in TableType /\ f.maxfd = fdt.maxfd /\ f.fds = fdt.fds /\ f.open = fdt.open
      /\ f.ref = fdt.ref
  BY <1>1 DEF TableType
<1>3. more \in [FdStruct -> Nat] /\ more[d] = fdt.ref[d] + 1
      /\ \A e \in FdStruct : e # d => more[e] = fdt.ref[e]
  BY <1>1, <1>2, FdFields
<1>4. /\ fdt' = [f EXCEPT !.ref = more]
      /\ fdcall' = [fdcall EXCEPT ![t] = [at |-> next, fd |-> fd, d |-> d]]
  BY <1>2 DEF FdGet, TableType
<1> HIDE DEF d, more
<1>5. /\ fdt' \in TableType /\ fdt'.maxfd = fdt.maxfd /\ fdt'.fds = fdt.fds
      /\ fdt'.open = fdt.open /\ fdt'.owned = f.owned /\ fdt'.ref = more
  BY <1>2, <1>3, <1>4 DEF TableType
<1> QED BY <1>1, <1>2, <1>3, <1>4, <1>5 DEF d

LEMMA OwnersMove ==
    ASSUME NEW f, NEW g, NEW c, NEW t \in FdUser, NEW x, FdGood(f, c),
           \A i \in g.owned : g.fds[i] \in g.open,
           x.at = "closing" => x.d \in g.open,
           \A u \in FdUser \ {t} : c[u].at = "closing" => c[u].d \in g.open,
           x.at \in Holding =>
              /\ x.fd \notin g.owned
              /\ \A u \in FdUser \ {t} : c[u].at \in Holding => c[u].fd # x.fd,
           \A u \in FdUser \ {t} : c[u].at \in Holding => c[u].fd \notin g.owned
    PROVE  OwnersOk(g, [c EXCEPT ![t] = x])
<1> DEFINE e == [c EXCEPT ![t] = x]
<1>1. OwnersOk(f, c) /\ \A u \in FdUser : e[u] = IF u = t THEN x ELSE c[u]
  BY DEF FdGood
<1> HIDE DEF e
<1>2. ASSUME NEW u \in FdUser
      PROVE  /\ e[u].at = "closing" => e[u].d \in g.open
             /\ e[u].at \in Holding =>
                   /\ e[u].fd \notin g.owned
                   /\ \A v \in FdUser \ {u} : e[v].at \in Holding => e[v].fd # e[u].fd
  BY <1>1 DEF OwnersOk
<1> QED BY <1>2 DEF OwnersOk, e

LEMMA OpenGetPreserves ==
    ASSUME FdGood(fdt, fdcall), NEW t \in FdUser, OpenGet(t)
    PROVE  FdGood(fdt', fdcall')
<1> DEFINE c == fdcall[t]
           d == fdt.fds[c.fd]
           x == [at |-> "opening", fd |-> c.fd, d |-> d]
<1>1. c \in CallType /\ CallOk(c, fdt.fds) /\ c.at = "open"
  BY NoFdFacts DEF OpenGet
<1>2. c.fd \in FdTable /\ d # NoFd
  BY <1>1 DEF CallOk, CallType
<1>3. d \in FdStruct
  BY <1>2, NoFdFacts
<1>4. /\ fdt \in TableType /\ fdt' \in TableType
      /\ fdt'.maxfd = fdt.maxfd /\ fdt'.fds = fdt.fds /\ fdt'.open = fdt.open
      /\ fdt'.owned = fdt.owned
      /\ fdt'.ref[d] = fdt.ref[d] + 1 /\ fdt'.ref[d] > 0
      /\ \A e \in FdStruct : e # d => fdt'.ref[e] = fdt.ref[e]
      /\ fdcall' = [fdcall EXCEPT ![t] = x]
  BY <1>2, GetRefs DEF OpenGet
<1>5. x \in CallType /\ x.at = "opening" /\ x.fd = c.fd /\ x.d = d
  BY <1>2, <1>3 DEF CallType, FdLabel
<1>6. CallOk(x, fdt.fds)
  BY <1>2, <1>5 DEF CallOk
<1> HIDE DEF x
<1>7. StepMoves(fdt, fdt', fdcall, t, x, c.fd, 0)
  BY <1>2, <1>3, <1>4, <1>5, NoFdFacts DEF StepMoves, OwnerShift
<1>8. RefsMove(fdt, fdt', fdcall, t, x, c.fd, 0)
  <2>1. fdt.ref[d] \in Nat /\ Weight(x.at) = 2 /\ Weight(c.at) = 1
    BY <1>1, <1>3, <1>4, <1>5, FdFields DEF Weight
  <2> QED BY <1>4, <2>1 DEF RefsMove
<1>9. OwnersOk(fdt', [fdcall EXCEPT ![t] = x])
  <2>1. OwnersOk(fdt, fdcall)
    BY DEF FdGood
  <2>2. c.at \in Holding
    BY <1>1 DEF Holding
  <2>3. x.at # "closing" /\ \A i \in fdt'.owned : fdt'.fds[i] \in fdt'.open
    BY <1>4, <1>5, <2>1 DEF OwnersOk
  <2>4. \A u \in FdUser \ {t} : fdcall[u].at = "closing" => fdcall[u].d \in fdt'.open
    BY <1>4, <2>1 DEF OwnersOk
  <2>5. /\ x.fd \notin fdt'.owned
        /\ \A u \in FdUser \ {t} : fdcall[u].at \in Holding => fdcall[u].fd # x.fd
    BY <1>4, <1>5, <2>1, <2>2 DEF OwnersOk
  <2>6. \A u \in FdUser \ {t} : fdcall[u].at \in Holding => fdcall[u].fd \notin fdt'.owned
    BY <1>4, <2>1 DEF OwnersOk
  <2> QED BY Zenon, <2>3, <2>4, <2>5, <2>6, OwnersMove
<1> QED BY Zenon, <1>4, <1>6, <1>7, <1>8, <1>9, MoveKeeps

LEMMA CloseGetPreserves ==
    ASSUME FdGood(fdt, fdcall), NEW t \in FdUser, CloseGet(t)
    PROVE  FdGood(fdt', fdcall')
<1>1. PICK fd \in fdt.owned :
         fdcall[t].at = "user" /\ FdGet(t, [fdt EXCEPT !.owned = @ \ {fd}], fd, "closing")
  BY Zenon DEF CloseGet
<1> DEFINE c == fdcall[t]
           d == fdt.fds[fd]
           f == [fdt EXCEPT !.owned = @ \ {fd}]
           x == [at |-> "closing", fd |-> fd, d |-> d]
<1>2. c \in CallType /\ CallOk(c, fdt.fds) /\ c.at = "user"
  BY <1>1, NoFdFacts
<1>3. fd \in FdTable /\ d # NoFd /\ d \in fdt.open /\ d \in FdStruct
  BY NoFdFacts
<1>4. fdt \in TableType /\ f.owned = fdt.owned \ {fd}
  BY NoFdFacts DEF TableType
<1>5. /\ fdt' \in TableType
      /\ fdt'.maxfd = fdt.maxfd /\ fdt'.fds = fdt.fds /\ fdt'.open = fdt.open
      /\ fdt'.owned = fdt.owned \ {fd}
      /\ fdt'.ref[d] = fdt.ref[d] + 1 /\ fdt'.ref[d] > 0
      /\ \A e \in FdStruct : e # d => fdt'.ref[e] = fdt.ref[e]
      /\ fdcall' = [fdcall EXCEPT ![t] = x]
  BY ZenonT(90), <1>1, <1>3, <1>4, GetRefs
<1>6. x \in CallType /\ x.at = "closing" /\ x.fd = fd /\ x.d = d
  BY <1>3 DEF CallType, FdLabel
<1>7. CallOk(x, fdt.fds)
  BY <1>3, <1>6 DEF CallOk
<1> HIDE DEF x, f
<1>8. StepMoves(fdt, fdt', fdcall, t, x, fd, -1)
  BY <1>2, <1>3, <1>4, <1>5, <1>6, NoFdFacts DEF StepMoves, OwnerShift
<1>9. RefsMove(fdt, fdt', fdcall, t, x, fd, -1)
  <2>1. fdt.ref[d] \in Nat /\ Weight(x.at) = 2 /\ Weight(c.at) = 0
    BY <1>2, <1>3, <1>4, <1>6, FdFields DEF Weight
  <2> QED BY <1>5, <2>1 DEF RefsMove
<1>10. OwnersOk(fdt', [fdcall EXCEPT ![t] = x])
  <2>1. OwnersOk(fdt, fdcall)
    BY DEF FdGood
  <2>2. \A u \in FdUser \ {t} : fdcall[u].at \in Holding => fdcall[u].fd # fd
    BY <2>1 DEF OwnersOk
  <2> QED BY <1>3, <1>5, <1>6, <2>1, <2>2, OwnersMove DEF OwnersOk
<1> QED BY Zenon, <1>5, <1>7, <1>8, <1>9, <1>10, MoveKeeps

LEMMA UseGetPreserves ==
    ASSUME FdGood(fdt, fdcall), NEW t \in FdUser, NEW fd \in FdTable, UseGet(t, fd)
    PROVE  FdGood(fdt', fdcall')
<1> DEFINE c == fdcall[t]
           d == fdt.fds[fd]
           x == [at |-> "using", fd |-> fd, d |-> d]
<1>1. c \in CallType /\ CallOk(c, fdt.fds) /\ c.at = "user" /\ fdt \in TableType
      /\ fdcall \in [FdUser -> CallType]
  BY NoFdFacts DEF UseGet
<1>2. CASE d = NoFd
  <2>1. c = InNoCall
    BY <1>1 DEF CallOk
  <2>2. fdt' = fdt /\ fdcall' = [fdcall EXCEPT ![t] = InNoCall]
    BY <1>2 DEF UseGet, FdGet
  <2>3. fdcall' = fdcall
    BY <1>1, <2>1, <2>2
  <2> QED BY <2>2, <2>3
<1>3. CASE d # NoFd
  <2>1. d \in FdStruct
    BY <1>3, NoFdFacts
  <2>2. /\ fdt' \in TableType
        /\ fdt'.maxfd = fdt.maxfd /\ fdt'.fds = fdt.fds /\ fdt'.open = fdt.open
        /\ fdt'.owned = fdt.owned
        /\ fdt'.ref[d] = fdt.ref[d] + 1 /\ fdt'.ref[d] > 0
        /\ \A e \in FdStruct : e # d => fdt'.ref[e] = fdt.ref[e]
        /\ fdcall' = [fdcall EXCEPT ![t] = x]
    BY <1>3, GetRefs DEF UseGet
  <2>3. x \in CallType /\ x.at = "using" /\ x.fd = fd /\ x.d = d
    BY <2>1 DEF CallType, FdLabel
  <2>4. CallOk(x, fdt.fds)
    BY <1>3, <2>3 DEF CallOk
  <2> HIDE DEF x
  <2>5. StepMoves(fdt, fdt', fdcall, t, x, fd, 0)
    BY <1>1, <2>1, <2>2, <2>3 DEF StepMoves, OwnerShift
  <2>6. RefsMove(fdt, fdt', fdcall, t, x, fd, 0)
    <3>1. fdt.ref[d] \in Nat /\ Weight(x.at) = 1 /\ Weight(c.at) = 0
      BY <1>1, <2>1, <2>3, FdFields DEF Weight
    <3> QED BY <2>2, <3>1 DEF RefsMove
  <2>7. OwnersOk(fdt', [fdcall EXCEPT ![t] = x])
    <3>1. OwnersOk(fdt, fdcall)
      BY DEF FdGood
    <3>2. x.at \notin Holding
      BY <2>3 DEF Holding
    <3> QED BY <2>2, <2>3, <3>1, <3>2, OwnersMove DEF OwnersOk
  <2> QED BY Zenon, <2>2, <2>4, <2>5, <2>6, <2>7, MoveKeeps
<1> QED BY <1>2, <1>3

\* A call that opens or closes, between its get and its put.
LEMMA HoldingFacts ==
    ASSUME FdGood(fdt, fdcall), NEW t \in FdUser, fdcall[t].at \in {"opening", "closing"}
    PROVE  LET c == fdcall[t] IN
           /\ c \in CallType /\ c.fd \in FdTable /\ c.d \in FdStruct /\ fdt.fds[c.fd] = c.d
           /\ c.fd \notin fdt.owned
           /\ \A u \in FdUser \ {t} : fdcall[u].at \in Holding =>
                 fdcall[u].fd # c.fd /\ fdcall[u].fd \notin fdt.owned
           /\ fdt.ref[c.d] \in Nat /\ fdt.ref[c.d] > 0 /\ Weight(c.at) = 2
<1> DEFINE c == fdcall[t]
<1>1. c \in CallType /\ CallOk(c, fdt.fds)
  BY NoFdFacts
<1>2. c.fd \in FdTable /\ c.d \in FdStruct /\ fdt.fds[c.fd] = c.d
  BY <1>1, CallFields DEF CallOk
<1>3. fdt.ref[c.d] \in Nat /\ fdt.ref[c.d] > 0
  <2>1. fdt.fds[c.fd] # NoFd
    BY <1>2, FdAssumption
  <2> QED BY <1>2, <2>1, NoFdFacts
<1>4. c.at \in Holding /\ Weight(c.at) = 2
  BY DEF Holding, Weight
<1>5. OwnersOk(fdt, fdcall)
  BY DEF FdGood
<1> QED BY <1>1, <1>2, <1>3, <1>4, <1>5 DEF OwnersOk

LEMMA FileOpenPreserves ==
    ASSUME FdGood(fdt, fdcall), NEW t \in FdUser, FileOpen(t)
    PROVE  FdGood(fdt', fdcall')
<1> DEFINE c == fdcall[t]
           x(at) == [c EXCEPT !.at = at]
<1>1. /\ c \in CallType /\ c.fd \in FdTable /\ c.d \in FdStruct /\ fdt.fds[c.fd] = c.d
      /\ c.fd \notin fdt.owned
      /\ \A u \in FdUser \ {t} : fdcall[u].at \in Holding =>
            fdcall[u].fd # c.fd /\ fdcall[u].fd \notin fdt.owned
      /\ fdt.ref[c.d] \in Nat /\ fdt.ref[c.d] > 0 /\ Weight(c.at) = 2
  BY HoldingFacts DEF FileOpen
<1>2. fdt \in TableType /\ fdcall \in [FdUser -> CallType] /\ CallOk(c, fdt.fds)
      /\ OwnersOk(fdt, fdcall) /\ c.at = "opening"
  BY NoFdFacts DEF FdGood, FileOpen
<1>3. \A at \in {"put", "put_twice"} :
         /\ x(at) \in CallType /\ x(at).at = at /\ x(at).fd = c.fd /\ x(at).d = c.d
         /\ CallOk(x(at), fdt.fds)
  <2>1. \A at \in {"put", "put_twice"} :
           /\ x(at) \in CallType /\ x(at).at = at /\ x(at).fd = c.fd /\ x(at).d = c.d
    BY <1>1 DEF CallType, FdLabel
  <2> HIDE DEF x
  <2> QED BY <1>1, <2>1, FdAssumption DEF CallOk
<1>4. fdcall' = [fdcall EXCEPT ![t] = x("put")] \/ fdcall' = [fdcall EXCEPT ![t] = x("put_twice")]
  BY Zenon, <1>2 DEF FileOpen, AfterOpen
<1>5. \/ /\ fdt' = [fdt EXCEPT !.open = fdt.open \cup {c.d}, !.owned = fdt.owned \cup {c.fd}]
         /\ fdcall' = [fdcall EXCEPT ![t] = x("put")]
      \/ /\ fdt' = fdt /\ fdcall' = [fdcall EXCEPT ![t] = x("put_twice")]
  BY Zenon, <1>2 DEF FileOpen, AfterOpen, TableType
<1> HIDE DEF x
<1>6. ASSUME fdt' = [fdt EXCEPT !.open = fdt.open \cup {c.d}, !.owned = fdt.owned \cup {c.fd}],
             fdcall' = [fdcall EXCEPT ![t] = x("put")]
      PROVE  FdGood(fdt', fdcall')
  <2>1. /\ fdt' \in TableType /\ fdt'.maxfd = fdt.maxfd /\ fdt'.fds = fdt.fds
        /\ fdt'.ref = fdt.ref /\ fdt'.open = fdt.open \cup {c.d}
        /\ fdt'.owned = fdt.owned \cup {c.fd}
    BY Zenon, <1>1, <1>2, <1>6 DEF TableType
  <2> DEFINE y == x("put")
  <2>2. /\ y \in CallType /\ y.at = "put" /\ y.fd = c.fd /\ y.d = c.d
        /\ CallOk(y, fdt.fds)
    BY <1>3
  <2> HIDE DEF y
  <2>3. StepMoves(fdt, fdt', fdcall, t, y, c.fd, 1)
    BY <1>1, <1>2, <2>1, <2>2 DEF StepMoves, OwnerShift
  <2>4. RefsMove(fdt, fdt', fdcall, t, y, c.fd, 1)
    <3>1. Weight(y.at) = 1
      BY <2>2 DEF Weight
    <3> QED BY <1>1, <2>1, <3>1 DEF RefsMove
  <2>5. OwnersOk(fdt', [fdcall EXCEPT ![t] = y])
    <3>1. y.at \notin Holding /\ y.at # "closing"
      BY <2>2 DEF Holding
    <3>2. \A i \in fdt'.owned : fdt'.fds[i] \in fdt'.open
      BY <1>1, <1>2, <2>1 DEF OwnersOk
    <3>3. \A u \in FdUser \ {t} : fdcall[u].at = "closing" => fdcall[u].d \in fdt'.open
      BY <1>2, <2>1 DEF OwnersOk
    <3>4. \A u \in FdUser \ {t} : fdcall[u].at \in Holding => fdcall[u].fd \notin fdt'.owned
      BY <1>1, <2>1
    <3> QED BY Zenon, <3>1, <3>2, <3>3, <3>4, OwnersMove
  <2>6. FdGood(fdt', [fdcall EXCEPT ![t] = y])
    BY <2>2, <2>3, <2>4, <2>5, MoveKeeps
  <2> QED BY <1>6, <2>6 DEF y
<1>7. ASSUME fdt' = fdt, fdcall' = [fdcall EXCEPT ![t] = x("put_twice")]
      PROVE  FdGood(fdt', fdcall')
  <2> DEFINE y == x("put_twice")
  <2>1. /\ y \in CallType /\ y.at = "put_twice" /\ y.fd = c.fd /\ y.d = c.d
        /\ CallOk(y, fdt.fds)
    BY <1>3
  <2> HIDE DEF y
  <2>2. StepMoves(fdt, fdt', fdcall, t, y, c.fd, 0)
    BY <1>1, <1>2, <1>7, <2>1 DEF StepMoves, OwnerShift
  <2>3. RefsMove(fdt, fdt', fdcall, t, y, c.fd, 0)
    <3>1. Weight(y.at) = 2
      BY <2>1 DEF Weight
    <3> QED BY <1>1, <1>7, <3>1 DEF RefsMove
  <2>4. OwnersOk(fdt', [fdcall EXCEPT ![t] = y])
    <3>1. y.at \notin Holding /\ y.at # "closing"
      BY <2>1 DEF Holding
    <3> QED BY <1>1, <1>2, <1>7, <3>1, OwnersMove DEF OwnersOk
  <2>5. FdGood(fdt', [fdcall EXCEPT ![t] = y])
    BY <2>1, <2>2, <2>3, <2>4, MoveKeeps
  <2> QED BY <1>7, <2>5 DEF y
<1> QED BY <1>5, <1>6, <1>7

LEMMA FileClosePreserves ==
    ASSUME FdGood(fdt, fdcall), NEW t \in FdUser, FileClose(t)
    PROVE  FdGood(fdt', fdcall')
<1> DEFINE c == fdcall[t]
           x(at) == [c EXCEPT !.at = at]
<1>1. /\ c \in CallType /\ c.fd \in FdTable /\ c.d \in FdStruct /\ fdt.fds[c.fd] = c.d
      /\ c.fd \notin fdt.owned
      /\ \A u \in FdUser \ {t} : fdcall[u].at \in Holding =>
            fdcall[u].fd # c.fd /\ fdcall[u].fd \notin fdt.owned
      /\ fdt.ref[c.d] \in Nat /\ fdt.ref[c.d] > 0 /\ Weight(c.at) = 2
  BY HoldingFacts DEF FileClose
<1>2. fdt \in TableType /\ fdcall \in [FdUser -> CallType] /\ TableOk(fdt, fdcall)
      /\ OwnersOk(fdt, fdcall) /\ c.at = "closing" /\ c.d \in fdt.open
  BY NoFdFacts DEF FdGood, FileClose, OwnersOk
<1>3. \A at \in {"put", "put_twice"} :
         /\ x(at) \in CallType /\ x(at).at = at /\ x(at).fd = c.fd /\ x(at).d = c.d
         /\ CallOk(x(at), fdt.fds)
  <2>1. \A at \in {"put", "put_twice"} :
           /\ x(at) \in CallType /\ x(at).at = at /\ x(at).fd = c.fd /\ x(at).d = c.d
    BY <1>1 DEF CallType, FdLabel
  <2> HIDE DEF x
  <2> QED BY <1>1, <2>1, FdAssumption DEF CallOk
<1>4. \/ /\ fdt' = [fdt EXCEPT !.open = fdt.open \ {c.d}]
         /\ fdcall' = [fdcall EXCEPT ![t] = x("put_twice")]
      \/ /\ fdt' = [fdt EXCEPT !.owned = fdt.owned \cup {c.fd}]
         /\ fdcall' = [fdcall EXCEPT ![t] = x("put")]
  BY <1>2 DEF FileClose, TableType
<1> HIDE DEF x
<1>5. ASSUME fdt' = [fdt EXCEPT !.open = fdt.open \ {c.d}],
             fdcall' = [fdcall EXCEPT ![t] = x("put_twice")]
      PROVE  FdGood(fdt', fdcall')
  <2>1. /\ fdt' \in TableType /\ fdt'.maxfd = fdt.maxfd /\ fdt'.fds = fdt.fds
        /\ fdt'.ref = fdt.ref /\ fdt'.open = fdt.open \ {c.d}
        /\ fdt'.owned = fdt.owned
    BY <1>1, <1>2, <1>5 DEF TableType
  <2> DEFINE y == x("put_twice")
  <2>2. /\ y \in CallType /\ y.at = "put_twice" /\ y.fd = c.fd /\ y.d = c.d
        /\ CallOk(y, fdt.fds)
    BY <1>3
  <2> HIDE DEF y
  <2>3. StepMoves(fdt, fdt', fdcall, t, y, c.fd, 0)
    BY <1>1, <1>2, <2>1, <2>2 DEF StepMoves, OwnerShift
  <2>4. RefsMove(fdt, fdt', fdcall, t, y, c.fd, 0)
    <3>1. Weight(y.at) = 2
      BY <2>2 DEF Weight
    <3> QED BY <1>1, <2>1, <3>1 DEF RefsMove
  <2>5. OwnersOk(fdt', [fdcall EXCEPT ![t] = y])
    <3>1. y.at \notin Holding /\ y.at # "closing"
      BY <2>2 DEF Holding
    \* the file that is closed stands behind this descriptor alone
    <3>2. \A i \in FdTable : fdt.fds[i] = c.d => i = c.fd
      BY <1>1, <1>2, FdAssumption DEF TableOk
    <3>3. \A i \in fdt'.owned : fdt'.fds[i] \in fdt'.open
      <4>1. \A i \in fdt.owned : i \in FdTable /\ i # c.fd
        BY <1>1, NoFdFacts
      <4> QED BY <1>2, <2>1, <3>2, <4>1 DEF OwnersOk
    <3>4. \A u \in FdUser \ {t} : fdcall[u].at = "closing" => fdcall[u].d \in fdt'.open
      <4>1. ASSUME NEW u \in FdUser \ {t}, fdcall[u].at = "closing"
            PROVE  fdcall[u].d # c.d /\ fdcall[u].d \in fdt.open
        <5>1. /\ fdcall[u].fd \in FdTable /\ fdt.fds[fdcall[u].fd] = fdcall[u].d
          BY <4>1, HoldingFacts
        <5>2. fdcall[u].fd # c.fd
          BY <1>1, <4>1 DEF Holding
        <5> QED BY <1>2, <3>2, <4>1, <5>1, <5>2 DEF OwnersOk
      <4> QED BY <2>1, <4>1
    <3>5. \A u \in FdUser \ {t} : fdcall[u].at \in Holding => fdcall[u].fd \notin fdt'.owned
      BY <1>1, <2>1
    <3> QED BY Zenon, <3>1, <3>3, <3>4, <3>5, OwnersMove
  <2>6. FdGood(fdt', [fdcall EXCEPT ![t] = y])
    BY <2>2, <2>3, <2>4, <2>5, MoveKeeps
  <2> QED BY <1>5, <2>6 DEF y
<1>6. ASSUME fdt' = [fdt EXCEPT !.owned = fdt.owned \cup {c.fd}],
             fdcall' = [fdcall EXCEPT ![t] = x("put")]
      PROVE  FdGood(fdt', fdcall')
  <2>1. /\ fdt' \in TableType /\ fdt'.maxfd = fdt.maxfd /\ fdt'.fds = fdt.fds
        /\ fdt'.ref = fdt.ref /\ fdt'.open = fdt.open
        /\ fdt'.owned = fdt.owned \cup {c.fd}
    BY <1>1, <1>2, <1>6 DEF TableType
  <2> DEFINE y == x("put")
  <2>2. /\ y \in CallType /\ y.at = "put" /\ y.fd = c.fd /\ y.d = c.d
        /\ CallOk(y, fdt.fds)
    BY <1>3
  <2> HIDE DEF y
  <2>3. StepMoves(fdt, fdt', fdcall, t, y, c.fd, 1)
    BY <1>1, <1>2, <2>1, <2>2 DEF StepMoves, OwnerShift
  <2>4. RefsMove(fdt, fdt', fdcall, t, y, c.fd, 1)
    <3>1. Weight(y.at) = 1
      BY <2>2 DEF Weight
    <3> QED BY <1>1, <2>1, <3>1 DEF RefsMove
  <2>5. OwnersOk(fdt', [fdcall EXCEPT ![t] = y])
    <3>1. y.at \notin Holding /\ y.at # "closing"
      BY <2>2 DEF Holding
    <3>2. \A i \in fdt'.owned : fdt'.fds[i] \in fdt'.open
      BY <1>1, <1>2, <2>1 DEF OwnersOk
    <3>3. \A u \in FdUser \ {t} : fdcall[u].at = "closing" => fdcall[u].d \in fdt'.open
      BY <1>2, <2>1 DEF OwnersOk
    <3>4. \A u \in FdUser \ {t} : fdcall[u].at \in Holding => fdcall[u].fd \notin fdt'.owned
      BY <1>1, <2>1
    <3> QED BY Zenon, <3>1, <3>2, <3>3, <3>4, OwnersMove
  <2>6. FdGood(fdt', [fdcall EXCEPT ![t] = y])
    BY <2>2, <2>3, <2>4, <2>5, MoveKeeps
  <2> QED BY <1>6, <2>6 DEF y
<1> QED BY <1>4, <1>5, <1>6

\* What a call finds that gives a reference back.
LEMMA PutFacts ==
    ASSUME FdGood(fdt, fdcall), NEW t \in FdUser, NEW next, FdPut(t, next),
           fdcall[t].at \in {"using", "put", "put_twice"}
    PROVE  LET c == fdcall[t]
               d == c.d
           IN  /\ c.fd \in FdTable /\ d \in FdStruct /\ fdt.fds[c.fd] = d
               /\ fdt.ref[d] \in Nat /\ fdt.ref[d] > 0 /\ fdt.ref[d] = Counted(fdt, fdcall, d)
               /\ \A i \in FdTable : fdt.fds[i] = d => i = c.fd
               /\ fdt' \in TableType /\ fdt'.maxfd = fdt.maxfd /\ fdt'.open = fdt.open
               /\ fdt'.owned = fdt.owned
               /\ fdt'.ref[d] = fdt.ref[d] - 1
               /\ \A e \in FdStruct : e # d => fdt'.ref[e] = fdt.ref[e]
               /\ fdt.ref[d] # 1 => fdt'.fds = fdt.fds
               /\ fdt.ref[d] = 1 =>
                     \A i \in FdTable : fdt'.fds[i] = IF fdt.fds[i] = d THEN NoFd ELSE fdt.fds[i]
<1> DEFINE c == fdcall[t]
           d == c.d
           less == [fdt.ref EXCEPT ![d] = fdt.ref[d] - 1]
           fds == [i \in FdTable |-> IF fdt.fds[i] = d /\ fdt.ref[d] = 1 THEN NoFd ELSE fdt.fds[i]]
<1>1. /\ fdt \in TableType /\ c \in CallType /\ CallOk(c, fdt.fds) /\ TableOk(fdt, fdcall)
  BY NoFdFacts DEF FdGood
<1>2. c.fd \in FdTable /\ d \in FdStruct /\ fdt.fds[c.fd] = d
  BY <1>1, CallFields DEF CallOk
<1>3. fdt.ref[d] \in Nat /\ fdt.ref[d] > 0 /\ fdt.fds[c.fd] # NoFd
  <2>1. fdt.fds[c.fd] # NoFd
    BY <1>2, FdAssumption
  <2> QED BY <1>2, <2>1, NoFdFacts
<1>4. fdt.ref[d] = Counted(fdt, fdcall, d)
  BY <1>1, <1>2 DEF TableOk, InTable
<1>5. \A i \in FdTable : fdt.fds[i] = d => i = c.fd
  BY <1>1, <1>2, <1>3 DEF TableOk
<1>6. less \in [FdStruct -> Nat] /\ less[d] = fdt.ref[d] - 1
      /\ \A e \in FdStruct : e # d => less[e] = fdt.ref[e]
  BY <1>1, <1>2, <1>3, FdFields
<1>7. fds \in [FdTable -> FdStruct \cup {NoFd}]
  BY <1>1, FdFields
<1>8. fdt' = [fdt EXCEPT !.ref = less, !.fds = fds]
  <2>1. DOMAIN fdt.fds = FdTable
    BY <1>1, FdFields
  <2> QED BY <1>1, <2>1 DEF FdPut, TableType
<1>9. fdt.ref[d] # 1 => fds = fdt.fds
  BY <1>1, FdFields
<1>10. \A i \in FdTable : fdt.ref[d] = 1 => fds[i] = IF fdt.fds[i] = d THEN NoFd ELSE fdt.fds[i]
  OBVIOUS
<1> HIDE DEF c, d, less, fds
<1>11. /\ fdt' \in TableType /\ fdt'.maxfd = fdt.maxfd /\ fdt'.open = fdt.open
       /\ fdt'.owned = fdt.owned /\ fdt'.ref = less /\ fdt'.fds = fds
  BY Zenon, <1>1, <1>6, <1>7, <1>8 DEF TableType
<1> QED BY <1>2, <1>3, <1>4, <1>5, <1>6, <1>9, <1>10, <1>11 DEF c, d

\* A reference goes back and others are left.
LEMMA PutOnePreserves ==
    ASSUME FdGood(fdt, fdcall), NEW t \in FdUser, NEW next, FdPut(t, next),
           fdcall[t].at \in (IF next = "user" THEN {"using", "put"} ELSE {"put_twice"}),
           next \in {"user", "put"},
           fdt.ref[fdcall[t].d] # 1
    PROVE  FdGood(fdt', fdcall')
<1> DEFINE c == fdcall[t]
           d == c.d
           x == IF next = "user" THEN InNoCall ELSE [c EXCEPT !.at = "put"]
<1>1. /\ fdt \in TableType /\ c \in CallType /\ CallOk(c, fdt.fds) /\ OwnersOk(fdt, fdcall)
      /\ fdcall \in [FdUser -> CallType]
  BY NoFdFacts DEF FdGood
<1>2. /\ c.fd \in FdTable /\ d \in FdStruct /\ fdt.fds[c.fd] = d
      /\ fdt.ref[d] \in Nat /\ fdt.ref[d] > 0
      /\ fdt' \in TableType /\ fdt'.maxfd = fdt.maxfd /\ fdt'.open = fdt.open
      /\ fdt'.owned = fdt.owned
      /\ fdt'.ref[d] = fdt.ref[d] - 1
      /\ \A e \in FdStruct : e # d => fdt'.ref[e] = fdt.ref[e]
      /\ fdt'.fds = fdt.fds
  BY PutFacts
<1>3. fdcall' = [fdcall EXCEPT ![t] = x]
  BY Zenon, <1>1 DEF FdPut
<1>4. /\ x \in CallType
      /\ x.at = "user" \/ x.fd = c.fd
      /\ CallOk(x, fdt.fds) /\ x.at \notin Holding
      /\ Weight(x.at) = Weight(c.at) - 1
  <2>1. CASE next = "user"
    <3>1. x = InNoCall /\ x.at = "user" /\ x.d = NoFd /\ Weight(c.at) = 1
      BY <2>1 DEF InNoCall, Weight
    <3>2. InNoCall \in CallType
      BY <1>1, FdFields DEF InNoCall, CallType, FdLabel
    <3> HIDE DEF x
    <3> QED BY <3>1, <3>2 DEF CallOk, Holding, Weight
  <2>2. CASE next # "user"
    <3>1. x = [c EXCEPT !.at = "put"] /\ c.at = "put_twice" /\ Weight(c.at) = 2
      BY <2>2 DEF Weight
    <3>2. x \in CallType /\ x.at = "put" /\ x.fd = c.fd /\ x.d = c.d
      BY <1>1, <3>1 DEF CallType, FdLabel
    <3> HIDE DEF x
    <3> QED BY <1>2, <3>1, <3>2, FdAssumption DEF CallOk, Holding, Weight
  <2> QED BY <2>1, <2>2
<1> HIDE DEF x
<1>5. StepMoves(fdt, fdt', fdcall, t, x, c.fd, 0)
  BY <1>1, <1>2, <1>4 DEF StepMoves, OwnerShift
<1>6. RefsMove(fdt, fdt', fdcall, t, x, c.fd, 0)
  <2>1. Weight(c.at) \in Int
    BY WeightType
  <2> QED BY <1>2, <1>4, <2>1 DEF RefsMove
<1>7. OwnersOk(fdt', [fdcall EXCEPT ![t] = x])
  <2>1. x.at # "closing"
    BY <1>4 DEF Holding
  <2> QED BY <1>1, <1>2, <1>4, <2>1, OwnersMove DEF OwnersOk
<1>8. FdGood(fdt', [fdcall EXCEPT ![t] = x])
  BY <1>4, <1>5, <1>6, <1>7, MoveKeeps
<1> QED BY <1>3, <1>8

\* The last reference frees the struct, behind which nobody stands any more.
LEMMA PutLastPreserves ==
    ASSUME FdGood(fdt, fdcall), NEW t \in FdUser, FdPut(t, "user"),
           fdcall[t].at \in {"using", "put"}, fdt.ref[fdcall[t].d] = 1
    PROVE  FdGood(fdt', fdcall')
<1> DEFINE c == fdcall[t]
           d == c.d
           e == [fdcall EXCEPT ![t] = InNoCall]
<1>1. /\ fdt \in TableType /\ c \in CallType /\ fdcall \in [FdUser -> CallType]
      /\ \A u \in FdUser : CallOk(fdcall[u], fdt.fds) /\ fdcall[u].fd \in FdTable
      /\ TableOk(fdt, fdcall) /\ OwnersOk(fdt, fdcall)
  BY NoFdFacts, CallFields DEF FdGood
<1>2. /\ c.fd \in FdTable /\ d \in FdStruct /\ fdt.fds[c.fd] = d
      /\ Counted(fdt, fdcall, d) = 1
      /\ fdt' \in TableType /\ fdt'.maxfd = fdt.maxfd /\ fdt'.open = fdt.open
      /\ fdt'.owned = fdt.owned
      /\ \A k \in FdStruct : k # d => fdt'.ref[k] = fdt.ref[k]
      /\ \A i \in FdTable : fdt'.fds[i] = IF fdt.fds[i] = d THEN NoFd ELSE fdt.fds[i]
  BY PutFacts
<1>3. fdcall' = e
  BY DEF FdPut
<1>4. InNoCall \in CallType /\ InNoCall.at = "user" /\ InNoCall.d = NoFd
  BY <1>1, FdFields DEF InNoCall, CallType, FdLabel
<1>5. e \in [FdUser -> CallType] /\ \A u \in FdUser : e[u] = IF u = t THEN InNoCall ELSE fdcall[u]
  BY <1>1, <1>4
<1>6. /\ \A u \in FdUser \ {t} : UsesBy(fdcall[u], fdt.fds, d) = 0
      /\ Calling(e, fdt.fds, d) = 0
      /\ Cardinality(OwnedOf(fdt, d)) = 0
  <2>1. CallingChanges(fdcall, t, InNoCall, fdt.fds, d)
    BY <1>1, <1>4, CallingMoves
  <2>2. UsesBy(c, fdt.fds, d) = 1 /\ UsesBy(InNoCall, fdt.fds, d) = 0
    BY <1>2, <1>4 DEF UsesBy, Weight
  <2>3. Cardinality(OwnedOf(fdt, d)) \in Nat
    BY <1>1, OwnedCount
  <2>4. Calling(fdcall, fdt.fds, d) \in Nat /\ Calling(fdcall, fdt.fds, d) >= 1
    BY <2>1, <2>2 DEF CallingChanges
  <2>5. Calling(fdcall, fdt.fds, d) = 1 /\ Cardinality(OwnedOf(fdt, d)) = 0
    BY <1>2, <2>3, <2>4 DEF Counted
  <2> QED BY <2>1, <2>2, <2>5 DEF CallingChanges
<1>7. \A i \in fdt.owned : i \in FdTable /\ fdt.fds[i] # d
  BY <1>1, <1>6, OwnedCount, NoFdFacts
<1>8. \A u \in FdUser \ {t} : fdcall[u].at # "user" => fdt.fds[fdcall[u].fd] # d
  <2>1. \A u \in FdUser \ {t} : fdcall[u].at # "user" => Weight(fdcall[u].at) # 0
    BY DEF Weight
  <2> QED BY <1>6, <2>1 DEF UsesBy
<1>9. ASSUME NEW u \in FdUser, NEW k \in FdStruct
      PROVE  UsesBy(e[u], fdt'.fds, k) = UsesBy(e[u], fdt.fds, k)
  <2>1. CASE u = t
    <3>1. Weight(e[u].at) = 0
      BY <1>4, <1>5, <2>1 DEF Weight
    <3> HIDE DEF e
    <3> QED BY <3>1 DEF UsesBy
  <2>2. CASE u # t
    <3>1. e[u] = fdcall[u] /\ fdcall[u].fd \in FdTable
      BY <1>1, <1>5, <2>2
    <3>2. CASE fdcall[u].at = "user"
      <4>1. Weight(e[u].at) = 0
        BY <3>1, <3>2 DEF Weight
      <4> HIDE DEF e
      <4> QED BY <4>1 DEF UsesBy
    <3>3. CASE fdcall[u].at # "user"
      <4>1. fdt.fds[e[u].fd] # d /\ e[u].fd \in FdTable
        BY <1>8, <2>2, <3>1, <3>3
      <4>2. fdt'.fds[e[u].fd] = fdt.fds[e[u].fd]
        BY <1>2, <4>1
      <4> HIDE DEF e
      <4> QED BY <4>2 DEF UsesBy
    <3> QED BY <3>2, <3>3
  <2> QED BY <2>1, <2>2
<1> HIDE DEF e
<1>10. ASSUME NEW k \in FdStruct
       PROVE  Counted(fdt', e, k) = Counted(fdt, e, k)
  <2>1. \A u \in FdUser : UsesBy(e[u], fdt'.fds, k) = UsesBy(e[u], fdt.fds, k)
    BY <1>9
  <2>2. Calling(e, fdt'.fds, k) = Calling(e, fdt.fds, k)
    BY <2>1, CallingSame
  <2>3. OwnedOf(fdt', k) = OwnedOf(fdt, k)
    BY <1>2, <1>7, FdAssumption DEF OwnedOf
  <2> QED BY <2>2, <2>3 DEF Counted
<1>11. Counted(fdt, e, d) = 0
  BY <1>6 DEF Counted
<1>12. ASSUME NEW k \in FdStruct, k # d
       PROVE  Counted(fdt, e, k) = Counted(fdt, fdcall, k)
  <2>1. CallingChanges(fdcall, t, InNoCall, fdt.fds, k)
    BY <1>1, <1>4, CallingMoves
  <2>2. UsesBy(c, fdt.fds, k) = 0 /\ UsesBy(InNoCall, fdt.fds, k) = 0
    BY <1>2, <1>4, <1>12 DEF UsesBy, Weight
  <2>3. Calling(e, fdt.fds, k) = Calling(fdcall, fdt.fds, k)
    BY <2>1, <2>2 DEF CallingChanges, e
  <2> QED BY <2>3 DEF Counted
<1>13. \A k \in FdStruct : InTable(fdt', k) <=> k # d /\ InTable(fdt, k)
  BY <1>2, FdAssumption DEF InTable
<1>14. TableOk(fdt', e)
  <2>1. ASSUME NEW k \in FdStruct
        PROVE  /\ InTable(fdt', k) <=> Counted(fdt', e, k) > 0
               /\ InTable(fdt', k) => fdt'.ref[k] = Counted(fdt', e, k)
    <3>1. CASE k = d
      BY <1>10, <1>11, <1>13, <3>1
    <3>2. CASE k # d
      <4>1. Counted(fdt', e, k) = Counted(fdt, fdcall, k) /\ fdt'.ref[k] = fdt.ref[k]
        BY <1>2, <1>10, <1>12, <3>2
      <4> QED BY <1>1, <1>13, <3>2, <4>1 DEF TableOk
    <3> QED BY <3>1, <3>2
  <2>2. \A i, j \in FdTable : fdt'.fds[i] = fdt'.fds[j] /\ fdt'.fds[i] # NoFd => i = j
    BY <1>1, <1>2 DEF TableOk
  <2>3. \A i \in FdTable : i >= fdt'.maxfd => fdt'.fds[i] = NoFd
    BY <1>1, <1>2 DEF TableOk
  <2> QED BY <2>1, <2>2, <2>3 DEF TableOk
<1>15. \A u \in FdUser : CallOk(e[u], fdt'.fds)
  <2>1. CallOk(InNoCall, fdt'.fds)
    BY <1>4 DEF CallOk
  <2>2. ASSUME NEW u \in FdUser \ {t}
        PROVE  CallOk(fdcall[u], fdt'.fds)
    <3>1. fdcall[u].at # "user" => fdt'.fds[fdcall[u].fd] = fdt.fds[fdcall[u].fd]
      BY <1>1, <1>2, <1>8
    <3>2. fdcall[u].d # NoFd => fdcall[u].at # "user"
      BY <1>1 DEF CallOk
    <3> QED BY <1>1, <3>1, <3>2 DEF CallOk
  <2> QED BY <1>5, <2>1, <2>2
<1>16. OwnersOk(fdt', e)
  <2>1. InNoCall.at \notin Holding /\ InNoCall.at # "closing"
    BY <1>4 DEF Holding
  <2>2. \A i \in fdt'.owned : fdt'.fds[i] \in fdt'.open
    BY <1>1, <1>2, <1>7 DEF OwnersOk
  <2> QED BY <1>1, <1>2, <2>1, <2>2, OwnersMove DEF OwnersOk, e
<1> QED BY <1>2, <1>3, <1>5, <1>14, <1>15, <1>16 DEF FdGood

LEMMA PutBackPreserves ==
    ASSUME FdGood(fdt, fdcall), NEW t \in FdUser, PutBack(t)
    PROVE  FdGood(fdt', fdcall')
<1> DEFINE c == fdcall[t]
<1>1. CASE c.at \in {"using", "put"} /\ FdPut(t, "user")
  <2>1. CASE fdt.ref[c.d] = 1
    BY <1>1, <2>1, PutLastPreserves
  <2>2. CASE fdt.ref[c.d] # 1
    BY <1>1, <2>2, PutOnePreserves
  <2> QED BY <2>1, <2>2
\* the second reference of this call is still to come
<1>2. CASE c.at = "put_twice" /\ FdPut(t, "put")
  <2>1. /\ c.fd \in FdTable /\ c.d \in FdStruct /\ fdt.fds[c.fd] = c.d
        /\ fdt.ref[c.d] = Counted(fdt, fdcall, c.d)
    BY <1>2, PutFacts
  <2>2. fdt \in TableType /\ fdcall \in [FdUser -> CallType] /\ c \in CallType
    BY NoFdFacts
  <2>3. UsesBy(c, fdt.fds, c.d) = 2
    BY <1>2, <2>1 DEF UsesBy, Weight
  <2>4. CallingChanges(fdcall, t, c, fdt.fds, c.d)
    BY <2>2, CallingMoves
  <2>5. Calling(fdcall, fdt.fds, c.d) \in Nat /\ Calling(fdcall, fdt.fds, c.d) >= 2
    BY <2>3, <2>4 DEF CallingChanges
  <2>6. Cardinality(OwnedOf(fdt, c.d)) \in Nat
    BY <2>2, OwnedCount
  <2>7. fdt.ref[c.d] # 1
    BY <2>1, <2>5, <2>6 DEF Counted
  <2> QED BY <1>2, <2>7, PutOnePreserves
<1> QED BY <1>1, <1>2 DEF PutBack

\* fd_alloc finds an empty entry, never one whose struct has no references.
LEMMA FirstFdIsEmpty ==
    ASSUME FdGood(fdt, fdcall)
    PROVE  /\ FirstFd \in 0 .. FdMax /\ GrownTo \in 0 .. FdMax /\ fdt.maxfd <= GrownTo
           /\ FirstFd < GrownTo => FirstFd \in FdTable /\ fdt.fds[FirstFd] = NoFd
<1> DEFINE S == {i \in 0..fdt.maxfd : i = fdt.maxfd \/ fdt.fds[i] = NoFd \/ fdt.ref[fdt.fds[i]] = 0}
<1>1. fdt.maxfd \in 0 .. FdMax /\ TableOk(fdt, fdcall) /\ FdMax \in Nat
  BY FdFields DEF FdGood
<1>2. S \subseteq Nat /\ fdt.maxfd \in S
  BY <1>1
<1>3. FirstFd = Min(S)
  BY DEF FirstFd
<1> HIDE DEF S
<1>4. FirstFd \in S
  <2>1. \E m \in S : \A q \in S : m <= q
    BY <1>2, LeastElement
  <2> QED BY <1>3, <2>1 DEF Min
<1>5. FirstFd \in 0 .. fdt.maxfd
      /\ (FirstFd = fdt.maxfd \/ fdt.fds[FirstFd] = NoFd \/ fdt.ref[fdt.fds[FirstFd]] = 0)
  BY <1>4 DEF S
<1>6. FirstFd \in 0 .. FdMax /\ GrownTo \in 0 .. FdMax /\ fdt.maxfd <= GrownTo
  BY <1>1, <1>5, FdAssumption DEF GrownTo
<1>7. ASSUME FirstFd < GrownTo
      PROVE  FirstFd \in FdTable /\ fdt.fds[FirstFd] = NoFd
  <2>1. FirstFd \in FdTable
    BY <1>1, <1>6, <1>7 DEF FdTable
  <2>2. CASE FirstFd = fdt.maxfd
    BY <1>1, <2>1, <2>2 DEF TableOk
  <2>3. CASE fdt.ref[fdt.fds[FirstFd]] = 0
    BY <2>1, <2>3, NoFdFacts
  <2> QED BY <1>5, <2>1, <2>2, <2>3
<1> QED BY <1>6, <1>7

LEMMA FdNewPreserves ==
    ASSUME FdGood(fdt, fdcall), NEW t \in FdUser, FdNew(t)
    PROVE  FdGood(fdt', fdcall')
<1> DEFINE n == FirstFd
           x == [at |-> "open", fd |-> n, d |-> NoFd]
           e == [fdcall EXCEPT ![t] = x]
<1>1. /\ n \in FdTable /\ fdt.fds[n] = NoFd /\ n < GrownTo
      /\ GrownTo \in 0 .. FdMax /\ fdt.maxfd <= GrownTo
  BY ZenonT(40), FirstFdIsEmpty DEF FdNew
<1>2. /\ fdt \in TableType /\ fdcall \in [FdUser -> CallType] /\ fdcall[t].at = "user"
      /\ \A u \in FdUser : CallOk(fdcall[u], fdt.fds) /\ fdcall[u].fd \in FdTable
      /\ TableOk(fdt, fdcall) /\ OwnersOk(fdt, fdcall)
  BY Zenon, NoFdFacts, CallFields DEF FdGood, FdNew
<1>3. PICK d \in FdStruct \ InFdTable :
         fdt' = [fdt EXCEPT !.maxfd = GrownTo, !.fds[n] = d, !.ref[d] = 1]
  BY Zenon, <1>1 DEF FdNew
<1>4. fdcall' = e
  BY Zenon DEF FdNew
<1>5. d # NoFd /\ \A i \in FdTable : fdt.fds[i] # d
  BY FdAssumption DEF InFdTable, FdTable
<1> DEFINE fds == [fdt.fds EXCEPT ![n] = d]
           ref == [fdt.ref EXCEPT ![d] = 1]
<1>6. /\ fds \in [FdTable -> FdStruct \cup {NoFd}] /\ ref \in [FdStruct -> Nat]
      /\ \A i \in FdTable : fds[i] = IF i = n THEN d ELSE fdt.fds[i]
      /\ \A k \in FdStruct : ref[k] = IF k = d THEN 1 ELSE fdt.ref[k]
  BY <1>1, <1>2, FdFields
<1>7. fdt' = [fdt EXCEPT !.maxfd = GrownTo, !.fds = fds, !.ref = ref]
  BY <1>2, <1>3 DEF TableType
<1>8. x \in CallType /\ x.at = "open" /\ x.fd = n /\ x.d = NoFd
  BY <1>1 DEF CallType, FdLabel
<1> HIDE DEF n, x, fds, ref
<1>9. /\ fdt' \in TableType /\ fdt'.maxfd = GrownTo /\ fdt'.fds = fds /\ fdt'.ref = ref
      /\ fdt'.open = fdt.open /\ fdt'.owned = fdt.owned
  BY Zenon, <1>1, <1>2, <1>6, <1>7 DEF TableType
<1>10. e \in [FdUser -> CallType] /\ \A u \in FdUser : e[u] = IF u = t THEN x ELSE fdcall[u]
  BY <1>2, <1>8
\* nobody stands behind the entry that fd_new fills
<1>11. /\ \A u \in FdUser : fdcall[u].at # "user" => fdcall[u].fd # n
       /\ \A i \in fdt.owned : i \in FdTable /\ i # n
  <2>1. \A i \in fdt.owned : i \in FdTable /\ fdt.fds[i] # NoFd
    BY NoFdFacts
  <2> QED BY <1>1, <1>2, <2>1 DEF CallOk
<1>12. ASSUME NEW u \in FdUser, NEW k
       PROVE  UsesBy(fdcall[u], fds, k) = UsesBy(fdcall[u], fdt.fds, k)
  <2>1. fdcall[u].at = "user" => Weight(fdcall[u].at) = 0
    BY DEF Weight
  <2>2. fdcall[u].at # "user" => fds[fdcall[u].fd] = fdt.fds[fdcall[u].fd]
    BY <1>2, <1>6, <1>11
  <2> QED BY <2>1, <2>2 DEF UsesBy
<1> HIDE DEF e
<1>13. ASSUME NEW k \in FdStruct
       PROVE  /\ Counted(fdt, fdcall, k) \in Nat
              /\ Counted(fdt', e, k) = Counted(fdt, fdcall, k) + (IF k = d THEN 1 ELSE 0)
  <2>1. \A u \in FdUser : UsesBy(fdcall[u], fds, k) = UsesBy(fdcall[u], fdt.fds, k)
    BY <1>12
  <2>2. Calling(fdcall, fds, k) = Calling(fdcall, fdt.fds, k)
    BY <2>1, CallingSame
  <2>3. CallingChanges(fdcall, t, x, fds, k)
    BY <1>2, <1>8, CallingMoves
  <2>4. UsesBy(fdcall[t], fds, k) = 0
    BY <1>2 DEF UsesBy, Weight
  <2>5. UsesBy(x, fds, k) = IF k = d THEN 1 ELSE 0
    BY <1>1, <1>6, <1>8 DEF UsesBy, Weight
  <2>6. /\ Calling(fdcall, fdt.fds, k) \in Nat
        /\ Calling(e, fds, k) = Calling(fdcall, fdt.fds, k) + (IF k = d THEN 1 ELSE 0)
    BY <2>2, <2>3, <2>4, <2>5 DEF CallingChanges, e
  <2>7. OwnedOf(fdt', k) = OwnedOf(fdt, k)
    BY <1>6, <1>9, <1>11 DEF OwnedOf
  <2>8. Cardinality(OwnedOf(fdt, k)) \in Nat
    BY <1>2, OwnedCount
  <2> QED BY <1>9, <2>6, <2>7, <2>8 DEF Counted
<1>14. /\ \A k \in FdStruct : InTable(fdt', k) <=> k = d \/ InTable(fdt, k)
       /\ ~ InTable(fdt, d)
  BY <1>1, <1>5, <1>6, <1>9, FdAssumption DEF InTable
<1>15. TableOk(fdt', e)
  <2>1. ASSUME NEW k \in FdStruct
        PROVE  /\ InTable(fdt', k) <=> Counted(fdt', e, k) > 0
               /\ InTable(fdt', k) => fdt'.ref[k] = Counted(fdt', e, k)
    <3>1. CASE k = d
      <4>1. Counted(fdt, fdcall, k) = 0
        BY <1>2, <1>13, <1>14, <3>1 DEF TableOk
      <4>2. Counted(fdt', e, k) = 1 /\ fdt'.ref[k] = 1
        BY <1>6, <1>9, <1>13, <3>1, <4>1
      <4> QED BY <1>14, <3>1, <4>2
    <3>2. CASE k # d
      <4>1. Counted(fdt', e, k) = Counted(fdt, fdcall, k) /\ fdt'.ref[k] = fdt.ref[k]
        BY <1>6, <1>9, <1>13, <3>2
      <4> QED BY <1>2, <1>14, <3>2, <4>1 DEF TableOk
    <3> QED BY <3>1, <3>2
  <2>2. \A i, j \in FdTable : fdt'.fds[i] = fdt'.fds[j] /\ fdt'.fds[i] # NoFd => i = j
    BY <1>2, <1>5, <1>6, <1>9 DEF TableOk
  <2>3. \A i \in FdTable : i >= fdt'.maxfd => fdt'.fds[i] = NoFd
    <3>1. \A i \in FdTable : i >= GrownTo => i # n /\ i >= fdt.maxfd
      BY <1>1, <1>2, FdFields DEF FdTable
    <3> QED BY <1>2, <1>6, <1>9, <3>1 DEF TableOk
  <2> QED BY <2>1, <2>2, <2>3 DEF TableOk
<1>16. \A u \in FdUser : CallOk(e[u], fdt'.fds)
  <2>1. CallOk(x, fdt'.fds)
    BY <1>1, <1>5, <1>6, <1>8, <1>9 DEF CallOk
  <2>2. ASSUME NEW u \in FdUser
        PROVE  CallOk(fdcall[u], fdt'.fds)
    <3>1. fdcall[u].at # "user" => fdt'.fds[fdcall[u].fd] = fdt.fds[fdcall[u].fd]
      BY <1>2, <1>6, <1>9, <1>11
    <3>2. fdcall[u].d # NoFd => fdcall[u].at # "user"
      BY <1>2 DEF CallOk
    <3> QED BY <1>2, <3>1, <3>2 DEF CallOk
  <2> QED BY <1>10, <2>1, <2>2
<1>17. OwnersOk(fdt', e)
  <2>1. x.at # "closing" /\ x.fd \notin fdt'.owned
    BY <1>8, <1>9, <1>11
  <2>2. \A i \in fdt'.owned : fdt'.fds[i] \in fdt'.open
    BY <1>2, <1>6, <1>9, <1>11 DEF OwnersOk
  <2>3. \A u \in FdUser : fdcall[u].at \in Holding => fdcall[u].fd # x.fd
    BY <1>8, <1>11 DEF Holding
  <2>4. \A u \in FdUser : fdcall[u].at \in Holding => fdcall[u].fd \notin fdt'.owned
    BY <1>2, <1>9 DEF OwnersOk
  <2>5. \A u \in FdUser : fdcall[u].at = "closing" => fdcall[u].d \in fdt'.open
    BY <1>2, <1>9 DEF OwnersOk
  <2> QED BY Zenon, <2>1, <2>2, <2>3, <2>4, <2>5, OwnersMove DEF e
<1> QED BY <1>4, <1>9, <1>10, <1>15, <1>16, <1>17 DEF FdGood

LEMMA FdNewFailsPreserves ==
    ASSUME FdGood(fdt, fdcall), NEW t \in FdUser, FdNewFails(t)
    PROVE  FdGood(fdt', fdcall')
<1>1. fdt \in TableType /\ TableOk(fdt, fdcall) /\ OwnersOk(fdt, fdcall)
  BY DEF FdGood
<1>2. GrownTo \in 0 .. FdMax /\ fdt.maxfd <= GrownTo
  BY FirstFdIsEmpty
<1>3. /\ fdt' \in TableType /\ fdt'.maxfd = GrownTo /\ fdt'.fds = fdt.fds
      /\ fdt'.ref = fdt.ref /\ fdt'.open = fdt.open /\ fdt'.owned = fdt.owned
      /\ fdcall' = fdcall
  BY <1>1, <1>2 DEF FdNewFails, TableType
<1>4. \A d \in FdStruct : Counted(fdt', fdcall, d) = Counted(fdt, fdcall, d)
                          /\ (InTable(fdt', d) <=> InTable(fdt, d))
  BY <1>3 DEF Counted, OwnedOf, InTable
<1>5. \A i \in FdTable : i >= GrownTo => i >= fdt.maxfd
  BY <1>1, <1>2, FdFields DEF FdTable
<1>6. TableOk(fdt', fdcall)
  BY <1>1, <1>3, <1>4, <1>5 DEF TableOk
<1>7. OwnersOk(fdt', fdcall)
  BY <1>1, <1>3 DEF OwnersOk
<1> QED BY <1>3, <1>6, <1>7 DEF FdGood

LEMMA FdInitial == FdInit => FdGood(fdt, fdcall)
<1> SUFFICES ASSUME FdInit PROVE FdGood(fdt, fdcall)
  OBVIOUS
<1> DEFINE empty == [i \in 0..FdMax - 1 |-> NoFd]
           none == [d \in FdStruct |-> 0]
<1>1. FdMax \in Nat /\ 0 \in FdTable
  BY FdAssumption DEF FdTable
<1>2. empty \in [FdTable -> FdStruct \cup {NoFd}] /\ none \in [FdStruct -> Nat]
      /\ \A i \in FdTable : empty[i] = NoFd
  BY DEF FdTable
<1>3. fdt = [maxfd |-> 0, fds |-> empty, ref |-> none, open |-> {}, owned |-> {}]
  BY DEF FdInit
<1> HIDE DEF empty, none
<1>4. /\ fdt \in TableType /\ fdt.fds = empty /\ fdt.owned = {} /\ fdt.open = {}
  BY <1>1, <1>2, <1>3 DEF TableType
<1>5. InNoCall \in CallType /\ InNoCall.at = "user" /\ InNoCall.d = NoFd
  BY <1>1 DEF InNoCall, CallType, FdLabel
<1>6. fdcall \in [FdUser -> CallType] /\ \A t \in FdUser : fdcall[t] = InNoCall
  BY <1>5 DEF FdInit
<1>7. \A t \in FdUser : CallOk(fdcall[t], fdt.fds)
  BY <1>5, <1>6 DEF CallOk
<1>8. ASSUME NEW d \in FdStruct
      PROVE  Counted(fdt, fdcall, d) = 0 /\ ~ InTable(fdt, d)
  <2> DEFINE g == [t \in FdUser |-> UsesBy(fdcall[t], fdt.fds, d)]
  <2>1. \A t \in FdUser : g[t] = 0
    BY <1>5, <1>6 DEF UsesBy, Weight
  <2> HIDE DEF g
  <2>2. \A r \in FdUser \X {1, 2} : r[1] \in FdUser /\ r[2] \in {1, 2}
    OBVIOUS
  <2>3. Slots(g) = {}
    BY <2>1, <2>2 DEF Slots
  <2>4. Calling(fdcall, fdt.fds, d) = 0
    BY Zenon, <2>3, FS_EmptySet DEF Calling, g
  <2>5. OwnedOf(fdt, d) = {}
    BY <1>4 DEF OwnedOf
  <2>6. Cardinality(OwnedOf(fdt, d)) = 0
    BY <2>5, FS_EmptySet
  <2>7. ~ InTable(fdt, d)
    BY <1>2, <1>4, FdAssumption DEF InTable
  <2> QED BY <2>4, <2>6, <2>7 DEF Counted
<1>9. TableOk(fdt, fdcall)
  BY <1>2, <1>4, <1>8 DEF TableOk
<1>10. OwnersOk(fdt, fdcall)
  BY <1>4, <1>5, <1>6 DEF OwnersOk, Holding
<1> QED BY <1>4, <1>6, <1>7, <1>9, <1>10 DEF FdGood

LEMMA DescriptorsNextPreserves ==
    FdGood(fdt, fdcall) /\ [DescriptorsNext]_<<fdt, fdcall>> => FdGood(fdt', fdcall')
<1> SUFFICES ASSUME FdGood(fdt, fdcall), [DescriptorsNext]_<<fdt, fdcall>>
             PROVE  FdGood(fdt', fdcall')
  OBVIOUS
<1>1. CASE UNCHANGED <<fdt, fdcall>>
  BY <1>1
<1>2. ASSUME NEW t \in FdUser, FdNew(t) PROVE FdGood(fdt', fdcall')
  BY <1>2, FdNewPreserves
<1>3. ASSUME NEW t \in FdUser, FdNewFails(t) PROVE FdGood(fdt', fdcall')
  BY <1>3, FdNewFailsPreserves
<1>4. ASSUME NEW t \in FdUser, OpenGet(t) PROVE FdGood(fdt', fdcall')
  BY <1>4, OpenGetPreserves
<1>5. ASSUME NEW t \in FdUser, FileOpen(t) PROVE FdGood(fdt', fdcall')
  BY <1>5, FileOpenPreserves
<1>6. ASSUME NEW t \in FdUser, CloseGet(t) PROVE FdGood(fdt', fdcall')
  BY <1>6, CloseGetPreserves
<1>7. ASSUME NEW t \in FdUser, FileClose(t) PROVE FdGood(fdt', fdcall')
  BY <1>7, FileClosePreserves
<1>8. ASSUME NEW t \in FdUser, PutBack(t) PROVE FdGood(fdt', fdcall')
  BY <1>8, PutBackPreserves
<1>9. ASSUME NEW t \in FdUser, NEW fd \in 0..FdMax - 1, UseGet(t, fd)
      PROVE  FdGood(fdt', fdcall')
  BY <1>9, UseGetPreserves DEF FdTable
<1> QED BY <1>1, <1>2, <1>3, <1>4, <1>5, <1>6, <1>7, <1>8, <1>9 DEF DescriptorsNext

LEMMA FdGoodAgrees == FdGood(fdt, fdcall) => DescriptorsAgree
<1> SUFFICES ASSUME FdGood(fdt, fdcall) PROVE DescriptorsAgree
  OBVIOUS
<1>1. /\ fdt \in TableType /\ TableOk(fdt, fdcall) /\ OwnersOk(fdt, fdcall)
      /\ \A t \in FdUser : CallOk(fdcall[t], fdt.fds)
  BY DEF FdGood
<1>2. ASSUME NEW d \in FdStruct
      PROVE  /\ d \in InFdTable <=> InTable(fdt, d)
             /\ References(d) = Counted(fdt, fdcall, d)
  <2>1. d \in InFdTable <=> InTable(fdt, d)
    BY FdAssumption DEF InFdTable, InTable, FdTable
  <2>2. ASSUME NEW t \in FdUser
        PROVE  RefsOf(t, d) = UsesBy(fdcall[t], fdt.fds, d)
    <3>1. CallOk(fdcall[t], fdt.fds) /\ d # NoFd
      BY <1>1, FdAssumption
    <3>2. CASE fdcall[t].at \in {"user", "open"}
      BY <3>1, <3>2 DEF CallOk, RefsOf, UsesBy, Weight
    <3>3. CASE fdcall[t].at \notin {"user", "open"}
      BY <3>1, <3>3 DEF CallOk, RefsOf, UsesBy, Weight
    <3> QED BY <3>2, <3>3
  <2>3. CallRefs(d) = Slots([t \in FdUser |-> UsesBy(fdcall[t], fdt.fds, d)])
    <3> DEFINE g == [t \in FdUser |-> UsesBy(fdcall[t], fdt.fds, d)]
    <3>1. \A r \in FdUser \X {1, 2} : RefsOf(r[1], d) = g[r[1]]
      BY <2>2
    <3> HIDE DEF g
    <3>2. CallRefs(d) = Slots(g)
      BY <3>1 DEF CallRefs, Slots
    <3> QED BY <3>2 DEF g
  <2>4. OwnedRefs(d) = OwnedOf(fdt, d)
    BY DEF OwnedRefs, OwnedOf
  <2> QED BY <2>1, <2>3, <2>4 DEF References, Counted, Calling
<1>3. \A d \in FdStruct :
         /\ d \in InFdTable <=> References(d) > 0
         /\ d \in InFdTable => fdt.ref[d] = References(d)
  BY <1>1, <1>2 DEF TableOk
<1>4. \A i, j \in 0..FdMax - 1 : fdt.fds[i] = fdt.fds[j] /\ fdt.fds[i] # NoFd => i = j
  BY <1>1 DEF TableOk, FdTable
<1> QED BY <1>1, <1>3, <1>4 DEF DescriptorsAgree, OwnersOk

\* For any threads and any size of the table: a struct dfs_fd is in the table
\* exactly while a call or an open descriptor has a reference to it, ref_count is
\* their number, and nothing is closed that is not open (fd_new, fd_get, fd_put).
THEOREM DescriptorsAlwaysAgree == DescriptorsSpec => []DescriptorsAgree
<1>1. FdInit => FdGood(fdt, fdcall)
  BY FdInitial
<1>2. FdGood(fdt, fdcall) /\ [DescriptorsNext]_<<fdt, fdcall>> => FdGood(fdt, fdcall)'
  BY DescriptorsNextPreserves
<1>3. FdGood(fdt, fdcall) => DescriptorsAgree
  BY FdGoodAgrees
<1> QED BY <1>1, <1>2, <1>3, PTL DEF DescriptorsSpec

-----------------------------------------------------------------------------
(* Circular buffers.                                                       *)

LEMMA RingIndexUnique ==
    ASSUME NEW S \in Nat \ {0}, NEW x \in Int, NEW q \in Int, NEW r \in 0..S - 1,
           x = q * S + r
    PROVE  x % S = r
OBVIOUS

\* Indices are taken modulo the size at any point of a calculation.
LEMMA RingDifference ==
    ASSUME NEW S \in Nat \ {0}, NEW x \in Int, NEW y \in Int
    PROVE  /\ ((x % S) - (y % S)) % S = (x - y) % S
           /\ ((x % S) + y) % S = (x + y) % S
<1> DEFINE a == x \div S
           b == y \div S
           r == x % S
           t == y % S
<1>1. a \in Int /\ r \in 0..S - 1 /\ x = a * S + r
  OBVIOUS
<1>2. b \in Int /\ t \in 0..S - 1 /\ y = b * S + t
  OBVIOUS
<1> HIDE DEF a, b, r, t
<1>3. \A u \in Int, q \in Int : (u + q * S) % S = u % S
  <2> TAKE u \in Int, q \in Int
  <2> DEFINE d == u \div S
             v == u % S
             e == d + q
             w == u + q * S
  <2>1. d \in Int /\ v \in 0..S - 1 /\ u = d * S + v
    OBVIOUS
  <2> HIDE DEF d, v
  <2>2. w \in Int /\ e \in Int /\ w = e * S + v
    BY <2>1
  <2> HIDE DEF w, e
  <2>3. w % S = v
    BY <2>1, <2>2, RingIndexUnique
  <2> QED BY <2>3 DEF w, v
<1>4. ((x % S) - (y % S)) % S = (x - y) % S
  <2> DEFINE u == r - t
             q == a - b
  <2>1. u \in Int /\ q \in Int /\ u + q * S = x - y
    BY <1>1, <1>2
  <2> HIDE DEF u, q
  <2>2. (u + q * S) % S = u % S
    BY Zenon, <2>1, <1>3
  <2> QED BY <2>1, <2>2 DEF u, r, t
<1>5. ((x % S) + y) % S = (x + y) % S
  <2> DEFINE u == r + y
  <2>1. u \in Int /\ u + a * S = x + y
    BY <1>1
  <2> HIDE DEF u
  <2>2. (u + a * S) % S = u % S
    BY Zenon, <2>1, <1>1, <1>3
  <2> QED BY <2>1, <2>2 DEF u, r
<1> QED BY <1>4, <1>5

\* Where a position of the ring lies behind the place the bytes are written to.
LEMMA RingDistance ==
    ASSUME NEW S \in Nat \ {0}, NEW from \in Int, NEW n \in Int, NEW p \in Int
    PROVE  (((from + p) % S) - ((from + n) % S)) % S = (p - n) % S
<1> DEFINE x == from + p
           y == from + n
<1>1. x \in Int /\ y \in Int /\ x - y = p - n
  OBVIOUS
<1> HIDE DEF x, y
<1>2. ((x % S) - (y % S)) % S = (x - y) % S
  BY Zenon, <1>1, RingDifference
<1> QED BY <1>1, <1>2 DEF x, y

IsBuffer(buf, S, B) == buf \in [0..S - 1 -> B]

LEMMA RingBytesAre ==
    ASSUME NEW S \in Nat \ {0}, NEW B, NEW buf, IsBuffer(buf, S, B), NEW from \in Int,
           NEW n \in Nat
    PROVE  /\ RingBytes(buf, S, from, n) \in Seq(B)
           /\ Len(RingBytes(buf, S, from, n)) = n
           /\ \A i \in 1..n : RingBytes(buf, S, from, n)[i] = buf[(from + i - 1) % S]
<1>1. \A i \in 1..n : (from + i - 1) % S \in 0..S - 1
  OBVIOUS
<1> QED BY <1>1 DEF RingBytes, IsBuffer

LEMMA ConcatElements ==
    ASSUME NEW B, NEW seq \in Seq(B), NEW t \in Seq(B)
    PROVE  /\ seq \o t \in Seq(B) /\ Len(seq \o t) = Len(seq) + Len(t)
           /\ \A i \in 1..Len(seq) : (seq \o t)[i] = seq[i]
           /\ \A i \in Len(seq) + 1..Len(seq) + Len(t) : (seq \o t)[i] = t[i - Len(seq)]
OBVIOUS

LEMMA NewestElements ==
    ASSUME NEW B, NEW seq \in Seq(B), NEW c \in 0..Len(seq)
    PROVE  Newest(seq, c) = [j \in 1..c |-> seq[(Len(seq) - c) + j]]
<1>1. Shorter(c, Len(seq)) = c
  BY DEF Shorter
<1>2. Newest(seq, c) = SubSeq(seq, (Len(seq) - c) + 1, Len(seq))
  BY <1>1 DEF Newest
<1> QED BY <1>2

LEMMA ConcatIs ==
    ASSUME NEW B, NEW seq \in Seq(B), NEW t \in Seq(B), NEW u \in Seq(B),
           Len(u) = Len(seq) + Len(t),
           \A i \in 1..Len(seq) : u[i] = seq[i],
           \A i \in 1..Len(t) : u[Len(seq) + i] = t[i]
    PROVE  u = seq \o t
<1>1. Len(seq) \in Nat /\ Len(t) \in Nat
  OBVIOUS
<1>2. /\ seq \o t \in Seq(B) /\ Len(seq \o t) = Len(seq) + Len(t)
      /\ \A i \in 1..Len(seq) + Len(t) :
            (seq \o t)[i] = IF i <= Len(seq) THEN seq[i] ELSE t[i - Len(seq)]
  OBVIOUS
<1>3. ASSUME NEW i \in 1..Len(seq) + Len(t)
      PROVE  u[i] = (seq \o t)[i]
  <2>1. CASE i <= Len(seq)
    BY <1>1, <1>2, <2>1
  <2>2. CASE i > Len(seq)
    <3> DEFINE j == i - Len(seq)
    <3>1. j \in 1..Len(t) /\ i = Len(seq) + j
      BY <1>1, <2>2
    <3> HIDE DEF j
    <3>2. u[i] = t[j]
      BY <3>1
    <3>3. (seq \o t)[i] = t[i - Len(seq)]
      BY <1>1, <1>2, <2>2
    <3> QED BY <3>2, <3>3 DEF j
  <2> QED BY <1>1, <2>1, <2>2
<1> DEFINE v == seq \o t
<1>4. v \in Seq(B) /\ Len(v) = Len(u) /\ \A i \in 1..Len(u) : u[i] = v[i]
  BY <1>2, <1>3
<1> HIDE DEF v
<1>5. u = v
  BY <1>4
<1> QED BY <1>5 DEF v

\* The last c of the bytes of a ring and of the bytes written behind them are
\* found from c places before the end on, if they fit.
LEMMA RingAfterStore ==
    ASSUME NEW S \in Nat \ {0}, NEW B, NEW buf, IsBuffer(buf, S, B), NEW from \in 0..S - 1,
           NEW n \in 0..S, NEW bytes \in Seq(B), Len(bytes) <= S,
           NEW c \in 0..S, c <= n + Len(bytes),
           NEW at \in 0..S - 1, at = (from + n) % S,
           NEW start \in 0..S - 1, start = (from + (n + Len(bytes) - c)) % S
    PROVE  RingBytes(RingStored(buf, S, at, bytes), S, start, c)
             = Newest(RingBytes(buf, S, from, n) \o bytes, c)
<1> DEFINE L == Len(bytes)
           old == RingBytes(buf, S, from, n)
           all == old \o bytes
           new == RingStored(buf, S, at, bytes)
<1>1. L \in Nat /\ n \in Nat /\ c \in Nat
  OBVIOUS
<1>2. old \in Seq(B) /\ Len(old) = n /\ \A i \in 1..n : old[i] = buf[(from + i - 1) % S]
  BY <1>1, RingBytesAre
<1> HIDE DEF old
<1>3. /\ all \in Seq(B) /\ Len(all) = n + L
      /\ \A i \in 1..n : all[i] = old[i]
      /\ \A i \in n + 1..n + L : all[i] = bytes[i - n]
  BY ZenonT(60), <1>2, ConcatElements
<1> HIDE DEF all
<1>4. Newest(all, c) = [j \in 1..c |-> all[(n + L - c) + j]]
  <2>1. c \in 0..Len(all) /\ Len(all) = n + L
    BY <1>1, <1>3
  <2>2. Newest(all, c) = [j \in 1..c |-> all[(Len(all) - c) + j]]
    BY ONLY ZenonT(60), <1>3, <2>1, NewestElements
  <2> QED BY ONLY <2>1, <2>2
<1>5. ASSUME NEW j \in 1..c
      PROVE  new[(start + j - 1) % S] = all[(n + L - c) + j]
  <2> DEFINE p == (n + L - c) + j
             i == (start + j - 1) % S
  <2>1. p \in 1..n + L /\ p > n + L - S
    BY <1>1
  <2>2. i = (from + (p - 1)) % S
    <3> DEFINE x == from + (n + L - c)
               y == j - 1
    <3>1. x \in Int /\ y \in Int /\ x + y = from + (p - 1)
      BY <1>1
    <3>2. start = x % S /\ start \in Int
      BY <1>1
    <3>3. start + y = start + j - 1
      BY <3>2
    <3> HIDE DEF x, y
    <3>4. ((x % S) + y) % S = (x + y) % S
      BY Zenon, <3>1, RingDifference
    <3> QED BY Zenon, <3>1, <3>2, <3>3, <3>4
  <2>3. i \in 0..S - 1
    BY SMTT(30), <2>2, <1>1
  <2>4. (i - at) % S = ((p - 1) - n) % S
    <3> DEFINE x == p - 1
    <3>1. x \in Int /\ n \in Int /\ from \in Int
      BY <1>1, <2>1
    <3> HIDE DEF x
    <3>2. (((from + x) % S) - ((from + n) % S)) % S = (x - n) % S
      BY ZenonT(40), <3>1, RingDistance
    <3> QED BY Zenon, <2>2, <3>2 DEF x
  <2> HIDE DEF p, i, L
  <2>5. new[i] = IF ((p - 1) - n) % S < L THEN bytes[(((p - 1) - n) % S) + 1] ELSE buf[i]
    BY <2>3, <2>4 DEF RingStored, L, IsBuffer
  <2>6. CASE p <= n
    <3>1. ((p - 1) - n) % S = (p - 1) - n + S
      <4> DEFINE x == (p - 1) - n
      <4>1. x \in Int /\ -S <= x /\ x < 0
        BY <1>1, <2>1, <2>6
      <4> HIDE DEF x
      <4>2. x % S = x + S
        BY Zenon, <4>1, RingIndex
      <4> QED BY <4>2 DEF x
    <3>2. ((p - 1) - n) % S >= L
      BY <1>1, <2>1, <3>1
    <3>3. old[p] = buf[i]
      <4>1. from + p - 1 = from + (p - 1)
        BY <2>1, <1>1
      <4> QED BY <1>1, <1>2, <2>1, <2>2, <2>6, <4>1
    <3>4. new[i] = old[p] /\ all[p] = old[p]
      BY <1>1, <1>3, <2>1, <2>5, <2>6, <3>1, <3>2, <3>3
    <3> QED BY <3>4 DEF p, i
  <2>7. CASE p > n
    <3>1. ((p - 1) - n) % S = (p - 1) - n
      <4>1. Len(bytes) = L
        BY DEF L
      <4> QED BY <1>1, <2>1, <2>7, <4>1
    <3>2. ((p - 1) - n) % S < L /\ (((p - 1) - n) % S) + 1 = p - n
      BY <1>1, <2>1, <2>7, <3>1
    <3>3. all[p] = bytes[p - n]
      <4>1. p \in n + 1..n + L
        BY <1>1, <2>1, <2>7
      <4> QED BY <1>3, <4>1
    <3> QED BY <2>5, <3>2, <3>3 DEF p, i
  <2> QED BY <1>1, <2>1, <2>6, <2>7
<1> HIDE DEF new, L
<1>6. RingBytes(new, S, start, c) = [j \in 1..c |-> new[(start + j - 1) % S]]
  BY DEF RingBytes
<1>7. RingBytes(new, S, start, c) = Newest(all, c)
  BY Zenon, <1>4, <1>5, <1>6
<1> QED BY <1>7 DEF new, all, old, L

\* Of the n bytes from an index on, the first m and the k from start on.
SplitAt(S, length, from, n, m, start, k) ==
    /\ from \in 0..S - 1 /\ n \in 0..S /\ m \in 0..n /\ m = Shorter(length, n)
    /\ k = n - m /\ start = (from + m) % S

\* As many of the oldest bytes as are asked for come first, the others follow
\* from the index behind them on.
LEMMA RingSplit ==
    ASSUME NEW S \in Nat \ {0}, NEW B, NEW buf, IsBuffer(buf, S, B), NEW length \in Nat,
           NEW from, NEW n, NEW m, NEW start, NEW k,
           SplitAt(S, length, from, n, m, start, k)
    PROVE  LET all == RingBytes(buf, S, from, n)
               first == RingBytes(buf, S, from, m)
           IN  first = Oldest(all, length) /\ all = first \o RingBytes(buf, S, start, k)
<1> DEFINE all == RingBytes(buf, S, from, n)
           first == RingBytes(buf, S, from, m)
           rest == RingBytes(buf, S, start, k)
<1>0. n \in Nat /\ m \in Nat /\ k \in Nat /\ from \in Int /\ start \in Int /\ n = m + k
      /\ m = Shorter(length, n)
  BY DEF SplitAt
<1>10. start = (from + m) % S
  BY DEF SplitAt
<1>1. all \in Seq(B) /\ Len(all) = n /\ \A i \in 1..n : all[i] = buf[(from + i - 1) % S]
  BY <1>0, RingBytesAre
<1>2. first \in Seq(B) /\ Len(first) = m /\ \A i \in 1..m : first[i] = buf[(from + i - 1) % S]
  BY <1>0, RingBytesAre
<1>3. rest \in Seq(B) /\ Len(rest) = k /\ \A i \in 1..k : rest[i] = buf[(start + i - 1) % S]
  BY <1>0, RingBytesAre
<1>4. first = Oldest(all, length)
  <2>1. Oldest(all, length) = SubSeq(all, 1, m)
    BY <1>0, <1>1 DEF Oldest
  <2> HIDE DEF all, first
  <2>2. SubSeq(all, 1, m) \in Seq(B) /\ Len(SubSeq(all, 1, m)) = m
        /\ \A i \in 1..m : SubSeq(all, 1, m)[i] = all[i]
    BY <1>0, <1>1
  <2>3. ASSUME NEW i \in 1..m
        PROVE  first[i] = SubSeq(all, 1, m)[i]
    <3>1. i \in 1..n
      BY <1>0
    <3> QED BY ONLY Zenon, <1>1, <1>2, <2>2, <3>1, i \in 1..m
  <2> QED BY <1>2, <2>1, <2>2, <2>3
<1>5. ASSUME NEW i \in 1..k
      PROVE  rest[i] = all[m + i]
  <2> DEFINE x == from + m
             y == i - 1
  <2>1. x \in Int /\ y \in Int /\ x + y = from + (m + i) - 1 /\ m + i \in 1..n
    BY <1>0
  <2>2. start = x % S /\ start \in Int
    BY <1>0, <1>10
  <2>3. start + y = start + i - 1
    BY <2>2
  <2> DEFINE l == m + i
  <2>5. l \in 1..n /\ x + y = from + l - 1
    BY <2>1
  <2> HIDE DEF x, y, rest, all, l
  <2>4. ((x % S) + y) % S = (x + y) % S
    BY Zenon, <2>1, RingDifference
  <2>6. rest[i] = buf[(start + i - 1) % S]
    BY <1>3
  <2>7. all[l] = buf[(from + l - 1) % S]
    BY <1>1, <2>5
  <2> QED BY <2>2, <2>3, <2>4, <2>5, <2>6, <2>7 DEF l
<1> HIDE DEF all, first, rest
<1>6. all = first \o rest
  <2>1. ASSUME NEW i \in 1..m
        PROVE  first[i] = all[i]
    <3>1. i \in 1..n
      BY <1>0
    <3> QED BY ONLY Zenon, <1>1, <1>2, <3>1, i \in 1..m
  <2>2. Len(all) = Len(first) + Len(rest)
    BY Zenon, <1>0, <1>1, <1>2, <1>3
  <2>3. \A i \in 1..Len(rest) : all[Len(first) + i] = rest[i]
    BY <1>2, <1>3, <1>5
  <2>4. \A i \in 1..Len(first) : all[i] = first[i]
    BY <1>2, <2>1
  <2>5. all \in Seq(B) /\ first \in Seq(B) /\ rest \in Seq(B)
    BY <1>1, <1>2, <1>3
  <2> QED BY ONLY Zenon, <2>2, <2>3, <2>4, <2>5, ConcatIs
<1> QED BY Zenon, <1>4, <1>6 DEF all, first, rest

\* What is kept of two sequences is the first and what still fits of the second.
LEMMA OldestOfBoth ==
    ASSUME NEW B, NEW seq \in Seq(B), NEW t \in Seq(B), NEW c \in Nat, Len(seq) <= c
    PROVE  Oldest(seq \o t, c) = seq \o Oldest(t, c - Len(seq))
<1> DEFINE m == Shorter(c - Len(seq), Len(t))
           u == SubSeq(t, 1, m)
           all == seq \o t
<1>1. /\ m \in 0..Len(t) /\ Len(seq) \in Nat /\ Len(t) \in Nat
      /\ Shorter(c, Len(seq) + Len(t)) = Len(seq) + m
  BY DEF Shorter
<1>2. u \in Seq(B) /\ Len(u) = m /\ \A i \in 1..m : u[i] = t[i]
  <2> HIDE DEF m
  <2> QED BY <1>1
<1>3. Oldest(t, c - Len(seq)) = u
  BY DEF Oldest
<1>4. all \in Seq(B) /\ Len(all) = Len(seq) + Len(t)
      /\ (\A i \in 1..Len(seq) : all[i] = seq[i])
      /\ (\A i \in Len(seq) + 1..Len(seq) + Len(t) : all[i] = t[i - Len(seq)])
  BY <1>1
<1>5. Oldest(all, c) = SubSeq(all, 1, Len(seq) + m)
  BY <1>1, <1>4 DEF Oldest
<1> HIDE DEF m, u, all
<1>6. /\ SubSeq(all, 1, Len(seq) + m) \in Seq(B)
      /\ Len(SubSeq(all, 1, Len(seq) + m)) = Len(seq) + m
      /\ \A i \in 1..Len(seq) + m : SubSeq(all, 1, Len(seq) + m)[i] = all[i]
  BY <1>1, <1>4
<1>7. ASSUME NEW i \in 1..m
      PROVE  all[Len(seq) + i] = t[i]
  <2> DEFINE l == Len(seq) + i
  <2>1. l \in Len(seq) + 1..Len(seq) + Len(t) /\ l - Len(seq) = i
    BY <1>1
  <2> HIDE DEF l
  <2>2. all[l] = t[l - Len(seq)]
    BY ONLY Zenon, <1>4, <2>1
  <2> QED BY ONLY <2>1, <2>2 DEF l
<1>8. SubSeq(all, 1, Len(seq) + m) = seq \o u
  <2> DEFINE k == Len(seq) + m
             w == SubSeq(all, 1, k)
  <2>1. \A i \in 1..Len(seq) : w[i] = seq[i]
    BY <1>1, <1>4, <1>6
  <2>2. ASSUME NEW i \in 1..m
        PROVE  w[Len(seq) + i] = u[i]
    <3> DEFINE l == Len(seq) + i
    <3>1. l \in 1..Len(seq) + m
      BY <1>1
    <3>2. all[l] = u[i]
      BY Zenon, <1>2, <1>7
    <3> HIDE DEF l
    <3>3. w[l] = all[l]
      BY <1>6, <3>1
    <3> QED BY Zenon, <3>2, <3>3 DEF l
  <2> HIDE DEF k, w
  <2>3. w \in Seq(B) /\ Len(w) = Len(seq) + m
    BY <1>6 DEF w, k
  <2>4. w = seq \o u
    BY Zenon, <1>2, <2>1, <2>2, <2>3, ConcatIs
  <2> QED BY Zenon, <2>4 DEF w, k
<1> QED BY Zenon, <1>3, <1>5, <1>8 DEF all

\* Nothing is dropped of what fits.
LEMMA NewestOfFew ==
    ASSUME NEW B, NEW seq \in Seq(B), NEW c \in Nat, Len(seq) <= c
    PROVE  Newest(seq, c) = seq /\ Newest(seq, Len(seq)) = seq
<1>1. Shorter(c, Len(seq)) = Len(seq) /\ Shorter(Len(seq), Len(seq)) = Len(seq) /\ Len(seq) \in Nat
  BY DEF Shorter
<1>2. SubSeq(seq, Len(seq) - Len(seq) + 1, Len(seq)) = seq
  OBVIOUS
<1> QED BY <1>1, <1>2 DEF Newest

-----------------------------------------------------------------------------
(* The ring buffer.                                                        *)

Pointer == [mirror : {0, 1}, index : 0..RbSize - 1]

CallKind == {"put", "force", "take", "reset"}
RingCalls(B) == [op : CallKind, length : Nat, bytes : Seq(B)]

LEMMA GivesType ==
    ASSUME NEW B, NEW op \in CallKind, NEW bytes \in Seq(B)
    PROVE  /\ Gives(op, bytes) \in RingCalls(B)
           /\ Gives(op, bytes).op = op /\ Gives(op, bytes).bytes = bytes
<1>1. Len(bytes) \in Nat
  OBVIOUS
<1> QED BY <1>1 DEF Gives, RingCall, RingCalls

RbType(r) ==
    r \in [read : Pointer, write : Pointer, buf : [0..RbSize - 1 -> Byte],
           call : RingCalls(Byte)]

\* The writer is ahead of the reader by at most the size: in the same mirror it is
\* not behind it, in the other one not beyond it.
RbInOrder(r) ==
    IF r.read.mirror = r.write.mirror THEN r.read.index <= r.write.index
    ELSE r.write.index <= r.read.index

RbGood(r) == RbType(r) /\ RbInOrder(r)

LEMMA RbSizes == RbSize \in Nat \ {0}
BY RingBufferAssumption

\* an index moved by up to the size
LEMMA AdvancedIs ==
    ASSUME NEW e \in Pointer, NEW n \in 0..RbSize
    PROVE  /\ Advanced(e, n) \in Pointer
           /\ Advanced(e, n).index = (e.index + n) % RbSize
           /\ Advanced(e, n).index = IF e.index + n < RbSize THEN e.index + n
                                     ELSE e.index + n - RbSize
           /\ Advanced(e, n).mirror = IF e.index + n < RbSize THEN e.mirror ELSE 1 - e.mirror
<1> DEFINE x == e.index
<1>1. x \in 0..RbSize - 1 /\ e.mirror \in {0, 1}
  BY DEF Pointer
<1>2. CASE x + n < RbSize
  <2>1. Advanced(e, n) = [mirror |-> e.mirror, index |-> x + n]
    BY <1>1, <1>2, RbSizes DEF Advanced, Pointer
  <2>2. (x + n) % RbSize = x + n /\ x + n \in 0..RbSize - 1
    BY SMTT(30), <1>1, <1>2, RbSizes
  <2> QED BY <1>1, <1>2, <2>1, <2>2 DEF Pointer
<1>3. CASE x + n >= RbSize
  <2>1. Advanced(e, n) = [mirror |-> 1 - e.mirror, index |-> x + n - RbSize]
    BY <1>1, <1>3, RbSizes DEF Advanced, Pointer
  <2>2. (x + n) % RbSize = x + n - RbSize /\ x + n - RbSize \in 0..RbSize - 1
    BY <1>1, <1>3, RbSizes
  <2>3. 1 - e.mirror \in {0, 1} /\ ~(x + n < RbSize)
    BY <1>1, <1>3, RbSizes
  <2> QED BY <1>1, <2>1, <2>2, <2>3 DEF Pointer
<1> QED BY <1>1, <1>2, <1>3, RbSizes

\* the number of bytes, and where the writer is
LEMMA RbLength ==
    ASSUME NEW r, RbGood(r)
    PROVE  /\ data_len(r) = IF r.read.mirror = r.write.mirror
                            THEN r.write.index - r.read.index
                            ELSE RbSize + r.write.index - r.read.index
           /\ data_len(r) \in 0..RbSize
           /\ space_len(r) \in 0..RbSize
           /\ data_len(r) + space_len(r) = RbSize
           /\ r.write.index = (r.read.index + data_len(r)) % RbSize
<1> DEFINE R == r.read.index
           W == r.write.index
           same == r.read.mirror = r.write.mirror
           len == IF same THEN W - R ELSE RbSize + W - R
<1>1. R \in 0..RbSize - 1 /\ W \in 0..RbSize - 1 /\ (same => R <= W) /\ (~same => W <= R)
  BY DEF RbGood, RbType, RbInOrder, Pointer
<1>2. data_len(r) = len
  <2>1. CASE R # W
    <3>1. data_len(r) = IF W > R THEN W - R ELSE RbSize - (R - W)
      BY <2>1 DEF data_len, RbStatus
    <3> QED BY <1>1, <2>1, <3>1, RbSizes
  <2>2. CASE R = W /\ same
    BY <1>1, <2>2, RbSizes DEF data_len, RbStatus
  <2>3. CASE R = W /\ ~same
    BY <1>1, <2>3, RbSizes DEF data_len, RbStatus
  <2> QED BY <2>1, <2>2, <2>3
<1> HIDE DEF R, W, same
<1>3. len \in 0..RbSize /\ RbSize - len \in 0..RbSize /\ len + (RbSize - len) = RbSize
  BY <1>1, RbSizes
<1>4. W = (R + len) % RbSize
  <2>1. CASE same
    BY <1>1, <2>1, RbSizes
  <2>2. CASE ~same
    BY <1>1, <2>2, RbSizes
  <2> QED BY <2>1, <2>2
<1> QED BY <1>2, <1>3, <1>4 DEF space_len, R, W, same

\* the writer moves into the room
LEMMA RbWriterMoves ==
    ASSUME NEW r, RbGood(r), NEW q, RbType(q), NEW n \in 0..space_len(r),
           q.read = r.read, q.write = Advanced(r.write, n)
    PROVE  RbGood(q) /\ data_len(q) = data_len(r) + n
<1> DEFINE R == r.read.index
           W == r.write.index
           same == r.read.mirror = r.write.mirror
           V == q.write.index
           wraps == W + n >= RbSize
<1>1. R \in 0..RbSize - 1 /\ W \in 0..RbSize - 1 /\ (same => R <= W) /\ (~same => W <= R)
  BY DEF RbGood, RbType, RbInOrder, Pointer
<1>2. /\ data_len(r) = IF same THEN W - R ELSE RbSize + W - R
      /\ data_len(r) + space_len(r) = RbSize /\ space_len(r) \in 0..RbSize
      /\ data_len(r) \in 0..RbSize
  BY RbLength
<1>3. n \in 0..RbSize /\ data_len(r) + n <= RbSize
  BY <1>2, RbSizes
<1>4. /\ V = IF W + n < RbSize THEN W + n ELSE W + n - RbSize
      /\ q.write.mirror = IF W + n < RbSize THEN r.write.mirror ELSE 1 - r.write.mirror
  BY <1>3, AdvancedIs DEF RbGood, RbType
<1>5. r.read.mirror \in {0, 1} /\ r.write.mirror \in {0, 1} /\ q.read.mirror = r.read.mirror
      /\ q.read.index = R
  BY DEF RbGood, RbType, Pointer
<1>6. (q.read.mirror = q.write.mirror) <=> (same <=> ~wraps)
  BY <1>1, <1>3, <1>4, <1>5, RbSizes
<1>7. RbGood(q)
  <2>1. q.read.mirror = q.write.mirror => R <= V
    BY <1>1, <1>2, <1>3, <1>4, <1>6, RbSizes
  <2>2. q.read.mirror # q.write.mirror => V <= R
    BY <1>1, <1>2, <1>3, <1>4, <1>6, RbSizes
  <2> QED BY <2>1, <2>2, <1>5 DEF RbGood, RbInOrder
<1>8. data_len(q) = IF q.read.mirror = q.write.mirror THEN V - R ELSE RbSize + V - R
  BY <1>5, <1>7, RbLength
<1> QED BY <1>1, <1>2, <1>3, <1>4, <1>6, <1>7, <1>8, RbSizes

\* the reader moves over the bytes
LEMMA RbReaderMoves ==
    ASSUME NEW r, RbGood(r), NEW q, RbType(q), NEW n \in 0..data_len(r),
           q.write = r.write, q.read = Advanced(r.read, n)
    PROVE  RbGood(q) /\ data_len(q) = data_len(r) - n
<1> DEFINE R == r.read.index
           W == r.write.index
           same == r.read.mirror = r.write.mirror
           V == q.read.index
           wraps == R + n >= RbSize
<1>1. R \in 0..RbSize - 1 /\ W \in 0..RbSize - 1 /\ (same => R <= W) /\ (~same => W <= R)
  BY DEF RbGood, RbType, RbInOrder, Pointer
<1>2. /\ data_len(r) = IF same THEN W - R ELSE RbSize + W - R
      /\ data_len(r) \in 0..RbSize
  BY RbLength
<1>3. n \in 0..RbSize
  BY <1>2, RbSizes
<1>4. /\ V = IF R + n < RbSize THEN R + n ELSE R + n - RbSize
      /\ q.read.mirror = IF R + n < RbSize THEN r.read.mirror ELSE 1 - r.read.mirror
  BY <1>3, AdvancedIs DEF RbGood, RbType
<1>5. r.read.mirror \in {0, 1} /\ r.write.mirror \in {0, 1} /\ q.write.mirror = r.write.mirror
      /\ q.write.index = W
  BY DEF RbGood, RbType, Pointer
<1>6. (q.read.mirror = q.write.mirror) <=> (same <=> ~wraps)
  BY <1>1, <1>3, <1>4, <1>5, RbSizes
<1>7. RbGood(q)
  <2>1. q.read.mirror = q.write.mirror => V <= W
    BY <1>1, <1>2, <1>3, <1>4, <1>6, RbSizes
  <2>2. q.read.mirror # q.write.mirror => W <= V
    BY <1>1, <1>2, <1>3, <1>4, <1>6, RbSizes
  <2> QED BY <2>1, <2>2, <1>5 DEF RbGood, RbInOrder
<1>8. data_len(q) = IF q.read.mirror = q.write.mirror THEN W - V ELSE RbSize + W - V
  BY <1>5, <1>7, RbLength
<1> QED BY <1>1, <1>2, <1>3, <1>4, <1>6, <1>7, <1>8, RbSizes

RbBytes(r) == RingBytes(r.buf, RbSize, r.read.index, data_len(r))

LEMMA RbBytesAre ==
    ASSUME NEW r, RbGood(r)
    PROVE  RbBytes(r) \in Seq(Byte) /\ Len(RbBytes(r)) = data_len(r)
<1> DEFINE n == data_len(r)
           from == r.read.index
           buf == r.buf
<1>1. n \in Nat
  BY RbLength, RbSizes
<1>2. from \in Int /\ IsBuffer(buf, RbSize, Byte)
  BY RbSizes DEF RbGood, RbType, Pointer, IsBuffer
<1> HIDE DEF n, from, buf
<1>3. LET w == RingBytes(buf, RbSize, from, n) IN w \in Seq(Byte) /\ Len(w) = n
  BY <1>1, <1>2, RingBytesAre, RbSizes
<1> QED BY <1>3 DEF n, from, buf, RbBytes

LEMMA RbContents == RbContent = RbBytes(rb) /\ RbContent' = RbBytes(rb')
BY DEF RbContent, RbBytes

\* the steps of the abstract ring, in terms of the buffer
LEMMA RbRingSteps ==
    /\ RbRing!Put <=> /\ rb'.call.op = "put"
                      /\ RbBytes(rb') = Oldest(RbBytes(rb) \o rb'.call.bytes, RbSize)
    /\ RbRing!Force <=> /\ rb'.call.op = "force"
                        /\ RbBytes(rb') = Newest(RbBytes(rb) \o rb'.call.bytes, RbSize)
    /\ RbRing!Take <=> /\ rb'.call.op = "take"
                       /\ rb'.call.bytes = Oldest(RbBytes(rb), rb'.call.length)
                       /\ RbBytes(rb) = rb'.call.bytes \o RbBytes(rb')
    /\ RbRing!Reset <=> rb'.call.op = "reset" /\ RbBytes(rb') = << >>
BY RbContents DEF RbRing!Put, RbRing!Force, RbRing!Take, RbRing!Reset, RbRing!Oldest,
   RbRing!Newest, RbRing!Shorter, Oldest, Newest, Shorter

LEMMA RingStoredType ==
    ASSUME NEW S \in Nat \ {0}, NEW B, NEW buf, IsBuffer(buf, S, B), NEW at \in Int,
           NEW bytes \in Seq(B)
    PROVE  IsBuffer(RingStored(buf, S, at, bytes), S, B)
<1>1. \A i \in 0..S - 1 : (i - at) % S \in Nat
  OBVIOUS
<1>2. ASSUME NEW i \in 0..S - 1, (i - at) % S < Len(bytes)
      PROVE  bytes[((i - at) % S) + 1] \in B
  <2> DEFINE k == (i - at) % S
  <2>1. k \in Nat /\ k < Len(bytes)
    BY <1>1, <1>2
  <2> HIDE DEF k
  <2>2. bytes[k + 1] \in B
    BY <2>1
  <2> QED BY <2>2 DEF k
<1>3. \A i \in 0..S - 1 : buf[i] \in B
  BY DEF IsBuffer
<1> QED BY <1>2, <1>3 DEF RingStored, IsBuffer

\* what a sequence can give
LEMMA OldestIs ==
    ASSUME NEW B, NEW seq \in Seq(B), NEW n \in Nat
    PROVE  /\ Oldest(seq, n) \in Seq(B) /\ Len(Oldest(seq, n)) = Shorter(n, Len(seq))
           /\ Shorter(n, Len(seq)) \in 0..n
<1> DEFINE m == Shorter(n, Len(seq))
<1>1. m \in 0..Len(seq) /\ m \in 0..n
  BY DEF Shorter
<1> HIDE DEF m
<1>2. SubSeq(seq, 1, m) \in Seq(B) /\ Len(SubSeq(seq, 1, m)) = m
  BY <1>1
<1> QED BY <1>1, <1>2 DEF Oldest, m

\* The bytes that are written behind those of a ring, as far as there is room,
\* come behind them.
LEMMA RingAppend ==
    ASSUME NEW S \in Nat \ {0}, NEW B, NEW buf, IsBuffer(buf, S, B), NEW from \in 0..S - 1,
           NEW n \in 0..S, NEW bytes \in Seq(B), n + Len(bytes) <= S,
           NEW at \in 0..S - 1, at = (from + n) % S
    PROVE  RingBytes(RingStored(buf, S, at, bytes), S, from, n + Len(bytes))
             = RingBytes(buf, S, from, n) \o bytes
<1> DEFINE L == Len(bytes)
           c == n + L
           all == RingBytes(buf, S, from, n) \o bytes
<1>1. L \in Nat /\ L <= S /\ c \in 0..S /\ c <= n + L
  OBVIOUS
<1>2. from = (from + (n + L - c)) % S
  BY <1>1
<1>3. all \in Seq(B) /\ Len(all) = c
  <2>1. RingBytes(buf, S, from, n) \in Seq(B) /\ Len(RingBytes(buf, S, from, n)) = n
    BY RingBytesAre
  <2> QED BY <2>1
<1> HIDE DEF c
<1>4. RingBytes(RingStored(buf, S, at, bytes), S, from, c) = Newest(all, c)
  BY <1>1, <1>2, RingAfterStore
<1> HIDE DEF all
<1>5. Newest(all, c) = all
  BY <1>1, <1>3, NewestOfFew
<1> QED BY <1>4, <1>5 DEF all, c

\* the type of the ring after a call that writes
LEMMA RbWrittenType ==
    ASSUME NEW r, RbGood(r), NEW kept \in Seq(Byte), Len(kept) <= RbSize
    PROVE  Advanced(r.write, Len(kept)) \in Pointer /\ IsBuffer(Copied(r, kept), RbSize, Byte)
<1>1. r.write \in Pointer /\ r.write.index \in Int /\ IsBuffer(r.buf, RbSize, Byte)
  BY RbSizes DEF RbGood, RbType, Pointer, IsBuffer
<1>2. Len(kept) \in 0..RbSize
  BY RbSizes
<1>3. Advanced(r.write, Len(kept)) \in Pointer
  BY ONLY <1>1, <1>2, AdvancedIs
<1>4. IsBuffer(Copied(r, kept), RbSize, Byte)
  BY <1>1, RingStoredType, RbSizes DEF Copied
<1> QED BY <1>3, <1>4

\* bytes for which there is room
LEMMA RbAppends ==
    ASSUME NEW r, RbGood(r), NEW q, RbType(q), NEW kept \in Seq(Byte),
           Len(kept) <= space_len(r), q.read = r.read,
           q.write = Advanced(r.write, Len(kept)), q.buf = Copied(r, kept)
    PROVE  RbGood(q) /\ RbBytes(q) = RbBytes(r) \o kept
<1> DEFINE n == data_len(r)
           R == r.read.index
           W == r.write.index
           buf == r.buf
<1>1. /\ n \in 0..RbSize /\ space_len(r) \in 0..RbSize /\ n + space_len(r) = RbSize
      /\ W = (R + n) % RbSize
  BY RbLength
<1>2. IsBuffer(buf, RbSize, Byte) /\ R \in 0..RbSize - 1 /\ W \in 0..RbSize - 1
  BY DEF RbGood, RbType, Pointer, IsBuffer
<1>3. Len(kept) \in 0..space_len(r) /\ n + Len(kept) <= RbSize
  BY <1>1, RbSizes
<1>4. RbGood(q) /\ data_len(q) = n + Len(kept)
  BY <1>3, RbWriterMoves
<1>5. RbBytes(q) = RingBytes(RingStored(buf, RbSize, W, kept), RbSize, R, n + Len(kept))
  BY <1>4 DEF RbBytes, Copied
<1>6. RbBytes(r) = RingBytes(buf, RbSize, R, n)
  BY DEF RbBytes
<1> HIDE DEF n, R, W, buf
<1>7. RingBytes(RingStored(buf, RbSize, W, kept), RbSize, R, n + Len(kept))
        = RingBytes(buf, RbSize, R, n) \o kept
  BY ONLY SMTT(30), <1>1, <1>2, <1>3, kept \in Seq(Byte), RingAppend, RbSizes
<1> QED BY <1>4, <1>5, <1>6, <1>7

LEMMA RbPutStep ==
    ASSUME RbGood(rb), NEW bytes \in Seq(Byte), RbPut(bytes)
    PROVE  RbGood(rb') /\ RbRing!Put
<1> DEFINE room == space_len(rb)
           kept == Oldest(bytes, room)
           old == RbBytes(rb)
<1>1. room \in 0..RbSize /\ RbSize - data_len(rb) = room /\ data_len(rb) \in 0..RbSize
  BY RbLength, RbSizes
<1>2. rb' = [rb EXCEPT !.buf = Copied(rb, kept), !.write = Advanced(rb.write, Len(kept)),
                       !.call = Gives("put", bytes)]
  BY DEF RbPut
<1> HIDE DEF room
<1>3. kept \in Seq(Byte) /\ Len(kept) <= room /\ Len(kept) <= RbSize
  <2>1. kept \in Seq(Byte) /\ Len(kept) \in 0..room
    BY <1>1, OldestIs
  <2> HIDE DEF kept
  <2> QED BY <1>1, <2>1, RbSizes
<1> HIDE DEF kept
<1>4. Advanced(rb.write, Len(kept)) \in Pointer /\ IsBuffer(Copied(rb, kept), RbSize, Byte)
  BY <1>3, RbWrittenType
<1>5. /\ Gives("put", bytes) \in RingCalls(Byte)
      /\ Gives("put", bytes).op = "put" /\ Gives("put", bytes).bytes = bytes
  BY GivesType DEF CallKind
<1>6. /\ RbType(rb') /\ rb'.read = rb.read /\ rb'.write = Advanced(rb.write, Len(kept))
      /\ rb'.buf = Copied(rb, kept) /\ rb'.call = Gives("put", bytes)
  BY Zenon, <1>2, <1>4, <1>5 DEF RbGood, RbType, IsBuffer
<1>7. RbGood(rb') /\ RbBytes(rb') = old \o kept
  BY <1>3, <1>6, RbAppends DEF room
<1>8. Oldest(old \o bytes, RbSize) = old \o kept
  <2>1. old \in Seq(Byte) /\ Len(old) = data_len(rb)
    BY RbBytesAre
  <2>2. RbSize \in Nat /\ data_len(rb) <= RbSize
    BY <1>1, RbSizes
  <2> HIDE DEF old
  <2>3. Oldest(old \o bytes, RbSize) = old \o Oldest(bytes, RbSize - Len(old))
    BY ONLY Zenon, <2>1, <2>2, OldestOfBoth, bytes \in Seq(Byte)
  <2> QED BY ONLY Zenon, <1>1, <2>1, <2>3 DEF kept
<1> QED BY Zenon, <1>5, <1>6, <1>7, <1>8, RbRingSteps

\* A forced put of one byte: a full ring stays full, and both indices move on.
LEMMA RbPutForceStep ==
    ASSUME RbGood(rb), NEW bytes \in Seq(Byte), Len(bytes) <= 1, RbPutForce(bytes)
    PROVE  RbGood(rb') /\ RbRing!Force
<1> DEFINE room == space_len(rb)
           n == data_len(rb)
           L == Len(bytes)
           write == Advanced(rb.write, L)
           flips == write.mirror # rb.write.mirror
           read == [mirror |-> IF flips THEN 1 - rb.read.mirror ELSE rb.read.mirror,
                    index |-> write.index]
           old == RbBytes(rb)
<1>1. L \in 0..1 /\ L <= RbSize /\ L \in 0..RbSize
  <2>1. L \in Nat /\ L <= 1
    OBVIOUS
  <2> HIDE DEF L
  <2> QED BY ONLY <2>1, RbSizes
<1>2. Newest(bytes, RbSize) = bytes
  BY <1>1, NewestOfFew, RbSizes
<1>3. rb' = [rb EXCEPT !.buf = Copied(rb, bytes), !.write = write,
                       !.read = IF L > room THEN read ELSE rb.read,
                       !.call = Gives("force", bytes)]
  BY <1>2 DEF RbPutForce
<1>4. write \in Pointer /\ IsBuffer(Copied(rb, bytes), RbSize, Byte)
  BY <1>1, RbWrittenType
<1>5. /\ Gives("force", bytes) \in RingCalls(Byte)
      /\ Gives("force", bytes).op = "force" /\ Gives("force", bytes).bytes = bytes
  BY GivesType DEF CallKind
<1>6. rb.read \in Pointer /\ rb.write \in Pointer
  BY DEF RbGood, RbType
<1>7. read \in Pointer
  <2>1. rb.read.mirror \in {0, 1} /\ write.index \in 0..RbSize - 1
    BY <1>4, <1>6 DEF Pointer
  <2>2. (IF flips THEN 1 - rb.read.mirror ELSE rb.read.mirror) \in {0, 1}
    BY <2>1
  <2> HIDE DEF flips, write
  <2> QED BY <2>1, <2>2 DEF Pointer
<1>8. /\ RbType(rb') /\ rb'.write = write /\ rb'.read = IF L > room THEN read ELSE rb.read
      /\ rb'.buf = Copied(rb, bytes) /\ rb'.call = Gives("force", bytes)
  <2> HIDE DEF read, write, room, L
  <2> QED BY Zenon, <1>3, <1>4, <1>5, <1>6, <1>7 DEF RbGood, RbType, IsBuffer
<1>9. n \in 0..RbSize /\ room \in 0..RbSize /\ n + room = RbSize
  BY RbLength
<1>10. old \in Seq(Byte) /\ Len(old) = n
  BY RbBytesAre
<1>11. CASE L <= room
  <2>1. rb'.read = rb.read
    BY <1>1, <1>8, <1>9, <1>11
  <2>2. RbGood(rb') /\ RbBytes(rb') = old \o bytes
    BY <1>8, <1>11, <2>1, RbAppends
  <2>3. old \o bytes \in Seq(Byte) /\ Len(old \o bytes) <= RbSize
    BY <1>1, <1>9, <1>10, <1>11, RbSizes
  <2>4. Newest(old \o bytes, RbSize) = old \o bytes
    BY Zenon, <2>3, NewestOfFew, RbSizes
  <2> QED BY <1>5, <1>8, <2>2, <2>4, RbRingSteps
<1>12. CASE L > room
  <2>1. L = 1 /\ room = 0 /\ n = RbSize
    BY <1>1, <1>9, <1>12, RbSizes
  <2>2. /\ rb.read.mirror # rb.write.mirror /\ rb.read.index = rb.write.index
        /\ rb.read.mirror \in {0, 1} /\ rb.write.mirror \in {0, 1}
        /\ rb.read.index \in 0..RbSize - 1
    <3> DEFINE same == rb.read.mirror = rb.write.mirror
               R == rb.read.index
               W == rb.write.index
    <3>1. R \in 0..RbSize - 1 /\ W \in 0..RbSize - 1
          /\ rb.read.mirror \in {0, 1} /\ rb.write.mirror \in {0, 1}
      BY <1>6 DEF Pointer
    <3>2. n = IF same THEN W - R ELSE RbSize + W - R
      BY RbLength
    <3> HIDE DEF same, R, W, n
    <3>3. ~same /\ R = W
      BY <2>1, <3>1, <3>2, RbSizes
    <3> QED BY <3>1, <3>3 DEF same, R, W
  <2>3. rb'.read = read
    BY <1>8, <1>12
  <2>4. /\ write.index = (rb.write.index + 1) % RbSize
        /\ write.mirror \in {0, 1} /\ write.index \in 0..RbSize - 1
    BY SMTT(30), <1>1, <1>4, <1>6, <2>1, AdvancedIs DEF Pointer
  <2> HIDE DEF write
  <2>5. read.mirror # write.mirror /\ read.index = write.index
    BY <2>2, <2>4
  <2> HIDE DEF read
  <2>6. RbGood(rb')
    BY <1>8, <2>3, <2>4, <2>5 DEF RbGood, RbInOrder
  <2>7. data_len(rb') = RbSize
    BY <1>8, <2>3, <2>5 DEF data_len, RbStatus
  <2>8. RbBytes(rb') = Newest(old \o bytes, RbSize)
    <3> DEFINE buf == rb.buf
               R == rb.read.index
               start == write.index
    <3>1. IsBuffer(buf, RbSize, Byte) /\ R \in 0..RbSize - 1 /\ start \in 0..RbSize - 1
      BY <2>2, <2>4 DEF RbGood, RbType, IsBuffer
    <3>2. R = (R + RbSize) % RbSize /\ start = (R + (RbSize + Len(bytes) - RbSize)) % RbSize
      <4> HIDE DEF R
      <4>1. R \in 0..RbSize - 1 /\ RbSize + Len(bytes) - RbSize = 1
        BY <2>1, <3>1, RbSizes
      <4>2. R = (R + RbSize) % RbSize
        BY <4>1, RbSizes
      <4>3. start = (R + 1) % RbSize
        BY <2>2, <2>4 DEF R
      <4> QED BY ONLY <4>1, <4>2, <4>3
    <3>3. old = RingBytes(buf, RbSize, R, RbSize)
      BY <2>1 DEF RbBytes
    <3>4. RbBytes(rb') = RingBytes(RingStored(buf, RbSize, R, bytes), RbSize, start, RbSize)
      BY <1>8, <2>2, <2>3, <2>5, <2>7 DEF RbBytes, Copied
    <3>5. RbSize \in 0..RbSize /\ RbSize <= RbSize + Len(bytes)
      BY <1>1, RbSizes
    <3> HIDE DEF buf, R, start
    <3>6. RingBytes(RingStored(buf, RbSize, R, bytes), RbSize, start, RbSize)
            = Newest(RingBytes(buf, RbSize, R, RbSize) \o bytes, RbSize)
      BY ONLY <1>1, <3>1, <3>2, <3>5, bytes \in Seq(Byte), RingAfterStore, RbSizes
    <3> QED BY <3>3, <3>4, <3>6
  <2> QED BY <1>5, <1>8, <2>6, <2>8, RbRingSteps
<1> QED BY <1>1, <1>9, <1>11, <1>12

LEMMA RbGetStep ==
    ASSUME RbGood(rb), NEW length \in Nat, RbGet(length)
    PROVE  RbGood(rb') /\ RbRing!Take
<1> DEFINE n == data_len(rb)
           m == Shorter(length, n)
           R == rb.read.index
           buf == rb.buf
           taken == RingBytes(buf, RbSize, R, m)
           call == RingCall("take", length, taken)
<1>1. n \in 0..RbSize
  BY RbLength
<1>2. m \in 0..n /\ m \in 0..RbSize /\ m \in Nat
  BY <1>1, RbSizes DEF Shorter
<1>3. rb' = [rb EXCEPT !.read = Advanced(rb.read, m), !.call = call]
  BY DEF RbGet
<1>4. IsBuffer(buf, RbSize, Byte) /\ rb.read \in Pointer /\ R \in 0..RbSize - 1 /\ R \in Int
  BY RbSizes DEF RbGood, RbType, Pointer, IsBuffer
<1> HIDE DEF n
<1>5. taken \in Seq(Byte)
  <2> HIDE DEF m, buf, R
  <2> QED BY Zenon, <1>2, <1>4, RingBytesAre, RbSizes
<1>6. Advanced(rb.read, m) \in Pointer /\ Advanced(rb.read, m).index = (R + m) % RbSize
  <2> HIDE DEF m
  <2> QED BY <1>2, <1>4, AdvancedIs
<1> HIDE DEF taken
<1>7. /\ call \in RingCalls(Byte) /\ call.op = "take" /\ call.length = length
      /\ call.bytes = taken
  BY <1>5 DEF RingCall, RingCalls, CallKind
<1> HIDE DEF call, m
<1>8. /\ RbType(rb') /\ rb'.write = rb.write /\ rb'.read = Advanced(rb.read, m)
      /\ rb'.buf = buf /\ rb'.call = call
  BY Zenon, <1>3, <1>6, <1>7 DEF RbGood, RbType
<1>9. RbGood(rb') /\ data_len(rb') = n - m
  BY <1>2, <1>8, RbReaderMoves DEF n
<1>10. RbBytes(rb) = RingBytes(buf, RbSize, R, n)
  BY DEF RbBytes, n
<1>11. RbBytes(rb') = RingBytes(buf, RbSize, (R + m) % RbSize, n - m)
  BY <1>6, <1>8, <1>9 DEF RbBytes
<1>12. m = Shorter(length, n)
  BY DEF m
<1> DEFINE start == (R + m) % RbSize
           k == n - m
<1>15. SplitAt(RbSize, length, R, n, m, start, k)
  BY <1>1, <1>2, <1>4, <1>12 DEF SplitAt
<1> HIDE DEF R, buf, start, k
<1>13. /\ RingBytes(buf, RbSize, R, m) = Oldest(RingBytes(buf, RbSize, R, n), length)
       /\ RingBytes(buf, RbSize, R, n)
            = RingBytes(buf, RbSize, R, m) \o RingBytes(buf, RbSize, start, k)
  BY ONLY <1>4, <1>15, length \in Nat, RingSplit, RbSizes
<1>14. taken = Oldest(RbBytes(rb), length) /\ RbBytes(rb) = taken \o RbBytes(rb')
  BY Zenon, <1>10, <1>11, <1>13 DEF taken, start, k
<1> QED BY Zenon, <1>7, <1>8, <1>9, <1>14, RbRingSteps

LEMMA RbEmpty ==
    ASSUME NEW r, RbType(r), r.read = Start, r.write = Start
    PROVE  RbGood(r) /\ RbBytes(r) = << >>
<1>1. data_len(r) = 0 /\ RbInOrder(r)
  BY DEF Start, data_len, RbStatus, RbInOrder
<1>2. RingBytes(r.buf, RbSize, r.read.index, 0) = << >>
  BY DEF RingBytes
<1> QED BY <1>1, <1>2 DEF RbGood, RbBytes

LEMMA RbResetStep ==
    ASSUME RbGood(rb), RbReset
    PROVE  RbGood(rb') /\ RbRing!Reset
<1>1. Start \in Pointer
  BY RbSizes DEF Start, Pointer
<1>2. Gives("reset", << >>) \in RingCalls(Byte) /\ Gives("reset", << >>).op = "reset"
  BY << >> \in Seq(Byte), GivesType DEF CallKind
<1>3. RbType(rb') /\ rb'.read = Start /\ rb'.write = Start /\ rb'.call = Gives("reset", << >>)
  BY Zenon, <1>1, <1>2 DEF RbReset, RbGood, RbType
<1> QED BY <1>2, <1>3, RbEmpty, RbRingSteps

LEMMA RbInitial ==
    ASSUME RbInit
    PROVE  RbGood(rb) /\ RbRing!Init
<1>1. PICK b \in Byte :
         rb = [read |-> Start, write |-> Start, buf |-> [i \in 0..RbSize - 1 |-> b],
               call |-> Gives("reset", << >>)]
  BY Zenon DEF RbInit
<1>2. Start \in Pointer
  BY RbSizes DEF Start, Pointer
<1>3. Gives("reset", << >>) \in RingCalls(Byte)
  BY << >> \in Seq(Byte), GivesType DEF CallKind
<1>4. RbType(rb) /\ rb.read = Start /\ rb.write = Start /\ rb.call = Gives("reset", << >>)
  BY <1>1, <1>2, <1>3 DEF RbType
<1>5. RbGood(rb) /\ RbContent = << >>
  BY <1>4, RbEmpty, RbContents
<1>6. RbRing!Gives("reset", << >>) = Gives("reset", << >>)
  BY DEF RbRing!Gives, RbRing!RingCall, Gives, RingCall
<1> QED BY <1>4, <1>5, <1>6 DEF RbRing!Init

LEMMA BytesAre ==
    ASSUME NEW lengths \in SUBSET Nat, NEW bytes \in Bytes(lengths)
    PROVE  bytes \in Seq(Byte) /\ Len(bytes) \in lengths
<1>1. PICK n \in lengths : bytes \in [1..n -> Byte]
  BY DEF Bytes
<1>2. n \in Nat
  OBVIOUS
<1> QED BY <1>1, <1>2

LEMMA RbNextSteps ==
    ASSUME ForceLength \subseteq {0, 1}, RbGood(rb), [RingBufferNext]_rb
    PROVE  RbGood(rb') /\ [RbRing!Next]_<<RbContent, rb.call>>
<1>1. ASSUME NEW bytes \in Bytes(PutLength), RbPut(bytes)
      PROVE  RbGood(rb') /\ RbRing!Put
  BY <1>1, BytesAre, RbPutStep, RingBufferAssumption
<1>2. ASSUME NEW bytes \in Bytes(ForceLength), RbPutForce(bytes)
      PROVE  RbGood(rb') /\ RbRing!Force
  <2>1. bytes \in Seq(Byte) /\ Len(bytes) \in ForceLength
    BY BytesAre, RingBufferAssumption
  <2> QED BY <1>2, <2>1, RbPutForceStep
<1>3. ASSUME NEW length \in GetLength, RbGet(length)
      PROVE  RbGood(rb') /\ RbRing!Take
  BY <1>3, RbGetStep, RingBufferAssumption
<1>4. CASE RbReset
  BY <1>4, RbResetStep DEF RbRing!Next
<1>5. CASE UNCHANGED rb
  <2>1. RbGood(rb')
    BY <1>5
  <2>2. UNCHANGED <<RbContent, rb.call>>
    BY <1>5, RbContents
  <2> QED BY <2>1, <2>2
<1> QED BY <1>1, <1>2, <1>3, <1>4, <1>5 DEF RingBufferNext, RbRing!Next

\* For any size, bytes and lengths: with put, get, reset and the forced put of one
\* byte (rt_ringbuffer_put, putchar, get, getchar, reset and putchar_force) the
\* ring buffer is a queue of bytes of its capacity.  A longer forced put is not
\* among them: rt_ringbuffer_put_force may flip the mirror bit of the reader when
\* it must not.
THEOREM RingBufferIsAQueue ==
    ASSUME ForceLength \subseteq {0, 1}
    PROVE  RbSpec => RbImplementsRing
<1>1. RbInit => RbGood(rb) /\ RbRing!Init
  BY RbInitial
<1>2. RbGood(rb) /\ [RingBufferNext]_rb
      => RbGood(rb)' /\ [RbRing!Next]_<<RbContent, rb.call>>
  BY RbNextSteps
<1> QED BY <1>1, <1>2, PTL DEF RbSpec, RbImplementsRing, RbRing!Spec

-----------------------------------------------------------------------------
(* Serial: reception.                                                      *)

RxType(f) ==
    f \in [put : 0..RxSize - 1, get : 0..RxSize - 1, full : BOOLEAN, mode : {"int", "dma"},
           dma : 0..RxSize, buf : [0..RxSize - 1 -> RxByte], call : RingCalls(RxByte)]

\* When bytes come one by one the put index never reaches the read index; with DMA
\* the flag says that it has.
RxGood(f) ==
    /\ RxType(f)
    /\ f.mode = "int" => (f.put = f.get => ~f.full)
    /\ f.mode = "dma" => (f.full => f.put = f.get)

RxAll(f) == RingBytes(f.buf, RxSize, f.get, RxLen(f))

\* f holds n bytes
RxHolds(f, n) ==
    /\ n \in 0..RxSize /\ f.put = (f.get + n) % RxSize
    /\ (n = 0 => ~f.full) /\ (n = RxSize => f.full)

LEMMA RxSizes == RxSize \in Nat \ {0} /\ RxSize > 1
BY SerialAssumption

LEMMA RxLenIs ==
    ASSUME NEW f, RxType(f), NEW n, RxHolds(f, n)
    PROVE  RxLen(f) = n
<1> DEFINE p == f.put
           g == f.get
<1>1. p \in 0..RxSize - 1 /\ g \in 0..RxSize - 1 /\ n \in 0..RxSize /\ p = (g + n) % RxSize
  BY DEF RxType, RxHolds
<1>2. RxLen(f) = IF p = g THEN (IF f.full THEN RxSize ELSE 0)
                 ELSE IF p > g THEN p - g ELSE RxSize - (g - p)
  BY DEF RxLen
<1>3. (n = 0 => ~f.full) /\ (n = RxSize => f.full)
  BY DEF RxHolds
<1> HIDE DEF p, g
<1>4. p = IF g + n < RxSize THEN g + n ELSE g + n - RxSize
  BY <1>1, RxSizes
<1>5. CASE p = g
  <2>1. n = 0 \/ n = RxSize
    BY ONLY <1>1, <1>4, <1>5, RxSizes
  <2> QED BY <1>2, <1>3, <1>5, <2>1
<1>6. CASE p # g
  BY ONLY <1>1, <1>2, <1>4, <1>6, RxSizes
<1> QED BY <1>5, <1>6

LEMMA RxLenHolds ==
    ASSUME NEW f, RxType(f)
    PROVE  /\ RxHolds(f, RxLen(f)) /\ RxLen(f) \in 0..RxSize
           /\ RxLen(f) = RxSize <=> f.put = f.get /\ f.full
<1> DEFINE p == f.put
           g == f.get
           n == RxLen(f)
<1>1. p \in 0..RxSize - 1 /\ g \in 0..RxSize - 1
  BY DEF RxType
<1>2. n = IF p = g THEN (IF f.full THEN RxSize ELSE 0)
          ELSE IF p > g THEN p - g ELSE RxSize - (g - p)
  BY DEF RxLen
<1> HIDE DEF p, g, n
<1>3. CASE p = g
  <2>1. n \in {0, RxSize} /\ n \in 0..RxSize /\ (n = RxSize <=> f.full) /\ (n = 0 <=> ~f.full)
    BY <1>2, <1>3, RxSizes
  <2>2. p = (g + n) % RxSize
    BY ONLY <1>1, <1>3, <2>1, RxSizes
  <2> QED BY <1>3, <2>1, <2>2 DEF p, g, n, RxHolds
<1>4. CASE p # g
  <2>1. n \in 1..RxSize - 1 /\ n \in 0..RxSize /\ n # 0 /\ n # RxSize
    BY ONLY <1>1, <1>2, <1>4, RxSizes
  <2>2. p = (g + n) % RxSize
    BY ONLY <1>1, <1>2, <1>4, RxSizes
  <2> QED BY <1>4, <2>1, <2>2 DEF p, g, n, RxHolds
<1> QED BY <1>3, <1>4

LEMMA RxAllAre ==
    ASSUME NEW f, RxType(f)
    PROVE  /\ RxAll(f) \in Seq(RxByte) /\ Len(RxAll(f)) = RxLen(f)
           /\ IsBuffer(f.buf, RxSize, RxByte)
<1> DEFINE n == RxLen(f)
           from == f.get
           buf == f.buf
<1>1. n \in Nat
  BY RxLenHolds, RxSizes
<1>2. from \in Int /\ IsBuffer(buf, RxSize, RxByte)
  BY RxSizes DEF RxType, IsBuffer
<1> HIDE DEF n, from, buf
<1>3. LET w == RingBytes(buf, RxSize, from, n) IN w \in Seq(RxByte) /\ Len(w) = n
  BY <1>1, <1>2, RingBytesAre, RxSizes
<1> QED BY <1>2, <1>3 DEF n, from, buf, RxAll

LEMMA RxIntSteps ==
    /\ RxIntRing!Force <=>
         /\ fifo'.call.op = "force"
         /\ RxAll(fifo') = Newest(RxAll(fifo) \o fifo'.call.bytes, RxSize - 1)
    /\ RxIntRing!Take <=>
         /\ fifo'.call.op = "take"
         /\ fifo'.call.bytes = Oldest(RxAll(fifo), fifo'.call.length)
         /\ RxAll(fifo) = fifo'.call.bytes \o RxAll(fifo')
BY DEF RxIntRing!Force, RxIntRing!Take, RxIntRing!Oldest, RxIntRing!Newest,
   RxIntRing!Shorter, Oldest, Newest, Shorter, RxContent, RxBytes, RxAll

LEMMA RxDmaSteps ==
    /\ RxDmaRing!Force <=>
         /\ fifo'.call.op = "force"
         /\ RxAll(fifo') = Newest(RxAll(fifo) \o fifo'.call.bytes, RxSize)
    /\ RxDmaRing!Take <=>
         /\ fifo'.call.op = "take"
         /\ fifo'.call.bytes = Oldest(RxAll(fifo), fifo'.call.length)
         /\ RxAll(fifo) = fifo'.call.bytes \o RxAll(fifo')
BY DEF RxDmaRing!Force, RxDmaRing!Take, RxDmaRing!Oldest, RxDmaRing!Newest,
   RxDmaRing!Shorter, Oldest, Newest, Shorter, RxContent, RxBytes, RxAll

\* What is received comes behind what is there, and the last c bytes stay.
LEMMA RxReceives ==
    ASSUME NEW f, RxType(f), NEW q, RxType(q), NEW bytes \in Seq(RxByte),
           Len(bytes) <= RxSize, NEW c \in 0..RxSize, c <= RxLen(f) + Len(bytes),
           q.buf = RxStored(f, bytes), q.put = (f.put + Len(bytes)) % RxSize,
           q.get = (f.get + (RxLen(f) + Len(bytes) - c)) % RxSize,
           c = 0 => ~q.full, c = RxSize => q.full
    PROVE  RxLen(q) = c /\ RxAll(q) = Newest(RxAll(f) \o bytes, c)
<1> DEFINE n == RxLen(f)
           L == Len(bytes)
           g == f.get
           p == f.put
           start == q.get
           buf == f.buf
<1>1. /\ n \in 0..RxSize /\ p = (g + n) % RxSize /\ g \in 0..RxSize - 1
      /\ p \in 0..RxSize - 1 /\ start \in 0..RxSize - 1 /\ L \in Nat
  <2>1. RxHolds(f, n) /\ n \in 0..RxSize
    BY RxLenHolds
  <2> QED BY <2>1 DEF RxHolds, RxType
<1>2. q.put = (q.get + c) % RxSize
  <2> DEFINE x == g + (n + L - c)
             y == g + n
  <2>1. x \in Int /\ y \in Int /\ c \in Int /\ L \in Int /\ x + c = y + L
    <3>1. g \in Int /\ n \in Int /\ L \in Int /\ c \in Int
      BY <1>1
    <3> HIDE DEF g, n, L
    <3> QED BY ONLY <3>1
  <2>2. q.get = x % RxSize /\ q.put = ((y % RxSize) + L) % RxSize
    BY <1>1
  <2> HIDE DEF x, y, L
  <2>3. ((x % RxSize) + c) % RxSize = (x + c) % RxSize
    BY ONLY Zenon, <2>1, RingDifference, RxSizes
  <2>4. ((y % RxSize) + L) % RxSize = (y + L) % RxSize
    BY ONLY Zenon, <2>1, RingDifference, RxSizes
  <2> QED BY ONLY <2>1, <2>2, <2>3, <2>4
<1>3. RxLen(q) = c
  BY <1>2, RxLenIs DEF RxHolds
<1>4. IsBuffer(buf, RxSize, RxByte)
  BY RxAllAre
<1>5. RxAll(q) = RingBytes(RingStored(buf, RxSize, p, bytes), RxSize, start, c)
  BY <1>3 DEF RxAll, RxStored
<1>6. RxAll(f) = RingBytes(buf, RxSize, g, n)
  BY DEF RxAll
<1>7. start = (g + (n + Len(bytes) - c)) % RxSize /\ c <= n + Len(bytes)
  OBVIOUS
<1> HIDE DEF n, g, p, start, buf, L
<1>8. RingBytes(RingStored(buf, RxSize, p, bytes), RxSize, start, c)
        = Newest(RingBytes(buf, RxSize, g, n) \o bytes, c)
  BY ONLY <1>1, <1>4, <1>7, bytes \in Seq(RxByte), Len(bytes) <= RxSize, c \in 0..RxSize,
     RingAfterStore, RxSizes
<1> QED BY <1>3, <1>5, <1>6, <1>8

\* q is f after m bytes have been read, of length that were asked for
RxReads(f, q, length, m) ==
    /\ RxType(f) /\ RxType(q) /\ m = Shorter(length, RxLen(f))
    /\ q.put = f.put /\ q.buf = f.buf /\ q.get = (f.get + m) % RxSize
    /\ RxLen(f) - m = 0 => ~q.full
    /\ RxLen(f) - m = RxSize => q.full

\* What is read is what has been there for longest.
LEMMA RxTakes ==
    ASSUME NEW f, NEW q, NEW length \in Nat, NEW m, RxReads(f, q, length, m)
    PROVE  /\ RxLen(q) = RxLen(f) - m
           /\ RxBytes(f, m) \in Seq(RxByte)
           /\ RxBytes(f, m) = Oldest(RxAll(f), length)
           /\ RxAll(f) = RxBytes(f, m) \o RxAll(q)
<1> DEFINE n == RxLen(f)
           g == f.get
           p == f.put
           start == q.get
           k == n - m
           buf == f.buf
<1>0. RxType(f) /\ RxType(q)
  BY DEF RxReads
<1>1. /\ n \in 0..RxSize /\ p = (g + n) % RxSize /\ g \in 0..RxSize - 1
      /\ start = (g + m) % RxSize
  <2>1. RxHolds(f, n) /\ n \in 0..RxSize
    BY <1>0, RxLenHolds
  <2> QED BY <1>0, <2>1 DEF RxHolds, RxType, RxReads
<1> HIDE DEF n
<1>2. m = Shorter(length, n) /\ m \in 0..n /\ k \in 0..RxSize /\ m \in Nat
  <2>1. m = Shorter(length, n)
    BY DEF n, RxReads
  <2>2. m \in 0..n
    BY <1>1, <2>1, RxSizes DEF Shorter
  <2> QED BY <1>1, <2>1, <2>2, RxSizes
<1>3. q.put = (q.get + k) % RxSize
  <2> DEFINE x == g + m
  <2>1. x \in Int /\ k \in Int /\ x + k = g + n
    BY <1>1, <1>2, RxSizes
  <2>2. q.get = x % RxSize /\ q.put = (g + n) % RxSize
    BY <1>1 DEF RxReads
  <2> HIDE DEF x, k
  <2>3. ((x % RxSize) + k) % RxSize = (x + k) % RxSize
    BY ONLY Zenon, <2>1, RingDifference, RxSizes
  <2> QED BY ONLY <2>1, <2>2, <2>3
<1>4. RxLen(q) = k
  <2>1. RxHolds(q, k)
    BY <1>2, <1>3 DEF RxHolds, n, RxReads
  <2> QED BY <1>0, <2>1, RxLenIs
<1>5. IsBuffer(buf, RxSize, RxByte)
  BY <1>0, RxAllAre
<1>6. /\ RxAll(q) = RingBytes(buf, RxSize, start, k)
      /\ RxAll(f) = RingBytes(buf, RxSize, g, n)
      /\ RxBytes(f, m) = RingBytes(buf, RxSize, g, m)
  BY <1>4 DEF RxAll, RxBytes, n, RxReads
<1>7. SplitAt(RxSize, length, g, n, m, start, k)
  BY <1>1, <1>2 DEF SplitAt
<1> HIDE DEF g, p, start, buf, k
<1>8. /\ RingBytes(buf, RxSize, g, m) = Oldest(RingBytes(buf, RxSize, g, n), length)
      /\ RingBytes(buf, RxSize, g, n)
           = RingBytes(buf, RxSize, g, m) \o RingBytes(buf, RxSize, start, k)
  BY ONLY <1>5, <1>7, length \in Nat, RingSplit, RxSizes
<1>9. RingBytes(buf, RxSize, g, m) \in Seq(RxByte)
  <2>1. g \in Int
    BY <1>1
  <2> QED BY ONLY <1>2, <1>5, <2>1, RingBytesAre, RxSizes
<1> QED BY Zenon, <1>4, <1>6, <1>8, <1>9 DEF k, n

LEMMA RxIndicationStep ==
    ASSUME RxGood(fifo), NEW byte \in RxByte, RxIndication(byte)
    PROVE  RxGood(fifo') /\ fifo.mode = "int" /\ RxIntRing!Force
<1> DEFINE bytes == <<byte>>
           n == RxLen(fifo)
           p == fifo.put
           g == fifo.get
           put == (p + 1) % RxSize
           over == put = g
           get == IF over THEN (g + 1) % RxSize ELSE g
           c == IF over THEN RxSize - 1 ELSE n + 1
           old == RxAll(fifo)
<1>1. /\ RxType(fifo) /\ fifo.mode = "int" /\ fifo.full \in BOOLEAN
      /\ p \in 0..RxSize - 1 /\ g \in 0..RxSize - 1
  BY DEF RxGood, RxType, RxIndication
<1>2. n \in 0..RxSize - 1 /\ p = (g + n) % RxSize /\ n \in 0..RxSize
  <2>1. n \in 0..RxSize /\ n # RxSize /\ RxHolds(fifo, n)
    BY <1>1, RxLenHolds DEF RxGood
  <2>2. p = (g + n) % RxSize
    BY <2>1 DEF RxHolds
  <2> HIDE DEF n
  <2> QED BY <2>1, <2>2, RxSizes
<1>3. bytes \in Seq(RxByte) /\ Len(bytes) = 1
  OBVIOUS
<1>4. fifo' = [fifo EXCEPT !.buf = RxStored(fifo, bytes), !.put = put, !.get = get,
                           !.full = fifo.full \/ over, !.call = Gives("force", bytes)]
  BY DEF RxIndication
<1>5. IsBuffer(RxStored(fifo, bytes), RxSize, RxByte)
  <2>1. IsBuffer(fifo.buf, RxSize, RxByte) /\ p \in Int
    BY <1>1, RxAllAre
  <2> HIDE DEF bytes
  <2> QED BY <1>3, <2>1, RingStoredType, RxSizes DEF RxStored
<1> HIDE DEF bytes
<1>6. /\ Gives("force", bytes) \in RingCalls(RxByte)
      /\ Gives("force", bytes).op = "force" /\ Gives("force", bytes).bytes = bytes
  BY <1>3, GivesType DEF CallKind
<1> HIDE DEF n, p, g
<1>7. put \in 0..RxSize - 1 /\ get \in 0..RxSize - 1 /\ put # get
  BY <1>1, RxSizes
<1>8. /\ over <=> n = RxSize - 1
      /\ get = (g + (n + 1 - c)) % RxSize
      /\ c \in 0..RxSize /\ c # 0 /\ c # RxSize /\ c <= n + 1
  <2>1. CASE n = RxSize - 1
    <3>1. put = g
      BY <1>1, <1>2, <2>1, RxSizes
    <3>2. n + 1 - c = 1
      BY <1>2, <2>1, <3>1, RxSizes
    <3> HIDE DEF put
    <3> QED BY <1>1, <1>2, <2>1, <3>1, <3>2, RxSizes
  <2>2. CASE n < RxSize - 1
    <3>1. put # g
      BY <1>1, <1>2, <2>2, RxSizes
    <3>2. n + 1 - c = 0
      BY <1>2, <2>2, <3>1, RxSizes
    <3> HIDE DEF put
    <3> QED BY <1>1, <1>2, <2>2, <3>1, <3>2, RxSizes
  <2> QED BY <1>2, <2>1, <2>2, RxSizes
<1>9. /\ RxType(fifo') /\ fifo'.put = put /\ fifo'.get = get /\ fifo'.mode = "int"
      /\ fifo'.buf = RxStored(fifo, bytes) /\ fifo'.call = Gives("force", bytes)
  <2> HIDE DEF put, get, over
  <2> QED BY Zenon, <1>1, <1>4, <1>5, <1>6, <1>7 DEF RxType, IsBuffer
<1>10. RxGood(fifo')
  BY <1>7, <1>9 DEF RxGood
<1>11. RxAll(fifo') = Newest(old \o bytes, c)
  <2>1. /\ fifo'.put = (fifo.put + Len(bytes)) % RxSize
        /\ fifo'.get = (fifo.get + (RxLen(fifo) + Len(bytes) - c)) % RxSize
        /\ c <= RxLen(fifo) + Len(bytes) /\ Len(bytes) <= RxSize
    BY <1>3, <1>8, <1>9, RxSizes DEF n, p, g
  <2> HIDE DEF c
  <2> QED BY Zenon, <1>1, <1>3, <1>8, <1>9, <2>1, RxReceives
<1>12. Newest(old \o bytes, c) = Newest(old \o bytes, RxSize - 1)
  <2>1. CASE over
    BY <2>1
  <2>2. CASE ~over
    <3>1. old \in Seq(RxByte) /\ Len(old) = n
      BY <1>1, RxAllAre DEF n
    <3> DEFINE all == old \o bytes
    <3>2. all \in Seq(RxByte) /\ Len(all) = n + 1
      <4> HIDE DEF old
      <4>1. all \in Seq(RxByte) /\ Len(all) = Len(old) + Len(bytes)
        BY ONLY Zenon, <1>3, <3>1, ConcatElements
      <4> QED BY ONLY <1>3, <3>1, <4>1
    <3>3. c = n + 1 /\ n + 1 <= RxSize - 1 /\ RxSize - 1 \in Nat
      BY <1>2, <1>8, <2>2, RxSizes
    <3> HIDE DEF all, c
    <3>4. Newest(all, RxSize - 1) = all /\ Newest(all, Len(all)) = all
      BY <3>2, <3>3, NewestOfFew
    <3> QED BY Zenon, <3>2, <3>3, <3>4 DEF all
  <2> QED BY <2>1, <2>2
<1> QED BY <1>1, <1>6, <1>9, <1>10, <1>11, <1>12, RxIntSteps

LEMMA RxIntReadStep ==
    ASSUME RxGood(fifo), RxIntRead
    PROVE  RxGood(fifo') /\ fifo.mode = "int" /\ RxIntRing!Take
<1> DEFINE n == RxLen(fifo)
           get == (fifo.get + 1) % RxSize
           taken == RxBytes(fifo, 1)
           call == RingCall("take", 1, taken)
<1>1. RxType(fifo) /\ fifo.mode = "int" /\ n > 0 /\ get \in 0..RxSize - 1
  BY RxSizes DEF RxGood, RxType, RxIntRead
<1>2. n \in 0..RxSize /\ n # RxSize
  BY <1>1, RxLenHolds DEF RxGood
<1>3. fifo' = [fifo EXCEPT !.get = get, !.full = FALSE, !.call = call]
  BY DEF RxIntRead
<1>4. taken \in Seq(RxByte)
  <2>1. IsBuffer(fifo.buf, RxSize, RxByte) /\ fifo.get \in Int
    BY <1>1, RxAllAre DEF RxType
  <2> QED BY Zenon, <2>1, RingBytesAre, RxSizes DEF RxBytes
<1> HIDE DEF taken
<1>5. /\ call \in RingCalls(RxByte) /\ call.op = "take" /\ call.length = 1
      /\ call.bytes = taken
  BY <1>4 DEF RingCall, RingCalls, CallKind
<1> HIDE DEF call, get, n
<1>6. /\ RxType(fifo') /\ fifo'.put = fifo.put /\ fifo'.get = get /\ fifo'.full = FALSE
      /\ fifo'.mode = "int" /\ fifo'.buf = fifo.buf /\ fifo'.call = call
  BY Zenon, <1>1, <1>3, <1>5 DEF RxType
<1>7. RxGood(fifo')
  BY <1>6 DEF RxGood
<1>8. 1 = Shorter(1, n) /\ n - 1 # RxSize
  BY <1>1, <1>2, RxSizes DEF Shorter
<1>9. RxReads(fifo, fifo', 1, 1)
  BY <1>1, <1>6, <1>8 DEF n, get, RxReads
<1>10. taken = Oldest(RxAll(fifo), 1) /\ RxAll(fifo) = taken \o RxAll(fifo')
  <2> DEFINE one == 1
  <2>1. one \in Nat /\ RxReads(fifo, fifo', one, one)
    BY <1>9
  <2> HIDE DEF one
  <2>2. /\ RxBytes(fifo, one) = Oldest(RxAll(fifo), one)
        /\ RxAll(fifo) = RxBytes(fifo, one) \o RxAll(fifo')
    BY ONLY <2>1, RxTakes
  <2> QED BY <2>2 DEF one, taken
<1> QED BY Zenon, <1>1, <1>5, <1>6, <1>7, <1>10, RxIntSteps

LEMMA RxDmaReadStep ==
    ASSUME RxGood(fifo), NEW length \in Nat, RxDmaRead(length)
    PROVE  RxGood(fifo') /\ fifo.mode = "dma" /\ RxDmaRing!Take
<1> DEFINE n == RxLen(fifo)
           m == Shorter(length, n)
           get == (fifo.get + m) % RxSize
           full == fifo.full /\ m = 0
           taken == RxBytes(fifo, m)
           call == RingCall("take", length, taken)
<1>1. /\ RxType(fifo) /\ fifo.mode = "dma" /\ fifo.get \in 0..RxSize - 1
      /\ fifo.full \in BOOLEAN
  BY DEF RxGood, RxType, RxDmaRead
<1>2. n \in 0..RxSize /\ (n = RxSize <=> fifo.full) /\ (fifo.full => fifo.put = fifo.get)
  BY <1>1, RxLenHolds DEF RxGood
<1>3. fifo' = [fifo EXCEPT !.get = get, !.full = full, !.call = call]
  BY DEF RxDmaRead
<1> HIDE DEF n
<1>4. m \in 0..n /\ m \in Nat
  BY <1>2, RxSizes DEF Shorter
<1> HIDE DEF m
<1>5. get \in 0..RxSize - 1 /\ (m = 0 => get = fifo.get) /\ full \in BOOLEAN
  BY <1>1, <1>4, RxSizes
<1>6. taken \in Seq(RxByte)
  <2>1. IsBuffer(fifo.buf, RxSize, RxByte) /\ fifo.get \in Int
    BY <1>1, RxAllAre
  <2> QED BY <1>4, <2>1, RingBytesAre, RxSizes DEF RxBytes
<1> HIDE DEF taken
<1>7. /\ call \in RingCalls(RxByte) /\ call.op = "take" /\ call.length = length
      /\ call.bytes = taken
  BY <1>6 DEF RingCall, RingCalls, CallKind
<1>8. full <=> n - m = RxSize
  BY <1>2, <1>4, RxSizes
<1> HIDE DEF call, get, full
<1>9. /\ RxType(fifo') /\ fifo'.put = fifo.put /\ fifo'.get = get /\ fifo'.full = full
      /\ fifo'.mode = "dma" /\ fifo'.buf = fifo.buf /\ fifo'.call = call
  BY Zenon, <1>1, <1>3, <1>5, <1>7 DEF RxType
<1>10. RxGood(fifo')
  <2>1. full => fifo'.put = fifo'.get
    BY <1>2, <1>5, <1>9 DEF full
  <2> QED BY <1>9, <2>1 DEF RxGood
<1>11. RxReads(fifo, fifo', length, m)
  <2>1. n - m = 0 => ~full
    BY <1>8, RxSizes
  <2>2. m = Shorter(length, RxLen(fifo)) /\ fifo'.get = (fifo.get + m) % RxSize
    BY <1>9 DEF m, n, get
  <2> QED BY <1>1, <1>8, <1>9, <2>1, <2>2 DEF n, RxReads
<1>12. taken = Oldest(RxAll(fifo), length) /\ RxAll(fifo) = taken \o RxAll(fifo')
  BY SMTT(30), <1>11, RxTakes DEF taken
<1> QED BY Zenon, <1>1, <1>7, <1>9, <1>10, <1>12, RxDmaSteps

\* The flag is set exactly when the bytes reach the oldest one.
LEMMA OvertakesIs ==
    ASSUME NEW f, RxGood(f), f.mode = "dma", NEW L \in 1..RxSize
    PROVE  f.full \/ Overtakes(f, L) <=> RxLen(f) + L >= RxSize
<1> DEFINE p == f.put
           g == f.get
           n == RxLen(f)
<1>1. p \in 0..RxSize - 1 /\ g \in 0..RxSize - 1 /\ f.full \in BOOLEAN /\ RxType(f)
      /\ (f.full => p = g)
  BY DEF RxGood, RxType
<1>2. n = IF p = g THEN (IF f.full THEN RxSize ELSE 0)
          ELSE IF p > g THEN p - g ELSE RxSize - (g - p)
  BY DEF RxLen
<1>3. Overtakes(f, L) <=> IF g <= p THEN p + L >= RxSize /\ (p + L) % RxSize >= g
                          ELSE p + L >= g
  BY DEF Overtakes
<1>4. p + L >= RxSize => (p + L) % RxSize = p + L - RxSize
  <2> HIDE DEF p
  <2> QED BY <1>1, RxSizes
<1> DEFINE x == (p + L) % RxSize
           over == Overtakes(f, L)
           full == f.full
<1> HIDE DEF p, g, n, x, over, full
<1>5. over <=> IF g <= p THEN p + L >= RxSize /\ p + L - RxSize >= g ELSE p + L >= g
  BY <1>1, <1>3, <1>4 DEF x, over
<1>6. full \/ over <=> n + L >= RxSize
  <2>1. CASE full
    <3>1. n = RxSize
      BY <1>1, <1>2, <2>1 DEF full
    <3> QED BY <2>1, <3>1, RxSizes
  <2>2. CASE ~full
    <3>1. n = IF p >= g THEN p - g ELSE RxSize - (g - p)
      BY <1>1, <1>2, <2>2, RxSizes DEF full
    <3> QED BY <1>1, <1>5, <2>2, <3>1, RxSizes
  <2> QED BY <2>1, <2>2
<1> QED BY <1>6 DEF full, over, n

\* What is already there may be stored again.
LEMMA RingRewritten ==
    ASSUME NEW S \in Nat \ {0}, NEW B, NEW buf, IsBuffer(buf, S, B), NEW at \in 0..S - 1,
           NEW n \in 0..S
    PROVE  RingStored(buf, S, at, RingBytes(buf, S, at, n)) = buf
<1> DEFINE bytes == RingBytes(buf, S, at, n)
           new == RingStored(buf, S, at, bytes)
<1>1. Len(bytes) = n /\ \A i \in 1..n : bytes[i] = buf[(at + i - 1) % S]
  BY RingBytesAre
<1>2. ASSUME NEW i \in 0..S - 1
      PROVE  LET k == (i - at) % S IN (IF k < Len(bytes) THEN bytes[k + 1] ELSE buf[i]) = buf[i]
  <2> DEFINE k == (i - at) % S
  <2>1. k \in 0..S - 1 /\ (k + at) % S = i
    <3> DEFINE x == i - at
    <3>1. x \in Int /\ at \in Int /\ x + at = i
      OBVIOUS
    <3>2. k = x % S /\ k \in 0..S - 1
      OBVIOUS
    <3> HIDE DEF x, k
    <3>3. ((x % S) + at) % S = (x + at) % S
      BY ONLY Zenon, <3>1, RingDifference, S \in Nat \ {0}
    <3> QED BY ONLY <3>1, <3>2, <3>3, S \in Nat \ {0}, i \in 0..S - 1
  <2> HIDE DEF k
  <2>2. CASE k < Len(bytes)
    <3> DEFINE j == k + 1
    <3>1. j \in 1..n /\ at + j - 1 = k + at
      BY <1>1, <2>1, <2>2
    <3> HIDE DEF j, bytes
    <3>2. bytes[j] = buf[i]
      BY <1>1, <2>1, <3>1
    <3> QED BY <2>2, <3>2 DEF j, k
  <2> QED BY <2>2 DEF k
<1>3. new = [i \in 0..S - 1 |-> buf[i]]
  <2> HIDE DEF bytes
  <2> QED BY Zenon, <1>2 DEF RingStored
<1> QED BY <1>3 DEF IsBuffer

LEMMA RxDmaDoneStep ==
    ASSUME RxGood(fifo), NEW L \in 1..RxSize, RxDmaDone(L)
    PROVE  RxGood(fifo') /\ fifo.mode = "dma" /\ RxDmaRing!Force
<1> DEFINE n == RxLen(fifo)
           p == fifo.put
           g == fifo.get
           d == fifo.dma
           bytes == RingBytes(fifo.buf, RxSize, fifo.put, L)
           put == (p + L) % RxSize
           full == fifo.full \/ Overtakes(fifo, L)
           get == IF full THEN put ELSE g
           c == IF full THEN RxSize ELSE n + L
           old == RxAll(fifo)
<1>1. /\ RxType(fifo) /\ fifo.mode = "dma" /\ p \in 0..RxSize - 1 /\ g \in 0..RxSize - 1
      /\ d \in 0..RxSize /\ L <= d
  BY DEF RxGood, RxType, RxDmaDone
<1>2. n \in 0..RxSize /\ p = (g + n) % RxSize
  <2>1. n \in 0..RxSize /\ RxHolds(fifo, n)
    BY <1>1, RxLenHolds
  <2> QED BY <2>1 DEF RxHolds
<1>3. bytes \in Seq(RxByte) /\ Len(bytes) = L /\ L \in Nat
  <2>1. IsBuffer(fifo.buf, RxSize, RxByte) /\ fifo.put \in Int /\ L \in Nat
    BY <1>1, RxAllAre, RxSizes
  <2> QED BY <2>1, RingBytesAre, RxSizes
<1>4. fifo' = [fifo EXCEPT !.put = put, !.full = full, !.get = get, !.dma = d - L,
                           !.call = Gives("force", bytes)]
  BY DEF RxDmaDone
<1>5. RxStored(fifo, bytes) = fifo.buf
  <2>1. IsBuffer(fifo.buf, RxSize, RxByte) /\ fifo.put \in 0..RxSize - 1 /\ L \in 0..RxSize
    BY <1>1, <1>3, RxAllAre, RxSizes
  <2> QED BY <2>1, RingRewritten, RxSizes DEF RxStored
<1> HIDE DEF bytes
<1>6. /\ Gives("force", bytes) \in RingCalls(RxByte)
      /\ Gives("force", bytes).op = "force" /\ Gives("force", bytes).bytes = bytes
  BY <1>3, GivesType DEF CallKind
<1>7. full <=> n + L >= RxSize
  BY <1>1, <1>3, OvertakesIs
<1>8. full \in BOOLEAN
  BY <1>1 DEF RxType, Overtakes
<1> HIDE DEF n, p, g, full, d
<1>9. put \in 0..RxSize - 1 /\ get \in 0..RxSize - 1 /\ d - L \in 0..RxSize
  BY <1>1, <1>3, RxSizes
<1>10. /\ get = (g + (n + L - c)) % RxSize
       /\ c \in 0..RxSize /\ c # 0 /\ (c = RxSize <=> full) /\ c <= n + L
  <2>1. CASE full
    <3>1. c = RxSize /\ get = put
      BY <2>1
    <3> DEFINE x == g + n
               y == g + (n + L - RxSize)
    <3>2. x \in Int /\ y \in Int /\ L \in Int /\ RxSize \in Int /\ x + L = y + RxSize
      BY <1>1, <1>2, <1>3, RxSizes
    <3>3. put = ((x % RxSize) + L) % RxSize
      BY <1>2, <1>3
    <3> HIDE DEF x, put
    <3>4. ((x % RxSize) + L) % RxSize = (x + L) % RxSize
      BY ONLY Zenon, <3>2, RingDifference, RxSizes
    <3> HIDE DEF y
    <3>5. (y + RxSize) % RxSize = y % RxSize
      <4>1. ((y % RxSize) + RxSize) % RxSize = (y + RxSize) % RxSize
        BY ONLY Zenon, <3>2, RingDifference, RxSizes
      <4> DEFINE z == y % RxSize
      <4>2. z \in 0..RxSize - 1
        BY ONLY <3>2, RxSizes
      <4> HIDE DEF z
      <4>3. (z + RxSize) % RxSize = z
        BY ONLY <4>2, RxSizes
      <4> QED BY ONLY <4>1, <4>3 DEF z
    <3>6. get = y % RxSize
      BY ONLY <3>1, <3>2, <3>3, <3>4, <3>5
    <3>7. c \in 0..RxSize /\ c # 0 /\ c <= n + L
      BY <1>7, <2>1, <3>1, RxSizes
    <3> QED BY <2>1, <3>1, <3>6, <3>7 DEF y
  <2>2. CASE ~full
    <3>1. c = n + L /\ get = g
      BY <1>3, <2>2
    <3>2. n + L - c = 0 /\ c \in 0..RxSize /\ c # 0 /\ c # RxSize
      <4>1. n + L < RxSize
        BY <1>2, <1>3, <1>7, <2>2, RxSizes
      <4> HIDE DEF c
      <4> QED BY <1>2, <3>1, <4>1, RxSizes
    <3>3. g = (g + 0) % RxSize
      BY <1>1, RxSizes
    <3> QED BY <1>2, <1>3, <2>2, <3>1, <3>2, <3>3, RxSizes
  <2> QED BY <2>1, <2>2
<1>11. /\ RxType(fifo') /\ fifo'.put = put /\ fifo'.get = get /\ fifo'.mode = "dma"
       /\ fifo'.full = full
       /\ fifo'.buf = RxStored(fifo, bytes) /\ fifo'.call = Gives("force", bytes)
  <2> HIDE DEF put, get
  <2> QED BY Zenon, <1>1, <1>4, <1>5, <1>6, <1>8, <1>9 DEF RxType
<1>12. RxGood(fifo')
  BY <1>11 DEF RxGood
<1>13. RxAll(fifo') = Newest(old \o bytes, c)
  <2>1. /\ fifo'.put = (fifo.put + Len(bytes)) % RxSize
        /\ fifo'.get = (fifo.get + (RxLen(fifo) + Len(bytes) - c)) % RxSize
        /\ c <= RxLen(fifo) + Len(bytes) /\ Len(bytes) <= RxSize
    BY <1>3, <1>10, <1>11, RxSizes DEF n, p, g
  <2>2. c = 0 => ~fifo'.full
    BY <1>10
  <2>3. c = RxSize => fifo'.full
    BY <1>10, <1>11
  <2> HIDE DEF c
  <2> QED BY Zenon, <1>1, <1>3, <1>10, <1>11, <2>1, <2>2, <2>3, RxReceives
<1>14. Newest(old \o bytes, c) = Newest(old \o bytes, RxSize)
  <2>1. CASE full
    BY <2>1
  <2>2. CASE ~full
    <3>1. old \in Seq(RxByte) /\ Len(old) = n
      BY <1>1, RxAllAre DEF n
    <3> DEFINE all == old \o bytes
    <3>2. all \in Seq(RxByte) /\ Len(all) = n + L
      <4> HIDE DEF old
      <4>1. all \in Seq(RxByte) /\ Len(all) = Len(old) + Len(bytes)
        BY ONLY Zenon, <1>3, <3>1, ConcatElements
      <4> QED BY ONLY <1>3, <3>1, <4>1
    <3>3. c = n + L /\ c <= RxSize /\ RxSize \in Nat
      BY <1>10, <2>2, RxSizes
    <3> HIDE DEF all, c
    <3>4. Newest(all, RxSize) = all /\ Newest(all, Len(all)) = all
      BY <3>2, <3>3, NewestOfFew
    <3> QED BY <3>2, <3>3, <3>4 DEF all
  <2> QED BY <2>1, <2>2
<1> QED BY <1>1, <1>6, <1>11, <1>12, <1>13, <1>14, RxDmaSteps

\* What the controller writes next is behind what is there, or is the oldest byte
\* that it has left.
LEMMA RxWritesAt ==
    ASSUME NEW g \in 0..RxSize - 1, NEW n \in 0..RxSize, NEW d \in 0..RxSize - 1,
           NEW j \in 1..n
    PROVE  (g + j - 1) % RxSize = (g + n + d) % RxSize <=> j = n + d + 1 - RxSize
<1> DEFINE x == j - 1
           y == n + d
           e == y - x
           a == (g + x) % RxSize
           b == (g + y) % RxSize
<1>1. /\ x \in Int /\ y \in Int /\ g \in Int /\ e \in 1..RxSize + RxSize - 1
      /\ g + j - 1 = g + x /\ g + n + d = g + y
      /\ (j = n + d + 1 - RxSize <=> e = RxSize)
      /\ (e = RxSize => g + y = (g + x) + RxSize) /\ g + x \in Int
  BY RxSizes
<1>2. a \in Int /\ b \in Int
  BY <1>1, RxSizes
<1> HIDE DEF x, y
<1>3. (b - a) % RxSize = e % RxSize
  <2>1. RxSize \in Nat \ {0} /\ g \in Int /\ x \in Int /\ y \in Int
    BY ONLY <1>1, RxSizes
  <2>2. (((g + y) % RxSize) - ((g + x) % RxSize)) % RxSize = (y - x) % RxSize
    BY ONLY ZenonT(60), <2>1, RingDistance
  <2> QED BY ONLY <2>2
<1> HIDE DEF e
<1>4. a = b => e = RxSize
  <2> HIDE DEF a, b
  <2>1. a = b => e % RxSize = 0
    BY ONLY <1>2, <1>3, RxSizes
  <2> QED BY ONLY <1>1, <2>1, RxSizes
<1>5. e = RxSize => a = b
  <2> DEFINE z == g + x
  <2>1. z \in Int
    BY <1>1
  <2>0. RxSize \in Int
    BY RxSizes
  <2> HIDE DEF z
  <2>2. (z + RxSize) % RxSize = z % RxSize
    <3>1. ((z % RxSize) + RxSize) % RxSize = (z + RxSize) % RxSize
      BY ONLY Zenon, <2>1, RxSizes, RingDifference, <2>0
    <3> DEFINE t == z % RxSize
    <3>2. t \in 0..RxSize - 1
      BY ONLY <2>1, RxSizes
    <3> HIDE DEF t
    <3>3. (t + RxSize) % RxSize = t
      BY ONLY <3>2, RxSizes
    <3> QED BY ONLY <3>1, <3>3 DEF t
  <2> QED BY ONLY <1>1, <2>2 DEF z, a, b
<1> QED BY <1>1, <1>4, <1>5 DEF a, b

LEMMA RxWriteStep ==
    ASSUME RxGood(fifo), NEW byte \in RxByte, RxDmaWrites(byte)
    PROVE  RxGood(fifo') /\ fifo.mode = "dma" /\ RxInPlace
<1> DEFINE n == RxLen(fifo)
           p == fifo.put
           g == fifo.get
           d == fifo.dma
           buf == fifo.buf
           at == (p + d) % RxSize
           lost == n + d + 1 - RxSize
           old == RxContent
           new == RxContent'
<1>1. /\ RxType(fifo) /\ fifo.mode = "dma" /\ p \in 0..RxSize - 1 /\ g \in 0..RxSize - 1
      /\ d \in 0..RxSize - 1 /\ IsBuffer(buf, RxSize, RxByte)
  BY RxSizes DEF RxGood, RxType, RxDmaWrites, IsBuffer
<1>2. n \in 0..RxSize /\ p = (g + n) % RxSize
  <2>1. n \in 0..RxSize /\ RxHolds(fifo, n)
    BY <1>1, RxLenHolds
  <2> QED BY <2>1 DEF RxHolds
<1>3. fifo' = [fifo EXCEPT !.buf = [buf EXCEPT ![at] = byte], !.dma = d + 1]
  BY DEF RxDmaWrites
<1>4. RxLen(fifo') = n
  BY <1>1, <1>3 DEF RxLen, RxType
<1>5. old = RingBytes(buf, RxSize, g, n)
  BY DEF RxContent, RxBytes
<1>6. new = RingBytes([buf EXCEPT ![at] = byte], RxSize, g, n)
  <2>1. RxContent' = RingBytes(fifo'.buf, RxSize, fifo'.get, RxLen(fifo'))
    BY DEF RxContent, RxBytes, RxLen
  <2>2. fifo'.buf = [buf EXCEPT ![at] = byte] /\ fifo'.get = g
    BY Zenon, <1>1, <1>3 DEF RxType
  <2> QED BY Zenon, <1>4, <2>1, <2>2
<1>7. RxLost(fifo') = IF lost > 0 THEN lost ELSE 0
  <2>1. RxLost(fifo') = IF n + (d + 1) > RxSize THEN n + (d + 1) - RxSize ELSE 0
    <3>1. fifo'.dma = d + 1
      BY Zenon, <1>1, <1>3 DEF RxType
    <3> QED BY <1>4, <3>1 DEF RxLost
  <2> HIDE DEF n, d
  <2> QED BY <1>1, <1>2, <2>1, RxSizes
<1> HIDE DEF n, p, g, d, buf, old, new
<1>8. at \in 0..RxSize - 1 /\ at = (g + n + d) % RxSize
  <2> DEFINE x == g + n
  <2>1. x \in Int /\ d \in Int /\ p = x % RxSize
    BY <1>1, <1>2, RxSizes
  <2> HIDE DEF x
  <2>2. ((x % RxSize) + d) % RxSize = (x + d) % RxSize
    BY ONLY Zenon, <2>1, RingDifference, RxSizes
  <2>3. at = (x + d) % RxSize
    BY ONLY <2>1, <2>2
  <2> QED BY <2>1, <2>3, RxSizes DEF x
<1>9. \A j \in 1..n : (g + j - 1) % RxSize = at <=> j = lost
  <2>1. \A j \in 1..n : (g + j - 1) % RxSize = (g + n + d) % RxSize <=> j = lost
    BY Zenon, <1>1, <1>2, RxWritesAt
  <2> HIDE DEF at, lost
  <2> QED BY Zenon, <1>8, <2>1
<1>10. \A j \in 1..n : (g + j - 1) % RxSize \in 0..RxSize - 1
  BY <1>1, <1>2, RxSizes
<1> HIDE DEF at, lost
<1>11. /\ old = [j \in 1..n |-> buf[(g + j - 1) % RxSize]]
       /\ new = [j \in 1..n |-> [buf EXCEPT ![at] = byte][(g + j - 1) % RxSize]]
  BY Zenon, <1>5, <1>6 DEF RingBytes
<1>12. new = [old EXCEPT ![lost] = byte]
  <2>1. \A j \in 1..n : [buf EXCEPT ![at] = byte][(g + j - 1) % RxSize]
                         = IF j = lost THEN byte ELSE buf[(g + j - 1) % RxSize]
    BY <1>1, <1>8, <1>9, <1>10 DEF IsBuffer
  <2>2. new = [j \in 1..n |-> IF j = lost THEN byte ELSE old[j]]
    BY Zenon, <1>11, <2>1
  <2> QED BY <1>11, <2>2
<1>13. ~lost > 0 => new = old
  <2>1. ~lost > 0 => lost \notin 1..n
    BY <1>1, <1>2, RxSizes DEF lost
  <2> QED BY <1>11, <1>12, <2>1
<1>14. /\ RxType(fifo') /\ fifo'.put = fifo.put /\ fifo'.get = fifo.get
       /\ fifo'.full = fifo.full /\ fifo'.mode = "dma" /\ fifo'.call = fifo.call
       /\ fifo'.dma = fifo.dma + 1
  <2>1. [buf EXCEPT ![at] = byte] \in [0..RxSize - 1 -> RxByte] /\ d + 1 \in 0..RxSize
    <3>1. [buf EXCEPT ![at] = byte] \in [0..RxSize - 1 -> RxByte]
      BY Zenon, <1>1 DEF IsBuffer
    <3>2. d + 1 \in 0..RxSize
      BY <1>1, RxSizes
    <3> QED BY <3>1, <3>2
  <2>2. /\ fifo'.put = fifo.put /\ fifo'.get = fifo.get /\ fifo'.full = fifo.full
        /\ fifo'.mode = "dma" /\ fifo'.call = fifo.call /\ fifo'.dma = d + 1
        /\ fifo'.buf = [buf EXCEPT ![at] = byte]
    BY Zenon, <1>1, <1>3 DEF RxType
  <2>3. RxType(fifo')
    BY Zenon, <1>1, <1>3, <2>1 DEF RxType
  <2> QED BY <2>2, <2>3 DEF d
<1>15. RxGood(fifo')
  BY <1>1, <1>14 DEF RxGood
<1>16. RxInPlace
  <2>1. RxLost(fifo') = 0 => new = old
    BY <1>7, <1>13
  <2>2. RxLost(fifo') # 0 => new = [old EXCEPT ![RxLost(fifo')] = byte]
    BY <1>7, <1>12
  <2> QED BY Zenon, <1>14, <2>1, <2>2 DEF RxInPlace, old, new
<1> QED BY <1>1, <1>15, <1>16

LEMMA RxInitial ==
    ASSUME RxInit
    PROVE  RxGood(fifo)
<1>1. PICK mode \in RxMode, b \in RxByte :
         fifo = [put |-> 0, get |-> 0, full |-> FALSE, mode |-> mode, dma |-> 0,
                 buf |-> [i \in 0..RxSize - 1 |-> b], call |-> Gives("reset", << >>)]
  BY Zenon DEF RxInit
<1>2. Gives("reset", << >>) \in RingCalls(RxByte)
  BY << >> \in Seq(RxByte), GivesType DEF CallKind
<1>3. RxType(fifo) /\ ~fifo.full
  BY <1>1, <1>2, SerialAssumption, RxSizes DEF RxType
<1> QED BY <1>3 DEF RxGood

LEMMA RxNextSteps ==
    ASSUME RxGood(fifo), [RxNext]_fifo
    PROVE  /\ RxGood(fifo')
           /\ [IF fifo.mode = "int" THEN RxIntRing!Next ELSE RxDmaRing!Next \/ RxInPlace]_fifo
<1>1. ASSUME NEW byte \in RxByte, RxIndication(byte)
      PROVE  RxGood(fifo') /\ fifo.mode = "int" /\ RxIntRing!Force
  BY <1>1, RxIndicationStep
<1>2. CASE RxIntRead
  BY <1>2, RxIntReadStep DEF RxIntRing!Next
<1>3. ASSUME NEW n \in 1..RxSize, RxDmaDone(n)
      PROVE  RxGood(fifo') /\ fifo.mode = "dma" /\ RxDmaRing!Force
  BY <1>3, RxDmaDoneStep
<1>4. ASSUME NEW length \in RxRead, RxDmaRead(length)
      PROVE  RxGood(fifo') /\ fifo.mode = "dma" /\ RxDmaRing!Take
  BY <1>4, RxDmaReadStep, SerialAssumption
<1>5. ASSUME NEW byte \in RxByte, RxDmaWrites(byte)
      PROVE  RxGood(fifo') /\ fifo.mode = "dma" /\ RxInPlace
  BY <1>5, RxWriteStep
<1>6. CASE UNCHANGED fifo
  BY <1>6
<1> QED BY <1>1, <1>2, <1>3, <1>4, <1>5, <1>6 DEF RxNext, RxIntRing!Next, RxDmaRing!Next

\* For any FIFO, bytes and reads, in either mode: what is received is read in
\* order, and what a slow reader loses are the oldest bytes, no more of them than
\* must go (rt_hw_serial_isr, _serial_int_rx, rt_dma_recv_update_put_index,
\* _serial_dma_rx).  The controller writes at any time; it spoils the oldest bytes
\* only, before the interrupt that drops them.
THEOREM ReceptionIsAQueue == RxSpec => RxImplementsRing
<1>1. RxInit => RxGood(fifo)
  BY RxInitial
<1>2. RxGood(fifo) /\ [RxNext]_fifo
      => /\ RxGood(fifo)'
         /\ [IF fifo.mode = "int" THEN RxIntRing!Next ELSE RxDmaRing!Next \/ RxInPlace]_fifo
  BY RxNextSteps
<1> QED BY <1>1, <1>2, PTL DEF RxSpec, RxImplementsRing

-----------------------------------------------------------------------------
(* The work queue.                                                         *)

User == Client \cup {Worker}

\* the sections of a call that submits or cancels delayed work
Midway == {"wq_unlist", "wq_stop", "wq_detach", "wq_attach", "wq_arm", "wq_start", "wq_submit"}

Clearing == {"wq_next", "wq_unlink"}

QueueState ==
    [use : Uses, list : Seq(Work), current : Work \cup {Nil, ListHead},
     pending : SUBSET Work, submitting : SUBSET Work, delayed : SUBSET Work,
     attached : SUBSET Work, timer : SUBSET Work]

ClearsAll(q) == "cancel all" \in q.use.calls
Delays(q)    == "delayed" \in q.use.calls

\* a call that has reached the section at, for v
InCall(q, at, v) ==
    /\ at \in Midway => v[2] \in Work /\ Delays(q)
    /\ at \in Clearing => ClearsAll(q)
    /\ at = "wq_synced" => v[2] \in Work

CallsType ==
    /\ EachThread(pc) /\ EachThread(loc)
    /\ \A t \in Thread : loc[t] = [time |-> "no", val |-> loc[t].val]
    /\ \A t \in User : InCall(queue, pc[t], loc[t].val)

\* the worker sleeps for work, and clients for the end of the current item
WqAsleep ==
    /\ Sleepers(s) /\ \A t \in Thread : s.error[t] = "EOK"
    /\ \A t \in s.asleep :
          \/ t = Worker /\ pc[t] = "wq_take"
          \/ t \in Client /\ pc[t] = "wq_synced" /\ t \in On(s, suspend_thread)

\* where an item of q is: the flags agree with the list
FlagsOk(q) ==
    /\ IsInjective(q.list) /\ q.current \notin ToSet(q.list)
    /\ ~ClearsAll(q) => q.pending \subseteq ToSet(q.list)
    /\ "critical" \notin q.use.calls /\ ~Delays(q) => ToSet(q.list) \subseteq q.pending
    /\ q.delayed # {} => Delays(q)

\* a submission with a delay that has not started its timer
Unstarted(q) == q.submitting \ q.timer

WqStarting ==
    \A w \in Unstarted(queue) : \E t \in User : pc[t] = "wq_start" /\ Item(t) = w

\* the item that is carried out, and those who sleep until it is over
Waking == {"user", "wq_suspend", "wq_take", "wq_ack"}

WqCurrent ==
    /\ pc[Worker] \in Waking => queue.current = Nil
    /\ SyncWaitersAgree

WqInv ==
    queue \in QueueState /\ CallsType /\ WqAsleep /\ FlagsOk(queue) /\ WqStarting /\ WqCurrent

\* what every step does, save that of the worker that goes to sleep
WqKept == WqInv' /\ (WorkerForgotten' => WorkerForgotten)

LEMMA WqAgrees == WqInv => WorkFlagsAgree
<1>1. {"critical", "delayed"} \cap queue.use.calls = {}
        => "critical" \notin queue.use.calls /\ ~Delays(queue)
  BY DEF Delays
<1> QED BY Zenon, <1>1 DEF WqInv, FlagsOk, ClearsAll, WorkFlagsAgree, WqStarting, Unstarted, User

LEMMA WqInitial ==
    ASSUME BlockingInit, WqInit
    PROVE  WqInv
<1>1. PICK use \in Uses :
         queue = [use |-> use, list |-> << >>, current |-> Nil, pending |-> {},
                  submitting |-> {}, delayed |-> {}, attached |-> {}, timer |-> {}]
  BY Zenon DEF WqInit
<1>2. queue \in QueueState
  BY <1>1 DEF QueueState
<1>3. \A t \in Thread : pc[t] = "user" /\ loc[t] = NoLocals
  BY DEF BlockingInit
<1>4. User \subseteq Thread
  BY WorkQueueAssumption DEF User
<1>5. CallsType
  <2>1. \A t \in User : InCall(queue, pc[t], loc[t].val)
    BY <1>3, <1>4 DEF InCall, Midway, Clearing
  <2>2. EachThread(pc) /\ EachThread(loc)
    BY DEF EachThread, BlockingInit
  <2>3. \A t \in Thread : loc[t] = [time |-> "no", val |-> loc[t].val]
    BY <1>3 DEF NoLocals
  <2> QED BY <2>1, <2>2, <2>3 DEF CallsType
<1>6. WqAsleep
  BY DEF WqAsleep, Sleepers, On, ToSet, IsInjective, BlockingInit, SleepState, WaitError
<1>7. FlagsOk(queue)
  BY <1>1 DEF FlagsOk, IsInjective, ToSet
<1>8. WqCurrent
  BY <1>1, <1>3, <1>4 DEF WqCurrent, SyncWaitersAgree, User
<1>9. WqStarting
  BY <1>1 DEF WqStarting, Unstarted
<1> QED BY <1>2, <1>5, <1>6, <1>7, <1>8, <1>9 DEF WqInv

-----------------------------------------------------------------------------
(* A step of thread t, to x.                                               *)

\* t calls for v from now on
StepsTo(t, x, v) ==
    /\ pc' = Placed(pc, t, x)
    /\ loc' = Placed(loc, t, [time |-> "no", val |-> v])

\* the timers that thread t, at label, leaves to be started
StartsWhat(t, label, x, v) ==
    \A w \in Unstarted(queue') :
        \/ w \in Unstarted(queue) /\ ~(label = "wq_start" /\ w = Item(t))
        \/ x = "wq_start" /\ w = v[2]

LEMMA WqTypeKept ==
    ASSUME WqInv, NEW t \in User, NEW x, NEW v, StepsTo(t, x, v),
           queue'.use = queue.use, InCall(queue, x, v)
    PROVE  /\ CallsType' /\ pc'[t] = x /\ Item(t)' = v[2]
           /\ \A u \in Thread \ {t} : pc'[u] = pc[u] /\ loc'[u] = loc[u]
<1>1. t \in Thread /\ User \subseteq Thread
  BY WorkQueueAssumption DEF User
<1>2. EachThread(pc) /\ EachThread(loc)
  BY DEF WqInv, CallsType
<1>3. /\ EachThread(pc') /\ EachThread(loc')
      /\ pc'[t] = x /\ loc'[t] = [time |-> "no", val |-> v]
      /\ \A u \in Thread \ {t} : pc'[u] = pc[u] /\ loc'[u] = loc[u]
  BY Zenon, <1>1, <1>2 DEF StepsTo, Placed, EachThread
<1>4. \A u \in Thread : loc'[u] = [time |-> "no", val |-> loc'[u].val]
  BY <1>3 DEF WqInv, CallsType
<1>5. \A u \in User : InCall(queue', pc'[u], loc'[u].val)
  <2>1. \A u \in User : InCall(queue, pc'[u], loc'[u].val)
    BY <1>1, <1>3 DEF WqInv, CallsType
  <2> QED BY Zenon, <2>1 DEF InCall, Delays, ClearsAll
<1>6. CallsType'
  BY Zenon, <1>3, <1>4, <1>5 DEF CallsType, EachThread, InCall
<1> QED BY <1>3, <1>6 DEF Item

LEMMA WqAsleepKept ==
    ASSUME WqInv, NEW t \in User, t \notin s.asleep,
           \A u \in Thread \ {t} : pc'[u] = pc[u], s' = s
    PROVE  WqAsleep'
BY DEF WqInv, WqAsleep, Sleepers, SleepState

LEMMA WqCurrentKept ==
    ASSUME WqInv, NEW t \in User, t \notin s.asleep,
           \A u \in Thread \ {t} : pc'[u] = pc[u] /\ loc'[u] = loc[u],
           s'.asleep \subseteq s.asleep, queue'.current = queue.current,
           t = Worker => pc[t] # "wq_ack" /\ (pc'[t] \in Waking => pc[t] \in Waking)
    PROVE  WqCurrent'
<1>1. User \subseteq Thread /\ Client \subseteq Thread
  BY WorkQueueAssumption DEF User
<1> QED BY <1>1 DEF WqInv, WqCurrent, SyncWaitersAgree, Item, User

LEMMA StartingKept ==
    ASSUME WqInv, NEW t \in User, NEW x, NEW v, StartsWhat(t, pc[t], x, v),
           pc'[t] = x, Item(t)' = v[2],
           \A u \in Thread \ {t} : pc'[u] = pc[u] /\ loc'[u] = loc[u]
    PROVE  WqStarting'
<1>1. User \subseteq Thread
  BY WorkQueueAssumption DEF User
<1>2. SUFFICES ASSUME NEW w \in Unstarted(queue')
               PROVE  \E u \in User : pc'[u] = "wq_start" /\ Item(u)' = w
  BY DEF WqStarting, Unstarted
<1>3. CASE x = "wq_start" /\ w = v[2]
  BY <1>3
<1>4. CASE w \in Unstarted(queue) /\ ~(pc[t] = "wq_start" /\ w = Item(t))
  <2>1. PICK u \in User : pc[u] = "wq_start" /\ Item(u) = w
    BY <1>4 DEF WqInv, WqStarting
  <2> QED BY <1>1, <1>4, <2>1 DEF Item
<1> QED BY <1>2, <1>3, <1>4 DEF StartsWhat

\* Nobody forgets the worker who does not put it to sleep, and who goes on to
\* resume it when there is work again.
LEMMA NotForgotten ==
    ASSUME NEW t \in User, t \notin s.asleep, pc[t] # "wq_resume",
           \A u \in Thread \ {t} : pc'[u] = pc[u],
           Worker \in s'.asleep => Worker \in s.asleep,
           Worker \in s.asleep /\ queue.list = << >> /\ queue'.list # << >> =>
               pc'[t] = "wq_resume"
    PROVE  WorkerForgotten' => WorkerForgotten
<1>1. Client \subseteq Thread
  BY WorkQueueAssumption
<1> QED BY <1>1 DEF WorkerForgotten, User

-----------------------------------------------------------------------------
(* What a section does to the queue.                                       *)

LEMMA ListedOk ==
    ASSUME NEW q \in QueueState, IsInjective(q.list), NEW w \in Work
    PROVE  LET l == Append(Dequeued(q.list, w), w) IN
           /\ l \in Seq(Work) /\ IsInjective(l) /\ l # << >>
           /\ ToSet(l) = ToSet(q.list) \cup {w}
<1>1. q.list \in Seq(Work)
  BY DEF QueueState
<1>2. /\ Dequeued(q.list, w) \in Seq(Work) /\ IsInjective(Dequeued(q.list, w))
      /\ ToSet(Dequeued(q.list, w)) = ToSet(q.list) \ {w}
  BY <1>1, WithoutElements DEF Dequeued
<1> DEFINE d == Dequeued(q.list, w)
<1> HIDE DEF d
<1>3. /\ Append(d, w) \in Seq(Work) /\ IsInjective(Append(d, w))
      /\ ToSet(Append(d, w)) = ToSet(d) \cup {w} /\ Append(d, w) # << >>
  BY <1>2, AppendElements DEF d
<1> QED BY <1>2, <1>3 DEF d

LEMMA SubmittedOk ==
    ASSUME NEW q \in QueueState, FlagsOk(q), NEW w \in Work, w # q.current,
           NEW r, r = Submitted(q, w)
    PROVE  /\ r \in QueueState /\ FlagsOk(r) /\ r.list # << >>
           /\ r.use = q.use /\ r.current = q.current /\ r.delayed = q.delayed
           /\ r.submitting = q.submitting /\ r.timer = q.timer
           /\ r.attached = q.attached /\ r.pending = q.pending \cup {w}
<1> DEFINE l == Append(Dequeued(q.list, w), w)
<1>1. l \in Seq(Work) /\ IsInjective(l) /\ l # << >> /\ ToSet(l) = ToSet(q.list) \cup {w}
  BY Zenon, ListedOk DEF FlagsOk
<1>2. r = [use |-> q.use, list |-> l, current |-> q.current,
           pending |-> q.pending \cup {w}, submitting |-> q.submitting,
           delayed |-> q.delayed, attached |-> q.attached, timer |-> q.timer]
  BY Zenon DEF QueueState, Submitted
<1> HIDE DEF l
<1>3. r \in QueueState
  BY <1>1, <1>2 DEF QueueState
<1>4. FlagsOk(r)
  BY ONLY ZenonT(40), <1>1, <1>2, FlagsOk(q), w # q.current DEF FlagsOk, ClearsAll, Delays
<1> QED BY <1>1, <1>2, <1>3, <1>4

\* rt_workqueue_critical_work: linked, but without a flag
LEMMA CriticalOk ==
    ASSUME NEW q \in QueueState, FlagsOk(q), NEW w \in Work, w # q.current,
           "critical" \in q.use.calls,
           NEW r, r = [q EXCEPT !.list = Append(Dequeued(q.list, w), w)]
    PROVE  /\ r \in QueueState /\ FlagsOk(r)
           /\ r.use = q.use /\ r.current = q.current
           /\ r.submitting = q.submitting /\ r.timer = q.timer
<1> DEFINE l == Append(Dequeued(q.list, w), w)
<1>1. l \in Seq(Work) /\ IsInjective(l) /\ l # << >> /\ ToSet(l) = ToSet(q.list) \cup {w}
  BY Zenon, ListedOk DEF FlagsOk
<1>2. r = [use |-> q.use, list |-> l, current |-> q.current, pending |-> q.pending,
           submitting |-> q.submitting, delayed |-> q.delayed, attached |-> q.attached,
           timer |-> q.timer]
  BY Zenon DEF QueueState
<1> HIDE DEF l
<1>3. r \in QueueState
  BY ONLY <1>1, <1>2, q \in QueueState DEF QueueState
<1>4. FlagsOk(r)
  BY ONLY ZenonT(40), <1>1, <1>2, FlagsOk(q), w # q.current, "critical" \in q.use.calls
     DEF FlagsOk, ClearsAll, Delays
<1> QED BY <1>2, <1>3, <1>4

\* a node is taken out of the list, and the flag may stay where all are cancelled
LEMMA UnlinkedOk ==
    ASSUME NEW q \in QueueState, FlagsOk(q), NEW w, NEW pending \in SUBSET Work,
           pending = q.pending \ {w} \/ (pending = q.pending /\ ClearsAll(q)),
           NEW r, r = [use |-> q.use, list |-> Dequeued(q.list, w), current |-> q.current,
                       pending |-> pending, submitting |-> q.submitting,
                       delayed |-> q.delayed, attached |-> q.attached, timer |-> q.timer]
    PROVE  r \in QueueState /\ FlagsOk(r) /\ (q.list = << >> => r.list = << >>)
<1> DEFINE l == Dequeued(q.list, w)
<1>1. q.list \in Seq(Work)
  BY DEF QueueState
<1>2. l \in Seq(Work) /\ IsInjective(l) /\ ToSet(l) = ToSet(q.list) \ {w}
  BY Zenon, <1>1, WithoutElements DEF Dequeued, FlagsOk
<1>3. r = [use |-> q.use, list |-> l, current |-> q.current,
           pending |-> pending, submitting |-> q.submitting,
           delayed |-> q.delayed, attached |-> q.attached, timer |-> q.timer]
  OBVIOUS
<1> HIDE DEF l
<1>4. r \in QueueState
  BY ONLY <1>2, <1>3, q \in QueueState, pending \in SUBSET Work DEF QueueState
<1>5. FlagsOk(r)
  BY ONLY ZenonT(40), <1>2, <1>3, FlagsOk(q),
     pending = q.pending \ {w} \/ (pending = q.pending /\ ClearsAll(q))
     DEF FlagsOk, ClearsAll, Delays
<1>6. q.list = << >> => l = << >>
  BY Zenon, <1>1, <1>2, EmptyList
<1> QED BY <1>3, <1>4, <1>5, <1>6

LEMMA UnlistedOk ==
    ASSUME NEW q \in QueueState, FlagsOk(q), NEW w, NEW r, r = Unlisted(q, w)
    PROVE  /\ r \in QueueState /\ FlagsOk(r) /\ (q.list = << >> => r.list = << >>)
           /\ r.use = q.use /\ r.current = q.current
           /\ r.submitting = q.submitting /\ r.timer = q.timer
<1> DEFINE pending == q.pending \ {w}
           l == Dequeued(q.list, w)
<1>1. pending \in SUBSET Work
  BY DEF QueueState
<1>2. r = [use |-> q.use, list |-> l, current |-> q.current,
           pending |-> pending, submitting |-> q.submitting,
           delayed |-> q.delayed, attached |-> q.attached, timer |-> q.timer]
  BY Zenon DEF QueueState, Unlisted
<1>3. pending = q.pending \ {w} \/ (pending = q.pending /\ ClearsAll(q))
  OBVIOUS
<1> HIDE DEF pending
<1>4. r \in QueueState /\ FlagsOk(r) /\ (q.list = << >> => r.list = << >>)
  BY Zenon, <1>1, <1>2, <1>3, UnlinkedOk
<1> QED BY <1>2, <1>4

LEMMA TakenOk ==
    ASSUME NEW q \in QueueState, FlagsOk(q), q.current = Nil,
           NEW w, w = IF q.list = << >> THEN ListHead ELSE q.list[1],
           NEW r, r = [use |-> q.use, list |-> Dequeued(q.list, w), current |-> w,
                       pending |-> q.pending \ {w}, submitting |-> q.submitting,
                       delayed |-> q.delayed, attached |-> q.attached \ {w}, timer |-> q.timer]
    PROVE  /\ r \in QueueState /\ FlagsOk(r)
           /\ r.use = q.use /\ r.submitting = q.submitting /\ r.timer = q.timer
           /\ (q.list = << >> => r.list = << >>)
<1> DEFINE l == Dequeued(q.list, w)
<1>1. q.list \in Seq(Work)
  BY DEF QueueState
<1>2. l \in Seq(Work) /\ IsInjective(l) /\ ToSet(l) = ToSet(q.list) \ {w}
  BY Zenon, <1>1, WithoutElements DEF Dequeued, FlagsOk
<1>3. r = [use |-> q.use, list |-> l, current |-> w,
           pending |-> q.pending \ {w}, submitting |-> q.submitting,
           delayed |-> q.delayed, attached |-> q.attached \ {w}, timer |-> q.timer]
  OBVIOUS
<1> HIDE DEF l
<1>4. w \in ToSet(q.list) \/ w = ListHead
  <2>1. CASE q.list = << >>
    BY <2>1
  <2>2. CASE q.list # << >>
    <3>1. Head(q.list) = q.list[1] /\ Head(q.list) \in ToSet(q.list)
      BY <1>1, <2>2, EmptyList
    <3> QED BY <2>2, <3>1
  <2> QED BY <2>1, <2>2
<1>5. ToSet(q.list) \subseteq Work
  BY <1>1 DEF ToSet
<1>6. w \in Work \cup {ListHead}
  BY <1>4, <1>5
<1>7. r \in QueueState
  BY ONLY <1>2, <1>3, <1>6, q \in QueueState DEF QueueState
<1>8. FlagsOk(r)
  BY ONLY ZenonT(40), <1>2, <1>3, FlagsOk(q) DEF FlagsOk, ClearsAll, Delays
<1>9. q.list = << >> => l = << >>
  BY Zenon, <1>1, <1>2, EmptyList
<1> QED BY <1>3, <1>7, <1>8, <1>9

LEMMA QueueFacts ==
    ASSUME NEW q \in QueueState, FlagsOk(q)
    PROVE  /\ {q.pending, q.submitting, q.delayed, q.attached, q.timer} \subseteq SUBSET Work
           /\ q.delayed # {} => Delays(q)
BY DEF QueueState, FlagsOk

\* what leaves the list and the flag PENDING as they are, or clears a flag of
\* delayed work
LEMMA SameListOk ==
    ASSUME NEW q \in QueueState, FlagsOk(q), NEW pending \in SUBSET Work,
           pending \subseteq q.pending, pending # q.pending => Delays(q),
           NEW submitting \in SUBSET Work, NEW delayed \in SUBSET Work,
           delayed # {} => Delays(q),
           NEW attached \in SUBSET Work, NEW timer \in SUBSET Work,
           NEW r, r = [use |-> q.use, list |-> q.list, current |-> q.current,
                       pending |-> pending, submitting |-> submitting,
                       delayed |-> delayed, attached |-> attached, timer |-> timer]
    PROVE  r \in QueueState /\ FlagsOk(r)
<1>1. r \in QueueState
  BY DEF QueueState
<1>2. FlagsOk(r)
  BY ONLY ZenonT(40), FlagsOk(q), pending \subseteq q.pending,
     pending # q.pending => Delays(q),
     delayed # {} => Delays(q),
     r = [use |-> q.use, list |-> q.list, current |-> q.current,
          pending |-> pending, submitting |-> submitting,
          delayed |-> delayed, attached |-> attached, timer |-> timer]
     DEF FlagsOk, ClearsAll, Delays
<1> QED BY <1>1, <1>2


-----------------------------------------------------------------------------
(* The steps.                                                              *)

LEMMA WqExecutes ==
    ASSUME WqInv, NEW t \in User, NEW label, Executes(t, label)
    PROVE  /\ t \in Thread /\ t \notin s.asleep /\ pc[t] = label
           /\ label \in Midway => Item(t) \in Work /\ Delays(queue)
           /\ label \in Clearing => ClearsAll(queue)
           /\ queue \in QueueState /\ FlagsOk(queue)
           /\ CallsType /\ WqAsleep /\ WqCurrent /\ WqStarting
<1>1. t \in Thread /\ t \notin s.asleep /\ pc[t] = label
  BY WorkQueueAssumption DEF User, Executes, Runs
<1>2. InCall(queue, pc[t], loc[t].val)
  BY DEF WqInv, CallsType
<1> QED BY <1>1, <1>2 DEF WqInv, InCall, Item

\* A step that changes who sleeps.
LEMMA WqWhole ==
    ASSUME WqInv, NEW t \in User, NEW label, Executes(t, label),
           NEW x, NEW v, StepsTo(t, x, v), InCall(queue, x, v),
           queue' \in QueueState, FlagsOk(queue'), queue'.use = queue.use,
           StartsWhat(t, label, x, v), WqAsleep', WqCurrent'
    PROVE  WqInv'
<1>1. pc[t] = label
  BY WqExecutes
<1>2. /\ CallsType' /\ pc'[t] = x /\ Item(t)' = v[2]
      /\ \A u \in Thread \ {t} : pc'[u] = pc[u] /\ loc'[u] = loc[u]
  BY WqTypeKept
<1>3. WqStarting'
  BY <1>1, <1>2, StartingKept
<1> QED BY <1>2, <1>3 DEF WqInv

\* A step that neither suspends nor resumes anybody, nor ends an item.
LEMMA WqStep ==
    ASSUME WqInv, NEW t \in User, NEW label, Executes(t, label), label # "wq_resume",
           NEW x, NEW v, StepsTo(t, x, v), InCall(queue, x, v), s' = s,
           queue' \in QueueState, FlagsOk(queue'),
           queue'.use = queue.use, queue'.current = queue.current,
           StartsWhat(t, label, x, v),
           t = Worker => label # "wq_ack" /\ (x \in Waking => label \in Waking),
           Worker \in s.asleep /\ queue.list = << >> /\ queue'.list # << >> => x = "wq_resume"
    PROVE  WqKept
<1>1. t \in Thread /\ t \notin s.asleep /\ pc[t] = label
  BY WqExecutes
<1>2. /\ CallsType' /\ pc'[t] = x /\ Item(t)' = v[2]
      /\ \A u \in Thread \ {t} : pc'[u] = pc[u] /\ loc'[u] = loc[u]
  BY WqTypeKept
<1>3. WqAsleep'
  BY <1>1, <1>2, WqAsleepKept
<1>4. WqCurrent'
  BY <1>1, <1>2, WqCurrentKept
<1>5. WqInv'
  BY <1>3, <1>4, WqWhole
<1>6. WorkerForgotten' => WorkerForgotten
  BY <1>1, <1>2, NotForgotten
<1> QED BY <1>5, <1>6 DEF WqKept

\* what a section starts that is not that of the timer
LEMMA StartsNothing ==
    ASSUME NEW t, NEW label, label # "wq_start", NEW x, NEW v,
           Unstarted(queue') \subseteq Unstarted(queue)
    PROVE  StartsWhat(t, label, x, v)
BY DEF StartsWhat

\* how a call moves on, finds its item, and ends
LEMMA MovesOn ==
    ASSUME WqInv, NEW t \in User, NEW x, Goto(t, x), UNCHANGED loc
    PROVE  StepsTo(t, x, loc[t].val)
<1>1. t \in Thread /\ EachThread(loc) /\ loc[t] = [time |-> "no", val |-> loc[t].val]
  BY WorkQueueAssumption DEF User, WqInv, CallsType
<1> DEFINE l == [time |-> "no", val |-> loc[t].val]
<1>2. loc[t] = l
  BY <1>1
<1> HIDE DEF l
<1>3. loc = [loc EXCEPT ![t] = l]
  BY <1>1, <1>2 DEF EachThread
<1> QED BY <1>3 DEF StepsTo, Placed, Goto, l

LEMMA CallsFor ==
    ASSUME WqInv, NEW t \in User, NEW x, Goto(t, x), NEW v, loc' = [loc EXCEPT ![t].val = v]
    PROVE  StepsTo(t, x, v)
<1>1. t \in Thread /\ EachThread(loc) /\ loc[t] = [time |-> "no", val |-> loc[t].val]
  BY WorkQueueAssumption DEF User, WqInv, CallsType
<1> DEFINE l == [loc[t] EXCEPT !.val = v]
<1>2. l = [time |-> "no", val |-> v]
  BY <1>1
<1>3. loc' = [loc EXCEPT ![t] = l]
  BY <1>1 DEF EachThread
<1> QED BY Zenon, <1>2, <1>3 DEF StepsTo, Placed, Goto

LEMMA CallEnds ==
    ASSUME NEW t \in User, Ends(t)
    PROVE  StepsTo(t, Home(t), Nil)
BY DEF Ends, StepsTo, Placed, Goto, NoLocals

LEMMA HomeIs ==
    ASSUME NEW t \in User
    PROVE  /\ Home(t) \notin Midway \cup Clearing
           /\ Home(t) \notin {"wq_ack", "wq_resume", "wq_start", "wq_suspend", "wq_synced"}
           /\ t = Worker => Home(t) \notin Waking
           /\ \A q, v : InCall(q, Home(t), v) /\ InCall(q, "wq_resume", v)
BY DEF Home, Midway, Clearing, Waking, InCall

\* a call of this module is made from where the thread is at home
LEMMA WqCalls ==
    ASSUME WqInv, NEW t \in User, NEW call, Calls(t, call)
    PROVE  Executes(t, Home(t)) /\ call \in queue.use.calls
<1>1. queue.use \in Uses
  BY DEF WqInv, QueueState
<1>2. t \in queue.use.clients => t # Worker
  BY <1>1, WorkQueueAssumption
<1> QED BY <1>2 DEF Calls, Home, User

\* the worker sleeps between two items
LEMMA WorkerSleeps ==
    ASSUME WqInv, Worker \in s.asleep
    PROVE  pc[Worker] = "wq_take" /\ queue.current = Nil
BY WorkQueueAssumption DEF WqInv, WqAsleep, WqCurrent, Waking

\* a section that starts no timer, from home or in the middle of a call
LEMMA WqCallStep ==
    ASSUME WqInv, NEW t \in User, NEW label \in Midway \cup Clearing \cup {Home(t), "wq_synced"},
           Executes(t, label), label # "wq_start",
           NEW x, NEW v, StepsTo(t, x, v), InCall(queue, x, v), s' = s,
           queue' \in QueueState, FlagsOk(queue'),
           queue'.use = queue.use, queue'.current = queue.current,
           Unstarted(queue') \subseteq Unstarted(queue), t = Worker => x \notin Waking,
           Worker \in s.asleep /\ queue.list = << >> /\ queue'.list # << >> => x = "wq_resume"
    PROVE  WqKept
<1>1. label # "wq_resume" /\ label # "wq_ack"
  BY HomeIs DEF Midway, Clearing
<1>2. StartsWhat(t, label, x, v)
  BY StartsNothing
<1> QED BY <1>1, <1>2, WqStep

-----------------------------------------------------------------------------
(* The worker's steps that change nobody's sleep, and the submissions.     *)

LEMMA WqTestKeeps ==
    ASSUME WqInv, WqTest
    PROVE  WqKept
<1> DEFINE x == IF queue.list = << >> THEN "wq_suspend" ELSE "wq_take"
<1>1. Executes(Worker, "user") /\ Goto(Worker, x) /\ s' = s /\ loc' = loc /\ queue' = queue
  BY DEF WqTest
<1>2. Worker \in User /\ queue \in QueueState /\ FlagsOk(queue)
  BY DEF User, WqInv
<1>3. x \in Waking /\ \A v : InCall(queue, x, v)
  BY DEF Midway, Clearing, InCall, Waking
<1> HIDE DEF x
<1>4. StepsTo(Worker, x, loc[Worker].val)
  BY <1>1, <1>2, MovesOn
<1>5. StartsWhat(Worker, "user", x, loc[Worker].val)
  BY <1>1, StartsNothing
<1>6. "user" \in Waking
  BY DEF Waking
<1> QED BY <1>1, <1>2, <1>3, <1>4, <1>5, <1>6, WqStep

\* _workqueue_submit_work
LEMMA SubmitSectionKeeps ==
    ASSUME WqInv, NEW t \in User, NEW label \in {Home(t), "wq_submit"}, Executes(t, label),
           NEW w \in Work, SubmitSection(t, w)
    PROVE  WqKept
<1>1. s' = s /\ loc' = [loc EXCEPT ![t] = NoLocals]
  BY DEF SubmitSection
<1>2. /\ label # "wq_start" /\ label \in Midway \cup Clearing \cup {Home(t), "wq_synced"}
      /\ queue \in QueueState /\ FlagsOk(queue)
  BY HomeIs DEF Midway, WqInv
<1>3. CASE Busy(w)
  <2>1. Goto(t, Home(t)) /\ queue' = queue
    BY <1>3 DEF SubmitSection
  <2>2. StepsTo(t, Home(t), Nil)
    BY <1>1, <2>1 DEF StepsTo, Goto, Placed, NoLocals
  <2>3. Unstarted(queue') \subseteq Unstarted(queue)
    BY <2>1
  <2> QED BY <1>1, <1>2, <2>1, <2>2, <2>3, HomeIs, WqCallStep
<1>4. CASE ~Busy(w)
  <2> DEFINE x == IF queue.current = Nil THEN "wq_resume" ELSE Home(t)
  <2>1. Goto(t, x) /\ queue' = Submitted(queue, w)
    BY <1>4 DEF SubmitSection
  <2>2. /\ InCall(queue, x, Nil) /\ (t = Worker => x \notin Waking)
        /\ Worker \in s.asleep => x = "wq_resume"
    BY HomeIs, WorkerSleeps DEF Waking
  <2> HIDE DEF x
  <2>3. StepsTo(t, x, Nil)
    BY <1>1, <2>1 DEF StepsTo, Goto, Placed, NoLocals
  <2>4. w # queue.current
    BY <1>4 DEF Busy
  <2>5. /\ queue' \in QueueState /\ FlagsOk(queue') /\ queue'.use = queue.use
        /\ queue'.current = queue.current
        /\ queue'.submitting = queue.submitting /\ queue'.timer = queue.timer
    BY <1>2, <2>1, <2>4, SubmittedOk
  <2>6. Unstarted(queue') \subseteq Unstarted(queue)
    BY <2>5 DEF Unstarted
  <2> QED BY <1>1, <1>2, <2>2, <2>3, <2>5, <2>6, WqCallStep
<1> QED BY <1>3, <1>4

LEMMA WqSubmitKeeps ==
    ASSUME WqInv, NEW t \in User, NEW w \in Work, WqSubmit(t, w)
    PROVE  WqKept
BY WqCalls, SubmitSectionKeeps DEF WqSubmit

LEMMA WqSubmitAtOnceKeeps ==
    ASSUME WqInv, NEW t \in User, WqSubmitAtOnce(t)
    PROVE  WqKept
<1>1. Executes(t, "wq_submit") /\ SubmitSection(t, Item(t)) /\ "wq_submit" \in Midway
  BY DEF WqSubmitAtOnce, Midway
<1>2. Item(t) \in Work
  BY <1>1, WqExecutes
<1> QED BY <1>1, <1>2, SubmitSectionKeeps

LEMMA WqCriticalKeeps ==
    ASSUME WqInv, NEW t \in User, NEW w \in Work, WqCritical(t, w)
    PROVE  WqKept
<1> DEFINE x == IF queue.current = Nil THEN "wq_resume" ELSE Home(t)
<1>1. /\ Calls(t, "critical") /\ queue.current # w
      /\ queue' = [queue EXCEPT !.list = Append(Dequeued(queue.list, w), w)]
      /\ Goto(t, x) /\ s' = s /\ loc' = loc
  BY DEF WqCritical
<1>2. /\ Executes(t, Home(t)) /\ "critical" \in queue.use.calls
      /\ queue \in QueueState /\ FlagsOk(queue) /\ Home(t) # "wq_start"
  BY <1>1, WqCalls, HomeIs DEF WqInv
<1>3. /\ \A v : InCall(queue, x, v)
      /\ t = Worker => x \notin Waking
      /\ Worker \in s.asleep => x = "wq_resume"
  BY HomeIs, WorkerSleeps DEF Waking
<1> HIDE DEF x
<1>4. StepsTo(t, x, loc[t].val)
  BY <1>1, MovesOn
<1>5. /\ queue' \in QueueState /\ FlagsOk(queue') /\ queue'.use = queue.use
      /\ queue'.current = queue.current
      /\ queue'.submitting = queue.submitting /\ queue'.timer = queue.timer
  BY <1>1, <1>2, CriticalOk
<1>6. Unstarted(queue') \subseteq Unstarted(queue)
  BY <1>5 DEF Unstarted
<1> QED BY Zenon, <1>1, <1>2, <1>3, <1>4, <1>5, <1>6, WqCallStep

-----------------------------------------------------------------------------
(* Delayed work.                                                           *)

LEMMA BranchIs == ASSUME NEW w PROVE CancelBranch(w) \in Midway /\ CancelBranch(w) # "wq_start"
BY DEF CancelBranch, Midway

\* a section in the middle of a call to which delayed work is submitted or cancelled
LEMMA MidFacts ==
    ASSUME WqInv, NEW t \in User, NEW label \in Midway, Executes(t, label)
    PROVE  /\ queue \in QueueState /\ FlagsOk(queue)
           /\ Item(t) \in Work /\ Delays(queue)
           /\ \A x \in Midway : InCall(queue, x, loc[t].val) /\ (t = Worker => x \notin Waking)
           /\ label \in Midway \cup Clearing \cup {Home(t), "wq_synced"}
BY WqExecutes DEF InCall, Item, Midway, Clearing, Waking

LEMMA WqDelayedKeeps ==
    ASSUME WqInv, NEW t \in User, NEW w \in Work, NEW purpose, WqDelayed(t, w, purpose)
    PROVE  WqKept
<1> DEFINE x == IF w \in queue.attached THEN CancelBranch(w) ELSE "wq_attach"
           v == <<purpose, w>>
           d == queue.delayed \cup {w}
<1>1. /\ Calls(t, "delayed") /\ loc' = [loc EXCEPT ![t].val = v]
      /\ Goto(t, x) /\ s' = s /\ v[2] = w /\ queue' = [queue EXCEPT !.delayed = d]
  BY Zenon DEF WqDelayed
<1>2. /\ Executes(t, Home(t)) /\ Delays(queue) /\ queue \in QueueState /\ FlagsOk(queue)
      /\ Home(t) # "wq_start" /\ Home(t) \in Midway \cup Clearing \cup {Home(t), "wq_synced"}
  BY <1>1, WqCalls, HomeIs DEF WqInv, Delays
<1>3. x \in Midway /\ d \in SUBSET Work
  BY <1>2, BranchIs DEF Midway, QueueState
<1> HIDE DEF x, v, d
<1>4. queue' = [use |-> queue.use, list |-> queue.list, current |-> queue.current,
                pending |-> queue.pending, submitting |-> queue.submitting,
                delayed |-> d, attached |-> queue.attached, timer |-> queue.timer]
  BY ONLY Zenon, <1>1, <1>2 DEF QueueState
<1>5. queue' \in QueueState /\ FlagsOk(queue')
  BY <1>2, <1>3, <1>4, SameListOk DEF QueueState
<1>6. InCall(queue, x, v) /\ x \notin Waking /\ x # "wq_resume"
  BY <1>1, <1>2, <1>3 DEF InCall, Midway, Clearing, Waking
<1>7. StepsTo(t, x, v)
  BY Zenon, <1>1, CallsFor
<1>8. Unstarted(queue') \subseteq Unstarted(queue)
  BY <1>4 DEF Unstarted
<1> QED BY <1>1, <1>2, <1>4, <1>5, <1>6, <1>7, <1>8, WqCallStep

LEMMA WqCancelDelayedKeeps ==
    ASSUME WqInv, NEW t \in User, NEW w \in Work, WqCancelDelayed(t, w)
    PROVE  WqKept
<1> DEFINE x == CancelBranch(w)
           v == <<"cancel", w>>
<1>1. /\ Calls(t, "cancel") /\ w \in queue.delayed /\ loc' = [loc EXCEPT ![t].val = v]
      /\ Goto(t, x) /\ s' = s /\ queue' = queue /\ v[2] = w
  BY DEF WqCancelDelayed
<1>2. /\ Executes(t, Home(t)) /\ queue \in QueueState /\ FlagsOk(queue)
      /\ Home(t) # "wq_start" /\ Home(t) \in Midway \cup Clearing \cup {Home(t), "wq_synced"}
  BY <1>1, WqCalls, HomeIs DEF WqInv
<1>3. Delays(queue) /\ x \in Midway
  BY <1>1, <1>2, BranchIs DEF FlagsOk
<1> HIDE DEF x, v
<1>4. InCall(queue, x, v) /\ x \notin Waking /\ x # "wq_resume"
  BY <1>1, <1>2, <1>3 DEF InCall, Midway, Clearing, Waking
<1>5. StepsTo(t, x, v)
  BY Zenon, <1>1, CallsFor
<1>6. Unstarted(queue') \subseteq Unstarted(queue)
  BY <1>1
<1> QED BY <1>1, <1>2, <1>4, <1>5, <1>6, WqCallStep

\* a call that ends in the middle
LEMMA WqEndStep ==
    ASSUME WqInv, NEW t \in User, NEW label \in Midway \cup Clearing \cup {"wq_synced"},
           Executes(t, label), Ends(t), s' = s,
           queue' \in QueueState, FlagsOk(queue'), queue'.use = queue.use,
           queue'.current = queue.current, queue.list = << >> => queue'.list = << >>,
           StartsWhat(t, label, Home(t), Nil)
    PROVE  WqKept
<1>1. label # "wq_resume" /\ label # "wq_ack"
  BY DEF Midway, Clearing
<1> QED BY <1>1, HomeIs, CallEnds, WqStep

LEMMA WqUnlistKeeps ==
    ASSUME WqInv, NEW t \in User, WqUnlist(t)
    PROVE  WqKept
<1> DEFINE w == Item(t)
<1>1. Executes(t, "wq_unlist") /\ s' = s /\ {"wq_unlist", "wq_detach"} \subseteq Midway
  BY DEF WqUnlist, Midway
<1>2. /\ queue \in QueueState /\ FlagsOk(queue) /\ w \in Work
      /\ InCall(queue, "wq_detach", loc[t].val) /\ (t = Worker => "wq_detach" \notin Waking)
      /\ "wq_unlist" \in Midway \cup Clearing \cup {Home(t), "wq_synced"}
  BY <1>1, MidFacts
<1> HIDE DEF w
<1>3. CASE Ends(t) /\ queue' = queue
  <2>1. StartsWhat(t, "wq_unlist", Home(t), Nil)
    BY <1>3, StartsNothing
  <2> QED BY <1>1, <1>2, <1>3, <2>1, WqEndStep
<1>4. CASE queue' = Unlisted(queue, w) /\ Goto(t, "wq_detach") /\ loc' = loc
  <2>1. StepsTo(t, "wq_detach", loc[t].val)
    BY <1>4, MovesOn
  <2>2. /\ queue' \in QueueState /\ FlagsOk(queue') /\ (queue.list = << >> => queue'.list = << >>)
        /\ queue'.use = queue.use /\ queue'.current = queue.current
        /\ queue'.submitting = queue.submitting /\ queue'.timer = queue.timer
    BY <1>2, <1>4, UnlistedOk
  <2>3. Unstarted(queue') \subseteq Unstarted(queue)
    BY <2>2 DEF Unstarted
  <2> QED BY <1>1, <1>2, <2>1, <2>2, <2>3, WqCallStep
<1>5. \/ Ends(t) /\ queue' = queue
      \/ queue' = Unlisted(queue, w) /\ Goto(t, "wq_detach") /\ loc' = loc
  BY Zenon DEF WqUnlist, w
<1> QED BY <1>3, <1>4, <1>5

LEMMA WqStopKeeps ==
    ASSUME WqInv, NEW t \in User, WqStop(t)
    PROVE  WqKept
<1> DEFINE x == queue.timer \ {Item(t)}
           y == queue.submitting \ {Item(t)}
<1>1. /\ Executes(t, "wq_stop") /\ s' = s /\ {"wq_stop", "wq_detach"} \subseteq Midway
      /\ Goto(t, "wq_detach") /\ loc' = loc
      /\ queue' = [queue EXCEPT !.timer = x, !.submitting = y]
  BY DEF WqStop, Midway
<1>2. /\ queue \in QueueState /\ FlagsOk(queue)
      /\ InCall(queue, "wq_detach", loc[t].val) /\ (t = Worker => "wq_detach" \notin Waking)
      /\ "wq_stop" \in Midway \cup Clearing \cup {Home(t), "wq_synced"}
  BY <1>1, MidFacts
<1>3. x \in SUBSET Work /\ y \in SUBSET Work /\ y \ x \subseteq Unstarted(queue)
  BY <1>2 DEF QueueState, Unstarted
<1> HIDE DEF x, y
<1>4. queue' = [use |-> queue.use, list |-> queue.list, current |-> queue.current,
                pending |-> queue.pending, submitting |-> y,
                delayed |-> queue.delayed, attached |-> queue.attached, timer |-> x]
  BY ONLY Zenon, <1>1, <1>2 DEF QueueState
<1>5. queue' \in QueueState /\ FlagsOk(queue')
  BY <1>2, <1>3, <1>4, QueueFacts, SameListOk
<1>6. StepsTo(t, "wq_detach", loc[t].val)
  BY <1>1, MovesOn
<1>7. Unstarted(queue') \subseteq Unstarted(queue)
  BY <1>3, <1>4 DEF Unstarted
<1> QED BY <1>1, <1>2, <1>4, <1>5, <1>6, <1>7, WqCallStep

LEMMA WqDetachKeeps ==
    ASSUME WqInv, NEW t \in User, WqDetach(t)
    PROVE  WqKept
<1> DEFINE x == queue.attached \ {Item(t)}
           y == queue.pending \ {Item(t)}
<1>1. /\ Executes(t, "wq_detach") /\ s' = s /\ {"wq_detach", "wq_attach"} \subseteq Midway
      /\ queue' = [queue EXCEPT !.attached = x, !.pending = y]
  BY DEF WqDetach, Midway
<1>2. /\ queue \in QueueState /\ FlagsOk(queue) /\ Delays(queue)
      /\ InCall(queue, "wq_attach", loc[t].val) /\ (t = Worker => "wq_attach" \notin Waking)
      /\ "wq_detach" \in Midway \cup Clearing \cup {Home(t), "wq_synced"}
  BY <1>1, MidFacts
<1>3. x \in SUBSET Work /\ y \in SUBSET Work /\ y \subseteq queue.pending
  BY <1>2 DEF QueueState
<1>9. \/ Goto(t, "wq_attach") /\ loc' = loc
      \/ Ends(t)
  BY Zenon DEF WqDetach
<1> HIDE DEF x, y
<1>4. queue' = [use |-> queue.use, list |-> queue.list, current |-> queue.current,
                pending |-> y, submitting |-> queue.submitting,
                delayed |-> queue.delayed, attached |-> x, timer |-> queue.timer]
  BY ONLY Zenon, <1>1, <1>2 DEF QueueState
<1>5. queue' \in QueueState /\ FlagsOk(queue')
  BY <1>2, <1>3, <1>4, SameListOk DEF QueueState
<1>6. Unstarted(queue') \subseteq Unstarted(queue)
  BY <1>4 DEF Unstarted
<1>7. CASE Goto(t, "wq_attach") /\ loc' = loc
  <2>1. StepsTo(t, "wq_attach", loc[t].val)
    BY <1>7, MovesOn
  <2> QED BY <1>1, <1>2, <1>4, <1>5, <1>6, <2>1, WqCallStep
<1>8. CASE Ends(t)
  <2>1. StartsWhat(t, "wq_detach", Home(t), Nil)
    BY <1>6, StartsNothing
  <2> QED BY <1>1, <1>2, <1>4, <1>5, <1>8, <2>1, WqEndStep
<1> QED BY <1>7, <1>8, <1>9

LEMMA WqAttachKeeps ==
    ASSUME WqInv, NEW t \in User, WqAttach(t)
    PROVE  WqKept
<1> DEFINE x == queue.attached \cup {Item(t)}
           to == IF Purpose(t) = "delayed" THEN "wq_arm" ELSE "wq_submit"
<1>1. /\ Executes(t, "wq_attach") /\ s' = s /\ "wq_attach" \in Midway /\ to \in Midway
      /\ queue' = [queue EXCEPT !.attached = x] /\ Goto(t, to) /\ loc' = loc
  BY DEF WqAttach, Midway
<1> HIDE DEF to
<1>2. /\ queue \in QueueState /\ FlagsOk(queue) /\ Item(t) \in Work
      /\ InCall(queue, to, loc[t].val) /\ (t = Worker => to \notin Waking)
      /\ "wq_attach" \in Midway \cup Clearing \cup {Home(t), "wq_synced"}
  BY <1>1, MidFacts
<1>3. x \in SUBSET Work
  BY <1>2 DEF QueueState
<1> HIDE DEF x
<1>4. queue' = [use |-> queue.use, list |-> queue.list, current |-> queue.current,
                pending |-> queue.pending, submitting |-> queue.submitting,
                delayed |-> queue.delayed, attached |-> x, timer |-> queue.timer]
  BY ONLY Zenon, <1>1, <1>2 DEF QueueState
<1>5. queue' \in QueueState /\ FlagsOk(queue')
  BY <1>2, <1>3, <1>4, QueueFacts, SameListOk
<1>6. StepsTo(t, to, loc[t].val)
  BY <1>1, MovesOn
<1>7. Unstarted(queue') \subseteq Unstarted(queue)
  BY <1>4 DEF Unstarted
<1> QED BY <1>1, <1>2, <1>4, <1>5, <1>6, <1>7, WqCallStep

LEMMA WqArmKeeps ==
    ASSUME WqInv, NEW t \in User, WqArm(t)
    PROVE  WqKept
<1> DEFINE y == queue.submitting \cup {Item(t)}
<1>1. /\ Executes(t, "wq_arm") /\ s' = s /\ {"wq_arm", "wq_start"} \subseteq Midway
      /\ Goto(t, "wq_start") /\ loc' = loc
  BY DEF WqArm, Midway
<1>2. PICK x \in {queue.timer, queue.timer \ {Item(t)}} :
        queue' = [queue EXCEPT !.submitting = y, !.timer = x]
  BY Zenon DEF WqArm
<1>3. /\ queue \in QueueState /\ FlagsOk(queue) /\ Item(t) \in Work
      /\ InCall(queue, "wq_start", loc[t].val) /\ (t = Worker => "wq_start" \notin Waking)
  BY <1>1, MidFacts
<1>4. x \in SUBSET Work /\ y \in SUBSET Work
      /\ \A w \in y \ x : w \in Unstarted(queue) \/ w = Item(t)
  BY <1>2, <1>3 DEF QueueState, Unstarted
<1> HIDE DEF y
<1>5. queue' = [use |-> queue.use, list |-> queue.list, current |-> queue.current,
                pending |-> queue.pending, submitting |-> y,
                delayed |-> queue.delayed, attached |-> queue.attached, timer |-> x]
  BY ONLY Zenon, <1>2, <1>3 DEF QueueState
<1>6. queue' \in QueueState /\ FlagsOk(queue')
  BY <1>3, <1>4, <1>5, QueueFacts, SameListOk
<1>7. StepsTo(t, "wq_start", loc[t].val)
  BY <1>1, MovesOn
<1>8. StartsWhat(t, "wq_arm", "wq_start", loc[t].val)
  BY <1>4, <1>5 DEF StartsWhat, Unstarted, Item
<1>9. t = Worker => "wq_arm" # "wq_ack" /\ ("wq_start" \in Waking => "wq_arm" \in Waking)
  BY <1>3
<1> QED BY Zenon, <1>1, <1>3, <1>5, <1>6, <1>7, <1>8, <1>9, WqStep

LEMMA WqStartKeeps ==
    ASSUME WqInv, NEW t \in User, WqStart(t)
    PROVE  WqKept
<1> DEFINE x == queue.timer \cup {Item(t)}
<1>1. /\ Executes(t, "wq_start") /\ s' = s /\ "wq_start" \in Midway
      /\ queue' = [queue EXCEPT !.timer = x] /\ Ends(t)
  BY DEF WqStart, Midway
<1>2. queue \in QueueState /\ FlagsOk(queue) /\ Item(t) \in Work
  BY <1>1, MidFacts
<1>3. x \in SUBSET Work
      /\ \A w \in queue.submitting \ x : w \in Unstarted(queue) /\ w # Item(t)
  BY <1>2 DEF QueueState, Unstarted
<1> HIDE DEF x
<1>4. queue' = [use |-> queue.use, list |-> queue.list, current |-> queue.current,
                pending |-> queue.pending, submitting |-> queue.submitting,
                delayed |-> queue.delayed, attached |-> queue.attached, timer |-> x]
  BY ONLY Zenon, <1>1, <1>2 DEF QueueState
<1>5. queue' \in QueueState /\ FlagsOk(queue')
  BY <1>2, <1>3, <1>4, QueueFacts, SameListOk
<1>6. StartsWhat(t, "wq_start", Home(t), Nil)
  BY <1>3, <1>4 DEF StartsWhat, Unstarted
<1> QED BY <1>1, <1>4, <1>5, <1>6, WqEndStep

-----------------------------------------------------------------------------
(* The cancellations that wait for nobody.                                 *)

LEMMA WqCancelKeeps ==
    ASSUME WqInv, NEW t \in User, NEW w \in Work, WqCancel(t, w)
    PROVE  WqKept
<1>1. Calls(t, "cancel") /\ queue' = Unlisted(queue, w) /\ s' = s /\ pc' = pc /\ loc' = loc
  BY DEF WqCancel, threadVars
<1>2. /\ Executes(t, Home(t)) /\ queue \in QueueState /\ FlagsOk(queue)
      /\ Home(t) # "wq_start" /\ Home(t) \in Midway \cup Clearing \cup {Home(t), "wq_synced"}
  BY <1>1, WqCalls, HomeIs DEF WqInv
<1>3. /\ queue' \in QueueState /\ FlagsOk(queue') /\ (queue.list = << >> => queue'.list = << >>)
      /\ queue'.use = queue.use /\ queue'.current = queue.current
      /\ queue'.submitting = queue.submitting /\ queue'.timer = queue.timer
  BY <1>1, <1>2, UnlistedOk
<1>4. pc[t] = Home(t) /\ EachThread(pc)
  BY <1>2, WqExecutes DEF CallsType
<1>5. Goto(t, Home(t))
  BY <1>1, <1>4 DEF Goto, EachThread
<1>6. StepsTo(t, Home(t), loc[t].val)
  BY <1>1, <1>5, MovesOn
<1>7. Unstarted(queue') \subseteq Unstarted(queue)
  BY <1>3 DEF Unstarted
<1> QED BY <1>1, <1>2, <1>3, <1>6, <1>7, HomeIs, WqCallStep

LEMMA WqCancelAllKeeps ==
    ASSUME WqInv, NEW t \in User, WqCancelAll(t)
    PROVE  WqKept
<1> DEFINE v == <<"cancel all", IF queue.list = << >> THEN ListHead ELSE Head(queue.list)>>
<1>1. /\ Calls(t, "cancel all") /\ queue' = queue /\ s' = s
      /\ loc' = [loc EXCEPT ![t].val = v] /\ Goto(t, "wq_next")
  BY Zenon DEF WqCancelAll
<1>2. Executes(t, Home(t)) /\ ClearsAll(queue)
  BY Zenon, <1>1, WqCalls DEF ClearsAll
<1> HIDE DEF v
<1>3. StepsTo(t, "wq_next", v)
  BY Zenon, <1>1, CallsFor
<1>4. /\ queue' = queue /\ s' = s /\ queue \in QueueState /\ FlagsOk(queue)
  BY Zenon, <1>1 DEF WqInv
<1>5. /\ InCall(queue, "wq_next", v) /\ "wq_next" \notin Waking
      /\ Home(t) # "wq_start" /\ Home(t) \in Midway \cup Clearing \cup {Home(t), "wq_synced"}
      /\ Unstarted(queue') \subseteq Unstarted(queue)
  BY ONLY <1>2, <1>4, HomeIs, t \in User DEF InCall, Midway, Clearing, Waking
<1> QED BY ONLY WqInv, t \in User, <1>2, <1>3, <1>4, <1>5, WqCallStep

LEMMA WqNextNodeKeeps ==
    ASSUME WqInv, NEW t \in User, WqNextNode(t)
    PROVE  WqKept
<1> DEFINE v == <<"cancel all", Item(t), NodeAfter(Item(t))>>
<1>1. /\ Executes(t, "wq_next") /\ queue' = queue /\ s' = s
      /\ \/ Ends(t)
         \/ loc' = [loc EXCEPT ![t].val = v] /\ Goto(t, "wq_unlink")
  BY Zenon DEF WqNextNode
<1> HIDE DEF v
<1>2. /\ ClearsAll(queue) /\ queue \in QueueState /\ FlagsOk(queue)
      /\ "wq_next" \in Midway \cup Clearing \cup {Home(t), "wq_synced"}
  BY <1>1, WqExecutes DEF Clearing
<1>3. Unstarted(queue') \subseteq Unstarted(queue)
  BY <1>1
<1>4. CASE Ends(t)
  <2>1. StartsWhat(t, "wq_next", Home(t), Nil)
    BY <1>3, StartsNothing
  <2>2. "wq_next" \in Midway \cup Clearing \cup {"wq_synced"}
    BY DEF Clearing
  <2> QED BY <1>1, <1>2, <1>4, <2>1, <2>2, WqEndStep
<1>5. CASE loc' = [loc EXCEPT ![t].val = v] /\ Goto(t, "wq_unlink")
  <2>1. StepsTo(t, "wq_unlink", v)
    BY Zenon, <1>5, CallsFor
  <2>2. InCall(queue, "wq_unlink", v) /\ "wq_unlink" \notin Waking
    BY <1>2 DEF InCall, Midway, Waking
  <2> QED BY <1>1, <1>2, <1>3, <2>1, <2>2, WqCallStep
<1> QED BY <1>1, <1>4, <1>5

LEMMA WqUnlinkNodeKeeps ==
    ASSUME WqInv, NEW t \in User, WqUnlinkNode(t)
    PROVE  WqKept
<1> DEFINE v == <<"cancel all", loc[t].val[3]>>
           l == Dequeued(queue.list, Item(t))
<1>1. /\ Executes(t, "wq_unlink") /\ s' = s /\ queue' = [queue EXCEPT !.list = l]
      /\ loc' = [loc EXCEPT ![t].val = v] /\ Goto(t, "wq_next")
  BY Zenon DEF WqUnlinkNode
<1> HIDE DEF v
<1>2. /\ ClearsAll(queue) /\ queue \in QueueState /\ FlagsOk(queue)
      /\ "wq_unlink" \in Midway \cup Clearing \cup {Home(t), "wq_synced"}
  BY <1>1, WqExecutes DEF Clearing
<1>3. queue' = [use |-> queue.use, list |-> l, current |-> queue.current,
                pending |-> queue.pending, submitting |-> queue.submitting,
                delayed |-> queue.delayed, attached |-> queue.attached, timer |-> queue.timer]
  BY ONLY Zenon, <1>1, <1>2 DEF QueueState
<1>4. queue.pending \in SUBSET Work
  BY <1>2 DEF QueueState
<1>5. queue' \in QueueState /\ FlagsOk(queue') /\ (queue.list = << >> => queue'.list = << >>)
  BY Zenon, <1>2, <1>3, <1>4, UnlinkedOk
<1> HIDE DEF l
<1>6. StepsTo(t, "wq_next", v)
  BY Zenon, <1>1, CallsFor
<1>7. InCall(queue, "wq_next", v) /\ "wq_next" \notin Waking
  BY <1>2 DEF InCall, Midway, Waking
<1>8. Unstarted(queue') \subseteq Unstarted(queue)
  BY <1>3 DEF Unstarted
<1> QED BY <1>1, <1>2, <1>3, <1>5, <1>6, <1>7, <1>8, WqCallStep

LEMMA WqSyncedKeeps ==
    ASSUME WqInv, NEW t \in User, WqSynced(t)
    PROVE  WqKept
<1>1. Executes(t, "wq_synced") /\ Ends(t) /\ s' = s /\ queue' = queue
  BY DEF WqSynced
<1>2. queue \in QueueState /\ FlagsOk(queue)
  BY DEF WqInv
<1>3. StartsWhat(t, "wq_synced", Home(t), Nil)
  BY <1>1, StartsNothing
<1> QED BY <1>1, <1>2, <1>3, WqEndStep

-----------------------------------------------------------------------------
(* The steps that suspend or resume somebody, or begin or end an item.     *)

LEMMA WqSuspendKeeps ==
    ASSUME WqInv, WqSuspend
    PROVE  WqInv'
<1> DEFINE r == [s EXCEPT !.asleep = s.asleep \cup {Worker}]
<1>1. /\ Executes(Worker, "wq_suspend") /\ s' = r /\ Goto(Worker, "wq_take")
      /\ loc' = loc /\ queue' = queue
  BY DEF WqSuspend
<1> HIDE DEF r
<1>2. Worker \in User
  BY DEF User
<1>3. /\ Worker \in Thread /\ Worker \notin s.asleep /\ pc[Worker] = "wq_suspend"
      /\ queue \in QueueState /\ FlagsOk(queue) /\ WqAsleep /\ WqCurrent
  BY <1>1, <1>2, WqExecutes
<1>4. s \in SleepState /\ Sleepers(s) /\ \A t \in Thread : s.error[t] = "EOK"
  BY ONLY <1>3 DEF WqAsleep, Sleepers
<1>5. r = [asleep |-> s.asleep \cup {Worker}, timer |-> s.timer, error |-> s.error, list |-> s.list]
  <2> DEFINE x == s.asleep \cup {Worker}
  <2>1. s \in SleepState
    BY <1>4
  <2>2. [s EXCEPT !.asleep = x]
          = [asleep |-> x, timer |-> s.timer, error |-> s.error, list |-> s.list]
    <3> HIDE DEF x
    <3> QED BY ONLY <2>1 DEF SleepState
  <2> QED BY <2>2 DEF r
<1>6. Sleepers(r)
  BY ONLY Zenon, <1>3, <1>4, <1>5 DEF Sleepers, SleepState, On
<1>7. /\ StepsTo(Worker, "wq_take", loc[Worker].val)
      /\ InCall(queue, "wq_take", loc[Worker].val)
  BY <1>1, <1>2, MovesOn DEF InCall, Midway, Clearing
<1>8. /\ pc'[Worker] = "wq_take"
      /\ \A u \in Thread \ {Worker} : pc'[u] = pc[u] /\ loc'[u] = loc[u]
  BY <1>1, <1>2, <1>7, WqTypeKept
<1>9. WqAsleep'
  <2>1. Sleepers(s') /\ \A t \in Thread : s'.error[t] = "EOK"
    BY ONLY <1>1, <1>4, <1>6, <1>5
  <2>2. s'.asleep = s.asleep \cup {Worker} /\ On(s', suspend_thread) = On(s, suspend_thread)
    BY ONLY <1>1, <1>5 DEF On
  <2>3. Client \subseteq Thread \ {Worker} /\ s.asleep \subseteq Thread
    BY <1>4, WorkQueueAssumption DEF SleepState
  <2>4. \A t \in s'.asleep :
           \/ t = Worker /\ pc'[t] = "wq_take"
           \/ t \in Client /\ pc'[t] = "wq_synced" /\ t \in On(s', suspend_thread)
    BY ONLY <1>3, <1>8, <2>2, <2>3 DEF WqAsleep
  <2> QED BY ONLY <2>1, <2>4 DEF WqAsleep, Sleepers, On
<1>10. WqCurrent'
  BY <1>1, <1>3, <1>5, <1>8, WorkQueueAssumption DEF WqCurrent, SyncWaitersAgree, Item, Waking
<1>11. StartsWhat(Worker, "wq_suspend", "wq_take", loc[Worker].val)
  BY <1>1, StartsNothing
<1> QED BY <1>1, <1>2, <1>3, <1>7, <1>9, <1>10, <1>11, WqWhole

\* the worker takes the first item, or the list itself for one
LEMMA WqTakeKeeps ==
    ASSUME WqInv, WqTake
    PROVE  WqKept
<1> DEFINE w == IF queue.list = << >> THEN ListHead ELSE queue.list[1]
<1>1. /\ Executes(Worker, "wq_take") /\ s' = s /\ Goto(Worker, "wq_work") /\ loc' = loc
      /\ queue' = [queue EXCEPT !.list = Dequeued(queue.list, w), !.current = w,
                                !.pending = queue.pending \ {w},
                                !.attached = queue.attached \ {w}]
  BY DEF WqTake
<1>2. Worker \in User
  BY DEF User
<1>3. /\ Worker \in Thread /\ Worker \notin s.asleep /\ pc[Worker] = "wq_take"
      /\ queue \in QueueState /\ FlagsOk(queue) /\ WqAsleep /\ WqCurrent
  BY <1>1, <1>2, WqExecutes
<1>4. queue.current = Nil
  BY <1>3 DEF WqCurrent, Waking
<1>5. w = IF queue.list = << >> THEN ListHead ELSE queue.list[1]
  OBVIOUS
<1> HIDE DEF w
<1>6. queue' = [use |-> queue.use, list |-> Dequeued(queue.list, w), current |-> w,
                pending |-> queue.pending \ {w}, submitting |-> queue.submitting,
                delayed |-> queue.delayed, attached |-> queue.attached \ {w},
                timer |-> queue.timer]
  BY ONLY Zenon, <1>1, <1>3 DEF QueueState
<1>7. /\ queue' \in QueueState /\ FlagsOk(queue')
      /\ queue'.use = queue.use /\ queue'.submitting = queue.submitting
      /\ queue'.timer = queue.timer /\ (queue.list = << >> => queue'.list = << >>)
  BY <1>3, <1>4, <1>5, <1>6, TakenOk
<1>8. /\ StepsTo(Worker, "wq_work", loc[Worker].val) /\ "wq_work" \notin Waking
      /\ InCall(queue, "wq_work", loc[Worker].val)
  BY <1>1, <1>2, MovesOn DEF InCall, Midway, Clearing, Waking
<1>9. /\ pc'[Worker] = "wq_work"
      /\ \A u \in Thread \ {Worker} : pc'[u] = pc[u] /\ loc'[u] = loc[u]
  BY <1>2, <1>7, <1>8, WqTypeKept
<1>10. WqAsleep'
  BY <1>1, <1>2, <1>3, <1>9, WqAsleepKept
<1>11. WqCurrent'
  <2>1. \A t \in Client : ~(pc[t] = "wq_synced" /\ t \in s.asleep)
    <3>1. \A t \in Client : t \in s.asleep /\ pc[t] = "wq_synced" => Item(t) = Nil
      BY <1>3, <1>4 DEF WqCurrent, SyncWaitersAgree
    <3>2. \A t \in Client : pc[t] = "wq_synced" => Item(t) \in Work
      BY DEF WqInv, CallsType, InCall, Item, User
    <3> QED BY <3>1, <3>2, WorkQueueAssumption
  <2>2. Client \subseteq Thread \ {Worker}
    BY WorkQueueAssumption
  <2> QED BY <1>1, <1>8, <1>9, <2>1, <2>2 DEF WqCurrent, SyncWaitersAgree
<1>12. StartsWhat(Worker, "wq_take", "wq_work", loc[Worker].val)
  <2>1. Unstarted(queue') = Unstarted(queue)
    BY <1>7 DEF Unstarted
  <2> QED BY <2>1, StartsNothing
<1>13. WqInv'
  BY <1>1, <1>2, <1>7, <1>8, <1>10, <1>11, <1>12, WqWhole
<1>14. WorkerForgotten' => WorkerForgotten
  BY <1>1, <1>2, <1>3, <1>7, <1>9, NotForgotten
<1> QED BY <1>13, <1>14 DEF WqKept

LEMMA WqDoneKeeps ==
    ASSUME WqInv, WqDone
    PROVE  WqKept
<1>1. /\ Executes(Worker, "wq_work") /\ s' = s /\ Goto(Worker, "wq_ack") /\ loc' = loc
      /\ queue' = [queue EXCEPT !.current = Nil]
  BY DEF WqDone
<1>2. Worker \in User
  BY DEF User
<1>3. /\ Worker \in Thread /\ Worker \notin s.asleep /\ pc[Worker] = "wq_work"
      /\ queue \in QueueState /\ FlagsOk(queue) /\ WqAsleep /\ WqCurrent
  BY <1>1, <1>2, WqExecutes
<1>4. queue' = [use |-> queue.use, list |-> queue.list, current |-> Nil,
                pending |-> queue.pending, submitting |-> queue.submitting,
                delayed |-> queue.delayed, attached |-> queue.attached, timer |-> queue.timer]
  BY ONLY Zenon, <1>1, <1>3 DEF QueueState
<1>5. queue' \in QueueState
  BY ONLY <1>3, <1>4 DEF QueueState
<1>6. Nil \notin ToSet(queue.list)
  BY <1>3, WorkQueueAssumption DEF QueueState, ToSet
<1>7. FlagsOk(queue')
  BY ONLY ZenonT(40), <1>3, <1>4, <1>6 DEF FlagsOk, ClearsAll, Delays
<1>8. /\ StepsTo(Worker, "wq_ack", loc[Worker].val)
      /\ InCall(queue, "wq_ack", loc[Worker].val)
  BY <1>1, <1>2, MovesOn DEF InCall, Midway, Clearing
<1>9. /\ pc'[Worker] = "wq_ack"
      /\ \A u \in Thread \ {Worker} : pc'[u] = pc[u] /\ loc'[u] = loc[u]
  BY <1>2, <1>4, <1>8, WqTypeKept
<1>10. WqAsleep'
  BY <1>1, <1>2, <1>3, <1>9, WqAsleepKept
<1>11. WqCurrent'
  BY <1>4, <1>9 DEF WqCurrent, SyncWaitersAgree
<1>12. StartsWhat(Worker, "wq_work", "wq_ack", loc[Worker].val)
  <2>1. Unstarted(queue') = Unstarted(queue)
    BY <1>4 DEF Unstarted
  <2> QED BY <2>1, StartsNothing
<1>13. WqInv'
  BY <1>1, <1>2, <1>4, <1>5, <1>7, <1>8, <1>10, <1>11, <1>12, WqWhole
<1>14. WorkerForgotten' => WorkerForgotten
  BY <1>1, <1>2, <1>3, <1>4, <1>9, NotForgotten
<1> QED BY <1>13, <1>14 DEF WqKept

\* a list whose threads are all woken
LEMMA EmptiedIs ==
    ASSUME NEW j, Sleepers(j), NEW l \in WaitList,
           NEW r, r = [asleep |-> j.asleep \ On(j, l), timer |-> j.timer \ On(j, l),
                       error |-> j.error, list |-> [j.list EXCEPT ![l] = << >>]]
    PROVE  Sleepers(r)
<1>1. /\ j \in SleepState /\ j.list \in [WaitList -> Seq(Thread)]
      /\ IsInjective(<< >>) /\ ToSet(<< >>) = {} /\ << >> \in Seq(Thread)
  BY DEF Sleepers, SleepState, IsInjective, ToSet
<1>2. r \in SleepState
  BY <1>1 DEF SleepState
<1>3. /\ On(r, l) = {} /\ IsInjective(r.list[l])
      /\ \A m \in WaitList \ {l} : On(r, m) = On(j, m) /\ r.list[m] = j.list[m]
  BY <1>1 DEF On
<1>4. \A m \in WaitList \ {l} : On(j, m) \subseteq j.asleep /\ On(j, m) \cap On(j, l) = {}
  BY DEF Sleepers
<1>5. \A m \in WaitList : IsInjective(r.list[m]) /\ On(r, m) \subseteq r.asleep
  BY Zenon, <1>3, <1>4 DEF Sleepers
<1>6. \A m, n \in WaitList : m # n => On(r, m) \cap On(r, n) = {}
  BY Zenon, <1>3 DEF Sleepers
<1>7. r.timer \subseteq r.asleep /\ \A t \in r.asleep : r.error[t] = "EOK"
  BY DEF Sleepers
<1> QED BY Zenon, <1>2, <1>5, <1>6, <1>7 DEF Sleepers

LEMMA WqAckKeeps ==
    ASSUME WqInv, WqAck
    PROVE  WqKept
<1> DEFINE ws == On(s, suspend_thread)
           x == s.asleep \ ws
           y == s.timer \ ws
<1>1. /\ Executes(Worker, "wq_ack") /\ Goto(Worker, "user") /\ loc' = loc /\ queue' = queue
      /\ s' = [s EXCEPT !.asleep = x, !.timer = y, !.list[suspend_thread] = << >>]
  BY DEF WqAck, On
<1>2. Worker \in User
  BY DEF User
<1>3. /\ Worker \in Thread /\ Worker \notin s.asleep /\ pc[Worker] = "wq_ack"
      /\ queue \in QueueState /\ FlagsOk(queue) /\ WqAsleep /\ WqCurrent
  BY <1>1, <1>2, WqExecutes
<1>4. s \in SleepState /\ Sleepers(s) /\ \A t \in Thread : s.error[t] = "EOK"
  BY ONLY <1>3 DEF WqAsleep, Sleepers
<1>5. s' = [asleep |-> x, timer |-> y, error |-> s.error,
            list |-> [s.list EXCEPT ![suspend_thread] = << >>]]
  <2> HIDE DEF x, y
  <2> DEFINE a == [s EXCEPT !.asleep = x]
             b == [a EXCEPT !.timer = y]
  <2>1. a = [asleep |-> x, timer |-> s.timer, error |-> s.error, list |-> s.list]
    BY ONLY <1>4 DEF SleepState
  <2>2. s' = [b EXCEPT !.list[suspend_thread] = << >>]
    BY ONLY <1>1
  <2> HIDE DEF a
  <2>3. b = [asleep |-> x, timer |-> y, error |-> s.error, list |-> s.list]
    BY ONLY <2>1
  <2> HIDE DEF b
  <2> QED BY ONLY <2>2, <2>3
<1>6. Sleepers(s')
  BY <1>4, <1>5, BlockingAssumption, EmptiedIs
<1>7. s'.asleep = {} /\ \A t \in Thread : s'.error[t] = "EOK"
  <2>1. s.asleep \subseteq ws
    BY <1>3 DEF WqAsleep
  <2> QED BY <1>4, <1>5, <2>1
<1>8. WqAsleep'
  BY ONLY <1>6, <1>7 DEF WqAsleep, Sleepers, On
<1>9. /\ StepsTo(Worker, "user", loc[Worker].val)
      /\ InCall(queue, "user", loc[Worker].val)
  BY <1>1, <1>2, MovesOn DEF InCall, Midway, Clearing
<1>10. queue.current = Nil
  BY <1>3 DEF WqCurrent, Waking
<1>11. WqCurrent'
  BY ONLY <1>1, <1>7, <1>10 DEF WqCurrent, SyncWaitersAgree
<1>12. StartsWhat(Worker, "wq_ack", "user", loc[Worker].val)
  BY <1>1, StartsNothing
<1>13. WqInv'
  BY <1>1, <1>2, <1>3, <1>8, <1>9, <1>11, <1>12, WqWhole
<1> QED BY <1>7, <1>13 DEF WqKept, WorkerForgotten

\* the worker is woken, if it sleeps, and nobody else
LEMMA WorkerWakes ==
    ASSUME WqInv, s' = rt_thread_resume(s, Worker)
    PROVE  /\ Sleepers(s)' /\ s'.asleep = s.asleep \ {Worker} /\ s'.error = s.error
           /\ \A t \in s'.asleep : t \in On(s, suspend_thread) => t \in On(s, suspend_thread)'
<1>1. Sleepers(s) /\ suspend_thread \in WaitList
  BY BlockingAssumption DEF WqInv, WqAsleep
<1>2. CASE Worker \notin s.asleep
  <2>1. s' = s
    BY <1>2 DEF rt_thread_resume
  <2>2. Sleepers(s)'
    BY <1>1, <2>1 DEF Sleepers, SleepState
  <2>3. On(s, suspend_thread)' = On(s, suspend_thread)
    BY ONLY <2>1 DEF On
  <2> QED BY <1>2, <2>1, <2>2, <2>3
<1>3. CASE Worker \in s.asleep
  <2>1. /\ Sleepers(s') /\ s'.asleep = s.asleep \ {Worker} /\ s'.error = s.error
        /\ On(s', suspend_thread) = On(s, suspend_thread) \ {Worker}
    BY <1>1, <1>3, ResumeIs
  <2>2. On(s, suspend_thread)' = On(s', suspend_thread) /\ (Sleepers(s)' <=> Sleepers(s'))
    BY ONLY TRUE DEF On, Sleepers, SleepState
  <2> QED BY <2>1, <2>2
<1> QED BY <1>2, <1>3

LEMMA WqResumeKeeps ==
    ASSUME WqInv, NEW t \in User, WqResume(t)
    PROVE  WqKept
<1>1. /\ Executes(t, "wq_resume") /\ s' = rt_thread_resume(s, Worker)
      /\ Goto(t, Home(t)) /\ loc' = loc /\ queue' = queue
  BY DEF WqResume
<1>2. /\ t \in Thread /\ t \notin s.asleep /\ pc[t] = "wq_resume"
      /\ queue \in QueueState /\ FlagsOk(queue) /\ WqAsleep /\ WqCurrent
  BY <1>1, WqExecutes
<1>3. /\ Sleepers(s)' /\ s'.asleep = s.asleep \ {Worker} /\ s'.error = s.error
      /\ \A u \in s'.asleep : u \in On(s, suspend_thread) => u \in On(s, suspend_thread)'
  BY <1>1, WorkerWakes
<1>4. /\ StepsTo(t, Home(t), loc[t].val) /\ InCall(queue, Home(t), loc[t].val)
      /\ t = Worker => Home(t) \notin Waking
  BY <1>1, HomeIs, MovesOn
<1>5. /\ pc'[t] = Home(t)
      /\ \A u \in Thread \ {t} : pc'[u] = pc[u] /\ loc'[u] = loc[u]
  BY <1>1, <1>4, WqTypeKept
<1>6. WqAsleep'
  BY ZenonT(40), <1>2, <1>3, <1>5 DEF WqAsleep, Sleepers, SleepState
<1>7. WqCurrent'
  BY <1>1, <1>2, <1>3, <1>4, <1>5, WqCurrentKept
<1>8. StartsWhat(t, "wq_resume", Home(t), loc[t].val)
  BY <1>1, StartsNothing
<1>9. WqInv'
  BY <1>1, <1>2, <1>4, <1>6, <1>7, <1>8, WqWhole
<1> QED BY <1>3, <1>9 DEF WqKept, WorkerForgotten

\* a thread that falls asleep in list l
LEMMA LinkedIs ==
    ASSUME NEW j, Sleepers(j), NEW l \in WaitList, NEW t \in Thread, t \notin j.asleep,
           j.error[t] = "EOK", NEW r, r = rt_ipc_list_suspend(j, l, t)
    PROVE  /\ Sleepers(r) /\ r.asleep = j.asleep \cup {t} /\ r.error = j.error
           /\ On(r, l) = On(j, l) \cup {t}
<1>1. /\ j \in SleepState /\ j.list \in [WaitList -> Seq(Thread)] /\ j.list[l] \in Seq(Thread)
      /\ IsInjective(j.list[l]) /\ t \notin ToSet(j.list[l])
      /\ j.asleep \subseteq Thread /\ j.timer \subseteq j.asleep
      /\ j.error \in [Thread -> WaitError]
  BY DEF Sleepers, SleepState, On
<1> DEFINE k == Append(j.list[l], t)
<1>2. k \in Seq(Thread) /\ IsInjective(k) /\ ToSet(k) = ToSet(j.list[l]) \cup {t}
  BY <1>1, AppendElements
<1>3. r = [asleep |-> j.asleep \cup {t}, timer |-> j.timer \ {t}, error |-> j.error,
           list |-> [j.list EXCEPT ![l] = k]]
  BY <1>1, SuspendFields
<1> HIDE DEF k
<1>4. r \in SleepState
  BY <1>1, <1>2, <1>3 DEF SleepState
<1>10. r.asleep = j.asleep \cup {t} /\ r.timer = j.timer \ {t} /\ r.error = j.error
  BY ONLY <1>3
<1>5. /\ On(r, l) = On(j, l) \cup {t} /\ IsInjective(r.list[l])
      /\ \A m \in WaitList \ {l} : On(r, m) = On(j, m) /\ r.list[m] = j.list[m]
  BY <1>1, <1>2, <1>3 DEF On
<1>6. \A m \in WaitList : /\ IsInjective(j.list[m]) /\ On(j, m) \subseteq j.asleep
                          /\ t \notin On(j, m)
  BY DEF Sleepers
<1>7. \A m \in WaitList : IsInjective(r.list[m]) /\ On(r, m) \subseteq r.asleep
  BY ONLY <1>5, <1>6, <1>10
<1>8. \A m, n \in WaitList : m # n => On(r, m) \cap On(r, n) = {}
  <2>1. \A m, n \in WaitList : m # n => On(j, m) \cap On(j, n) = {}
    BY DEF Sleepers
  <2> QED BY <1>5, <1>6, <2>1
<1>9. r.timer \subseteq r.asleep /\ \A u \in r.asleep : r.error[u] = "EOK"
  BY <1>1, <1>3 DEF Sleepers
<1> QED BY ONLY <1>4, <1>5, <1>7, <1>8, <1>9, <1>10 DEF Sleepers

LEMMA WqCancelSyncKeeps ==
    ASSUME WqInv, NEW t \in User, NEW w \in Work, WqCancelSync(t, w)
    PROVE  WqKept
<1> DEFINE v == <<"cancel sync", w>>
<1>1. /\ Calls(t, "cancel sync") /\ (t = Worker => queue.current # w)
      /\ loc' = [loc EXCEPT ![t].val = v] /\ Goto(t, "wq_synced") /\ v[2] = w
  BY Zenon DEF WqCancelSync
<1>2. Executes(t, Home(t))
  BY Zenon, <1>1, WqCalls
<1>3. /\ t \in Thread /\ t \notin s.asleep /\ pc[t] = Home(t)
      /\ queue \in QueueState /\ FlagsOk(queue) /\ WqAsleep /\ WqCurrent
  BY Zenon, <1>2, WqExecutes
<1> HIDE DEF v
<1>4. StepsTo(t, "wq_synced", v)
  BY Zenon, <1>1, CallsFor
<1>5. InCall(queue, "wq_synced", v) /\ "wq_synced" \notin Waking
  <2>1. v[2] = w
    BY Zenon, <1>1
  <2> QED BY ONLY <2>1, w \in Work DEF InCall, Midway, Clearing, Waking
<1>6. CASE queue.current # w
  <2>1. queue' = Unlisted(queue, w) /\ s' = s
    BY Zenon, <1>6 DEF WqCancelSync
  <2>2. /\ queue' \in QueueState /\ FlagsOk(queue') /\ (queue.list = << >> => queue'.list = << >>)
        /\ queue'.use = queue.use /\ queue'.current = queue.current
        /\ queue'.submitting = queue.submitting /\ queue'.timer = queue.timer
    BY Zenon, <1>3, <2>1, UnlistedOk
  <2>3. /\ Unstarted(queue') \subseteq Unstarted(queue) /\ Home(t) # "wq_start"
        /\ Home(t) \in Midway \cup Clearing \cup {Home(t), "wq_synced"}
    BY ONLY <2>2, HomeIs, t \in User DEF Unstarted
  <2> QED BY ONLY WqInv, t \in User, <1>2, <1>4, <1>5, <2>1, <2>2, <2>3, WqCallStep
<1>7. CASE queue.current = w
  <2>1. /\ queue' = [queue EXCEPT !.pending = queue.pending \ {w}]
        /\ s' = rt_ipc_list_suspend(s, suspend_thread, t) /\ t # Worker
    BY Zenon, <1>1, <1>7 DEF WqCancelSync
  <2>2. queue' = [use |-> queue.use, list |-> queue.list, current |-> queue.current,
                  pending |-> queue.pending \ {w}, submitting |-> queue.submitting,
                  delayed |-> queue.delayed, attached |-> queue.attached,
                  timer |-> queue.timer]
    BY ONLY Zenon, <1>3, <2>1 DEF QueueState
  <2>3. queue' \in QueueState
    BY ONLY <1>3, <2>2 DEF QueueState
  <2>4. FlagsOk(queue')
    BY ONLY ZenonT(40), <1>3, <1>7, <2>2 DEF FlagsOk, ClearsAll, Delays
  <2>5. t \in Client /\ t # Worker /\ t \in Thread \ s.asleep /\ Worker \notin s.asleep
    <3>1. Worker \notin s.asleep
      BY Zenon, <1>7, WorkerSleeps, WorkQueueAssumption
    <3> QED BY ONLY <1>3, <2>1, <3>1, t \in User DEF User
  <2>6. /\ Sleepers(s') /\ s'.asleep = s.asleep \cup {t} /\ s'.error = s.error
        /\ On(s', suspend_thread) = On(s, suspend_thread) \cup {t}
        /\ \A u \in Thread : s.error[u] = "EOK"
    <3>1. Sleepers(s) /\ suspend_thread \in WaitList /\ \A u \in Thread : s.error[u] = "EOK"
      BY ONLY <1>3, BlockingAssumption DEF WqAsleep, Sleepers, On
    <3> QED BY ONLY <2>1, <2>5, <3>1, LinkedIs
  <2>7. /\ pc'[t] = "wq_synced" /\ Item(t)' = w
        /\ \A u \in Thread \ {t} : pc'[u] = pc[u] /\ loc'[u] = loc[u]
    BY ZenonT(40), <1>1, <1>4, <1>5, <2>2, WqTypeKept
  <2>8. WqAsleep'
    <3>1. s.asleep \subseteq Thread
      BY ONLY <1>3 DEF WqAsleep, Sleepers, SleepState
    <3>2. \A u \in s'.asleep :
             \/ u = Worker /\ pc'[u] = "wq_take"
             \/ u \in Client /\ pc'[u] = "wq_synced" /\ u \in On(s', suspend_thread)
      BY ONLY Zenon, <1>3, <2>5, <2>6, <2>7, <3>1 DEF WqAsleep
    <3>3. Sleepers(s') /\ \A u \in Thread : s'.error[u] = "EOK"
      BY <2>6
    <3> QED BY ONLY <3>2, <3>3 DEF WqAsleep, Sleepers, On
  <2>9. WqCurrent'
    BY ONLY ZenonT(40), <1>1, <1>3, <1>7, <2>1, <2>2, <2>5, <2>6, <2>7, WorkQueueAssumption
       DEF WqCurrent, SyncWaitersAgree, Item
  <2>10. StartsWhat(t, Home(t), "wq_synced", v)
    BY ONLY <2>2, HomeIs, StartsNothing, t \in User DEF Unstarted
  <2>11. queue'.use = queue.use /\ queue'.list = queue.list
    BY ONLY <2>2
  <2>12. WqInv'
    BY ONLY WqInv, t \in User, <1>2, <1>4, <1>5, <2>3, <2>4, <2>8, <2>9, <2>10, <2>11, WqWhole
  <2>13. WorkerForgotten' => WorkerForgotten
    BY ONLY <2>5, <2>6 DEF WorkerForgotten
  <2> QED BY <2>12, <2>13 DEF WqKept
<1> QED BY <1>6, <1>7

-----------------------------------------------------------------------------
(* The expiry of a timer, in the tick interrupt.                           *)

\* what is submitted in the middle of the removal of the last node is lost
LEMMA MisplacedOk ==
    ASSUME NEW q \in QueueState, FlagsOk(q), ClearsAll(q), NEW w \in Work, w # q.current,
           NEW r, r = [Submitted(q, w) EXCEPT !.list = Dequeued(@, w)]
    PROVE  /\ r \in QueueState /\ FlagsOk(r)
           /\ r.use = q.use /\ r.current = q.current
           /\ r.submitting = q.submitting /\ r.timer = q.timer
<1> DEFINE m == Submitted(q, w)
           l == Dequeued(m.list, w)
<1>1. /\ m \in QueueState /\ FlagsOk(m) /\ m.use = q.use /\ m.current = q.current
      /\ m.submitting = q.submitting /\ m.timer = q.timer
  BY SubmittedOk
<1>2. r = [m EXCEPT !.list = l]
  BY Zenon
<1> HIDE DEF m
<1>3. r = [use |-> m.use, list |-> l, current |-> m.current, pending |-> m.pending,
           submitting |-> m.submitting, delayed |-> m.delayed, attached |-> m.attached,
           timer |-> m.timer]
  BY ONLY Zenon, <1>1, <1>2 DEF QueueState
<1>4. ClearsAll(m) /\ m.pending \in SUBSET Work
  BY Zenon, <1>1, QueueFacts DEF ClearsAll, QueueState
<1>5. r \in QueueState /\ FlagsOk(r)
  BY Zenon, <1>1, <1>3, <1>4, UnlinkedOk
<1> HIDE DEF l
<1> QED BY ONLY <1>1, <1>3, <1>5

LEMMA WqExpiresKeeps ==
    ASSUME WqInv, NEW w \in Work, WqExpires(w)
    PROVE  WqKept
<1> DEFINE x == queue.timer \ {w}
           y == queue.submitting \ {w}
           z == queue.delayed \ {w}
           q == [queue EXCEPT !.timer = x, !.submitting = y, !.delayed = z]
<1>1. /\ pc' = pc /\ loc' = loc
      /\ \/ Busy(w) /\ queue' = q
         \/ ~Busy(w) /\ queue' = Submitted(q, w)
         \/ /\ ~Busy(w) /\ LastIsUnlinked
            /\ queue' = [Submitted(q, w) EXCEPT !.list = Dequeued(@, w)]
      /\ s' = IF ~Busy(w) /\ queue.current = Nil THEN rt_thread_resume(s, Worker) ELSE s
  BY Zenon DEF WqExpires
<1>2. queue \in QueueState /\ FlagsOk(queue) /\ WqAsleep /\ WqCurrent /\ CallsType /\ WqStarting
  BY DEF WqInv
<1>3. /\ {x, y, z} \subseteq SUBSET Work /\ (z # {} => Delays(queue))
      /\ y \ x \subseteq Unstarted(queue)
  BY <1>2, QueueFacts DEF Unstarted
<1>4. q = [use |-> queue.use, list |-> queue.list, current |-> queue.current,
           pending |-> queue.pending, submitting |-> y, delayed |-> z,
           attached |-> queue.attached, timer |-> x]
  <2> HIDE DEF x, y, z
  <2> DEFINE a == [queue EXCEPT !.timer = x]
             b == [a EXCEPT !.submitting = y]
  <2>1. a = [use |-> queue.use, list |-> queue.list, current |-> queue.current,
             pending |-> queue.pending, submitting |-> queue.submitting,
             delayed |-> queue.delayed, attached |-> queue.attached, timer |-> x]
    BY ONLY <1>2 DEF QueueState
  <2>2. q = [b EXCEPT !.delayed = z]
    OBVIOUS
  <2> HIDE DEF a, q
  <2>3. b = [use |-> queue.use, list |-> queue.list, current |-> queue.current,
             pending |-> queue.pending, submitting |-> y,
             delayed |-> queue.delayed, attached |-> queue.attached, timer |-> x]
    BY ONLY <2>1
  <2> HIDE DEF b
  <2> QED BY ONLY <2>2, <2>3
<1> HIDE DEF q, x, y, z
<1>5. /\ q \in QueueState /\ FlagsOk(q)
      /\ q.use = queue.use /\ q.list = queue.list /\ q.current = queue.current
      /\ q.submitting = y /\ q.timer = x
  <2>1. q \in QueueState /\ FlagsOk(q)
    BY <1>2, <1>3, <1>4, QueueFacts, SameListOk
  <2> QED BY ONLY <1>4, <2>1
<1>6. /\ queue' \in QueueState /\ FlagsOk(queue')
      /\ queue'.use = queue.use /\ queue'.current = queue.current
      /\ queue'.submitting = y /\ queue'.timer = x
      /\ Busy(w) => queue'.list = queue.list
  <2>1. CASE Busy(w) /\ queue' = q
    BY <1>5, <2>1
  <2>2. CASE ~Busy(w) /\ queue' = Submitted(q, w)
    <3>1. w # q.current
      BY <1>5, <2>2 DEF Busy
    <3> QED BY <1>5, <2>2, <3>1, SubmittedOk
  <2>3. CASE /\ ~Busy(w) /\ LastIsUnlinked
             /\ queue' = [Submitted(q, w) EXCEPT !.list = Dequeued(@, w)]
    <3>1. w # q.current
      BY <1>5, <2>3 DEF Busy
    <3>2. ClearsAll(q)
      <4>1. ClearsAll(queue)
        BY Zenon, <1>2, <2>3 DEF LastIsUnlinked, CallsType, InCall, Clearing, User
      <4> QED BY Zenon, <1>5, <4>1 DEF ClearsAll
    <3>3. queue' = [Submitted(q, w) EXCEPT !.list = Dequeued(@, w)]
      BY <2>3
    <3> QED BY <1>5, <2>3, <3>1, <3>2, <3>3, MisplacedOk
  <2> QED BY <1>1, <2>1, <2>2, <2>3
<1>7. /\ Sleepers(s)' /\ s'.asleep \subseteq s.asleep /\ s'.error = s.error
      /\ \A u \in s'.asleep : u \in On(s, suspend_thread) => u \in On(s, suspend_thread)'
      /\ ~Busy(w) /\ queue.current = Nil => Worker \notin s'.asleep
  <2>1. CASE ~Busy(w) /\ queue.current = Nil
    BY <1>1, <2>1, WorkerWakes
  <2>2. CASE ~(~Busy(w) /\ queue.current = Nil)
    <3>1. s' = s /\ Sleepers(s)
      BY <1>1, <1>2, <2>2 DEF WqAsleep
    <3>2. Sleepers(s)'
      BY <3>1 DEF Sleepers, SleepState
    <3>3. On(s, suspend_thread)' = On(s, suspend_thread)
      BY ONLY <3>1 DEF On
    <3> QED BY <2>2, <3>1, <3>2, <3>3
  <2> QED BY <2>1, <2>2
<1>8. CallsType'
  <2>1. \A t \in User : InCall(queue', pc[t], loc[t].val)
    BY Zenon, <1>2, <1>6 DEF CallsType, InCall, Delays, ClearsAll
  <2> QED BY Zenon, <1>1, <1>2, <2>1 DEF CallsType, InCall, EachThread
<1>9. WqAsleep'
  BY <1>1, <1>2, <1>7 DEF WqAsleep, Sleepers, SleepState
<1>10. WqCurrent'
  BY <1>1, <1>2, <1>6, <1>7 DEF WqCurrent, SyncWaitersAgree, Item
<1>11. WqStarting'
  BY <1>1, <1>2, <1>3, <1>6 DEF WqStarting, Unstarted, Item
<1>12. WorkerForgotten' => WorkerForgotten
  BY <1>1, <1>6, <1>7, WorkerSleeps DEF WorkerForgotten
<1> QED BY <1>6, <1>8, <1>9, <1>10, <1>11, <1>12 DEF WqInv, WqKept

-----------------------------------------------------------------------------
(* The theorems.                                                           *)

LEMMA WqNextKeeps ==
    ASSUME WqInv, WorkQueueNext
    PROVE  WqInv' /\ (WorkerForgotten' => WorkerForgotten \/ WqSuspend)
<1>1. WqSuspend => WqInv'
  BY WqSuspendKeeps
<1>2. CASE WqTest \/ WqTake \/ WqDone \/ WqAck
  BY <1>2, WqTestKeeps, WqTakeKeeps, WqDoneKeeps, WqAckKeeps DEF WqKept
<1>3. ASSUME NEW t \in User,
             \/ WqResume(t) \/ WqUnlist(t) \/ WqStop(t) \/ WqDetach(t) \/ WqAttach(t)
             \/ WqSubmitAtOnce(t) \/ WqArm(t) \/ WqStart(t) \/ WqSynced(t)
             \/ WqCancelAll(t) \/ WqNextNode(t) \/ WqUnlinkNode(t)
      PROVE  WqKept
  BY ONLY Zenon, WqInv, t \in User, <1>3, WqResumeKeeps, WqUnlistKeeps, WqStopKeeps,
     WqDetachKeeps, WqAttachKeeps, WqSubmitAtOnceKeeps, WqArmKeeps, WqStartKeeps,
     WqSyncedKeeps, WqCancelAllKeeps, WqNextNodeKeeps, WqUnlinkNodeKeeps
<1>4. ASSUME NEW t \in User, NEW w \in Work,
             \/ WqSubmit(t, w) \/ WqCritical(t, w) \/ WqCancelDelayed(t, w)
             \/ WqCancel(t, w) \/ WqCancelSync(t, w)
             \/ \E purpose \in {"delayed", "at once"} : WqDelayed(t, w, purpose)
      PROVE  WqKept
  BY ONLY Zenon, WqInv, t \in User, w \in Work, <1>4, WqSubmitKeeps, WqCriticalKeeps,
     WqCancelDelayedKeeps, WqCancelKeeps, WqCancelSyncKeeps, WqDelayedKeeps
<1>5. ASSUME NEW w \in Work, WqExpires(w)
      PROVE  WqKept
  BY <1>5, WqExpiresKeeps
<1>6. \A w \in queue.use.work : w \in Work
  <2>1. queue.use \in Uses
    BY DEF WqInv, QueueState
  <2> QED BY <2>1, WorkQueueAssumption
<1> QED BY ONLY ZenonT(40), WorkQueueNext, <1>1, <1>2, <1>3, <1>4, <1>5, <1>6
        DEF WorkQueueNext, User, WqKept

LEMMA WqStays ==
    ASSUME WqInv, UNCHANGED workVars
    PROVE  WqInv'
<1>1. s' = s /\ pc' = pc /\ loc' = loc /\ queue' = queue
  BY DEF workVars, threadVars
<1>2. CallsType'
  BY Zenon, <1>1 DEF WqInv, CallsType, EachThread, InCall, Delays, ClearsAll
<1>3. WqAsleep'
  <2>1. Sleepers(s)'
    BY <1>1 DEF WqInv, WqAsleep, Sleepers, SleepState
  <2>2. On(s, suspend_thread)' = On(s, suspend_thread)
    BY ONLY <1>1 DEF On
  <2> QED BY <1>1, <2>1, <2>2 DEF WqInv, WqAsleep
<1>4. WqCurrent' /\ WqStarting'
  BY <1>1 DEF WqInv, WqCurrent, WqStarting, Unstarted, SyncWaitersAgree, Item
<1> QED BY <1>1, <1>2, <1>3, <1>4 DEF WqInv

LEMMA WqNextPreserves ==
    ASSUME WqInv, [WorkQueueNext]_workVars
    PROVE  WqInv'
BY WqNextKeeps, WqStays

\* For any threads, any work and any use of the queue, delays that expire in the
\* middle of a call and null pointers included: no item is in the list twice, or
\* while it is carried out, its flag PENDING tells that it is in the list, but for
\* the calls that WorkFlagsAgree names, and its flag SUBMITTING that its timer runs
\* or is about to be started (rt_workqueue_dowork, rt_workqueue_cancel_work,
\* _delayed_work_timeout_handler).
THEOREM WorkFlagsAlwaysAgree == WorkQueueSpec => []WorkFlagsAgree
<1>1. WqInv => WorkFlagsAgree
  BY WqAgrees
<1> QED BY <1>1, WqInitial, WqNextPreserves, PTL DEF WorkQueueSpec

LEMMA WqServes == WqInv => SyncWaitersAgree /\ SleepersAgree
BY DEF WqInv, WqAsleep, WqCurrent, Sleepers, SleepersAgree, On

\* For any threads, any work and any use of the queue: whoever submits work, in a
\* call or by the timer of a delay, leaves the worker awake or resumes it next; the
\* worker is asleep on work only where it puts itself to sleep after its look at
\* the list (workqueue.c:61-64).  And whoever sleeps in
\* rt_workqueue_cancel_work_sync sleeps for the item that is carried out.
THEOREM WorkerForgetsOnlyItself ==
    WorkQueueSpec => WorkerForgetsItself /\ [](SyncWaitersAgree /\ SleepersAgree)
<1>1. WqInv /\ [WorkQueueNext]_workVars
        => [WorkerForgotten' => WorkerForgotten \/ WqSuspend]_workVars
  BY WqNextKeeps
<1> QED BY <1>1, WqInitial, WqNextPreserves, WqServes, PTL DEF WorkQueueSpec, WorkerForgetsItself

-----------------------------------------------------------------------------
(* Completion.                                                             *)

CpWhere == [p \in {"cp_wait"} |-> suspend_thread]

CpGood ==
    /\ Waits(s, pc, CpWhere) /\ s.asleep \subseteq {Waiter}
    /\ completed => s.asleep = {}

LEMMA CpWhereIs == WaitPlaces(CpWhere) /\ DOMAIN CpWhere = {"cp_wait"}
                   /\ CpWhere["cp_wait"] = suspend_thread /\ suspend_thread \in WaitList
BY BlockingAssumption DEF CpWhere, WaitPlaces

LEMMA CpInitial ==
    ASSUME BlockingInit, CpInit
    PROVE  CpGood
<1> DEFINE n == [w \in DOMAIN CpWhere |-> 0]
<1>1. Counts(CpWhere, n)
  BY DEF Counts
<1>2. Flow(s, pc, CpWhere, n)
  BY <1>1, CpWhereIs, FirstFlow
<1> QED BY <1>2 DEF Flow, CpGood, BlockingInit, CpInit

\* the one who waits, if there is one, is the first of the list
LEMMA CpResumes ==
    ASSUME CpGood, NEW r, r = ResumeOne(s, suspend_thread)
    PROVE  Waits(r, pc, CpWhere) /\ r.asleep = {}
<1>1. /\ Sleepers(s) /\ suspend_thread \in WaitList /\ "cp_wait" \in DOMAIN CpWhere
      /\ CpWhere["cp_wait"] = suspend_thread
  BY CpWhereIs DEF CpGood, Waits
<1>2. Waits(r, pc, CpWhere)
  BY <1>1, ResumeOneIs DEF CpGood
<1>3. \A t \in s.asleep : t \in On(s, suspend_thread)
  BY CpWhereIs DEF CpGood, Waits, AtPlaces
<1>4. CASE s.list[suspend_thread] = << >>
  <2>1. r = s /\ On(s, suspend_thread) = {}
    BY <1>4 DEF ResumeOne, On, ToSet
  <2> QED BY <1>2, <1>3, <2>1
<1>5. CASE s.list[suspend_thread] # << >>
  <2> DEFINE h == Head(s.list[suspend_thread])
  <2>1. h \in s.asleep /\ r = rt_thread_resume(s, h)
    BY <1>1, <1>5, HeadIs DEF ResumeOne, rt_ipc_list_resume
  <2> HIDE DEF h
  <2>2. r.asleep = s.asleep \ {h}
    BY <1>1, <2>1, ResumeIs
  <2> QED BY <1>2, <2>1, <2>2 DEF CpGood
<1> QED BY <1>4, <1>5

LEMMA CpNextPreserves ==
    ASSUME Receiver # {}, CpGood, [CompletionNext]_completionVars
    PROVE  CpGood'
<1>0. Waiter \in Thread /\ Sender \subseteq Thread
  <2>1. Waiter \in Receiver
    BY DEF Waiter
  <2> QED BY <2>1, BlockingAssumption
<1>1. /\ "cp_wait" \in DOMAIN CpWhere /\ CpWhere["cp_wait"] = suspend_thread
      /\ Waits(s, pc, CpWhere) /\ s.asleep \subseteq {Waiter}
  BY CpWhereIs DEF CpGood
<1>2. CASE UNCHANGED completionVars
  <2>1. s' = s /\ pc' = pc /\ completed' = completed
    BY <1>2 DEF completionVars, threadVars
  <2>2. Waits(s', pc', CpWhere)
    BY <1>1, <2>1
  <2> QED BY <2>1, <2>2 DEF CpGood
<1>3. CASE CpWaitNow(Waiter) \/ CpWaitNoTime(Waiter)
  <2>1. s' = s /\ pc' = pc /\ (completed' => completed)
    BY <1>3 DEF CpWaitNow, CpWaitNoTime, completionVars, threadVars
  <2>2. Waits(s', pc', CpWhere)
    BY <1>1, <2>1
  <2> QED BY <2>1, <2>2 DEF CpGood
<1>4. CASE CpWaitSleep(Waiter)
  <2>1. PICK time : SuspendSelf(Waiter, suspend_thread, time, "cp_wait")
    BY <1>4 DEF CpWaitSleep
  <2>2. /\ Waiter \notin s.asleep /\ ~completed' /\ pc' = Placed(pc, Waiter, "cp_wait")
        /\ s' = Suspended(s, CpWhere["cp_wait"], Waiter, time)
    BY <1>1, <1>4, <2>1 DEF CpWaitSleep, Runs, SuspendSelf, Goto, Placed, Suspended
  <2>3. Waits(s', pc', CpWhere) /\ s'.asleep = s.asleep \cup {Waiter}
    BY <1>0, <1>1, <2>2, SuspendIs
  <2> QED BY <1>1, <2>2, <2>3 DEF CpGood
<1>5. CASE CpWaitReturn(Waiter)
  <2>1. /\ Waiter \notin s.asleep /\ s' = [s EXCEPT !.error[Waiter] = "EOK"]
        /\ pc' = Placed(pc, Waiter, "user") /\ ~completed'
    BY <1>5 DEF CpWaitReturn, Runs, Return, Goto, Placed
  <2>2. Waits(s', pc, CpWhere) /\ s'.asleep = s.asleep
    BY <1>0, <1>1, <2>1, Forgets
  <2>3. Waits(s', pc', CpWhere)
    BY <1>0, <2>1, <2>2, Moves
  <2> QED BY <1>1, <2>1, <2>2, <2>3 DEF CpGood
<1>6. ASSUME NEW t \in Sender, CpDone(t)
      PROVE  CpGood'
  <2>1. t \notin s.asleep /\ s' = s /\ completed' = completed
        /\ (pc' = pc \/ pc' = Placed(pc, t, "cp_done"))
    BY <1>6 DEF CpDone, Runs, Goto, Placed
  <2>2. Waits(s, pc', CpWhere)
    BY <1>0, <1>1, <2>1, Moves
  <2> QED BY <1>1, <2>1, <2>2 DEF CpGood
<1>7. ASSUME NEW t \in Sender, CpDoneSection(t)
      PROVE  CpGood'
  <2>1. t \notin s.asleep /\ s' = ResumeOne(s, suspend_thread) /\ pc' = Placed(pc, t, "user")
    BY <1>7 DEF CpDoneSection, Runs, Return, Goto, Placed
  <2>2. Waits(s', pc, CpWhere) /\ s'.asleep = {}
    BY <2>1, CpResumes
  <2>3. Waits(s', pc', CpWhere)
    BY <1>0, <2>1, <2>2, Moves
  <2> QED BY <2>2, <2>3 DEF CpGood
<1>8. CASE IsrCpDone /\ ~completed
  <2>1. s' = ResumeOne(s, suspend_thread) /\ pc' = pc
    BY <1>8 DEF IsrCpDone
  <2>2. Waits(s', pc', CpWhere) /\ s'.asleep = {}
    BY <2>1, CpResumes
  <2> QED BY <2>2 DEF CpGood
<1>9. ASSUME NEW t \in Thread, TimerExpires(t), UNCHANGED completed
      PROVE  CpGood'
  <2>1. t \in s.timer /\ s' = rt_thread_timeout(s, t) /\ pc' = pc
    BY <1>9 DEF TimerExpires
  <2>2. Waits(s', pc, CpWhere) /\ s'.asleep = s.asleep \ {t}
    BY <1>1, <2>1, TimeoutIs
  <2> QED BY <1>9, <2>1, <2>2 DEF CpGood
<1> QED BY <1>2, <1>3, <1>4, <1>5, <1>6, <1>7, <1>8, <1>9 DEF CompletionNext, IsrCpDone

LEMMA CpServes == CpGood => CpNoSleeperWhenDone /\ SleepersAgree
BY DEF CpGood, CpNoSleeperWhenDone, WaitingAt, Waits, Sleepers, SleepersAgree, On

\* For any threads and times: whoever waits on a completion sleeps only while its
\* flag is not set, although rt_completion_done reads the flag with interrupts
\* enabled, and whoever is linked into its list sleeps.
THEOREM CompletionServes ==
    ASSUME Receiver # {}
    PROVE  CompletionSpec => [](CpNoSleeperWhenDone /\ SleepersAgree)
<1>1. CpGood /\ [CompletionNext]_completionVars => CpGood'
  BY CpNextPreserves
<1> QED BY <1>1, CpInitial, CpServes, PTL DEF CompletionSpec

-----------------------------------------------------------------------------
(* The data queue: its ring, whose indices come round.                     *)

\* an index that has come round, and the slot of an index
DqRound(x) == x % IndexRange
DqSlot(x) == x % dq_size

DqLen(d) == DqRound(d.put_index - d.get_index)

\* the items of a ring d, the first to be popped first
DqItems(d) == [i \in 1 .. DqLen(d) |-> d.queue[DqSlot(d.get_index + i - 1)]]

DqType(d) ==
    d \in [put_index : 0 .. IndexRange - 1, get_index : 0 .. IndexRange - 1,
           queue : [0 .. dq_size - 1 -> Message \cup {Nil}], overwritten : BOOLEAN]

DqRing(d) ==
    /\ DqType(d) /\ DqLen(d) <= dq_size
    /\ \A i \in 0 .. DqLen(d) - 1 : d.queue[DqSlot(d.get_index + i)] \in Message

LEMMA DqSizes ==
    /\ dq_size \in Nat \ {0} /\ dq_size \in Int /\ 0 < dq_size
    /\ dq_lwm \in Int /\ 0 <= dq_lwm /\ dq_lwm < dq_size
    /\ IndexRange \in Nat \ {0} /\ IndexRange \in Int /\ IndexRange > dq_size
    /\ IndexRange % dq_size = 0
BY DataQueueAssumption

LEMMA DqRounds ==
    ASSUME NEW x \in Int
    PROVE  /\ DqRound(x) \in 0 .. IndexRange - 1 /\ DqRound(x) \in Int
           /\ 0 <= x /\ x < IndexRange => DqRound(x) = x
           /\ \A y \in Int : /\ DqRound(DqRound(x) - DqRound(y)) = DqRound(x - y)
                             /\ DqRound(DqRound(x) + y) = DqRound(x + y)
<1>1. DqRound(x) \in 0 .. IndexRange - 1 /\ (0 <= x /\ x < IndexRange => DqRound(x) = x)
  BY DqSizes, RingIndex DEF DqRound
<1>2. \A y \in Int : /\ DqRound(DqRound(x) - DqRound(y)) = DqRound(x - y)
                     /\ DqRound(DqRound(x) + y) = DqRound(x + y)
  BY Zenon, DqSizes, RingDifference DEF DqRound
<1> QED BY <1>1, <1>2, DqSizes

LEMMA DqSlots ==
    ASSUME NEW x \in Int
    PROVE  /\ DqSlot(x) \in 0 .. dq_size - 1 /\ DqSlot(x) \in Int
           /\ 0 <= x /\ x < dq_size => DqSlot(x) = x
           /\ \A y \in Int : DqSlot(DqSlot(x) - DqSlot(y)) = DqSlot(x - y)
<1>1. DqSlot(x) \in 0 .. dq_size - 1 /\ (0 <= x /\ x < dq_size => DqSlot(x) = x)
  BY DqSizes, RingIndex DEF DqSlot
<1>2. \A y \in Int : DqSlot(DqSlot(x) - DqSlot(y)) = DqSlot(x - y)
  BY Zenon, DqSizes, RingDifference DEF DqSlot
<1> QED BY <1>1, <1>2, DqSizes

\* an index that comes round goes on at the slot after the last
LEMMA DqComesRound ==
    ASSUME NEW x \in Int, NEW y \in Int
    PROVE  DqSlot(DqRound(x) + y) = DqSlot(x + y)
<1> DEFINE k == IndexRange \div dq_size
           a == x \div IndexRange
           r == x % IndexRange
<1>1. k \in Int /\ IndexRange = k * dq_size
  BY DqSizes
<1>2. a \in Int /\ r \in Int /\ x = a * IndexRange + r
  BY DqSizes
<1>3. r = DqRound(x)
  BY DEF DqRound
<1> HIDE DEF k, a, r
<1> DEFINE u == r + y
           c == u \div dq_size
           v == u % dq_size
<1>4. u \in Int
  BY <1>2
<1> HIDE DEF u
<1>5. c \in Int /\ v \in 0 .. dq_size - 1 /\ u = c * dq_size + v
  BY <1>4, DqSizes
<1>6. v = DqSlot(u)
  BY DEF DqSlot
<1> HIDE DEF c, v
<1> DEFINE z == x + y
           ak == a * k
           q == ak + c
<1>7. z \in Int /\ ak \in Int /\ q \in Int
  BY <1>1, <1>2, <1>5
<1>8. z = q * dq_size + v
  <2> DEFINE ai == a * IndexRange
             cs == c * dq_size
             qs == q * dq_size
  <2>1. /\ ai \in Int /\ cs \in Int /\ v \in Int /\ r \in Int /\ y \in Int
        /\ x = ai + r /\ r + y = cs + v
    BY <1>2, <1>4, <1>5, DqSizes DEF u
  <2>2. ai = ak * dq_size
    BY <1>1, <1>2, DqSizes
  <2>3. qs = ai + cs
    BY <1>5, <1>7, <2>2, DqSizes
  <2>4. z = x + y
    OBVIOUS
  <2> HIDE DEF ai, cs, qs, z, q, ak
  <2>5. z = qs + v
    BY <2>1, <2>3, <2>4
  <2> QED BY <2>5 DEF qs
<1> HIDE DEF z, ak, q
<1>9. z % dq_size = v
  BY <1>5, <1>7, <1>8, DqSizes, RingIndexUnique
<1>10. DqSlot(z) = DqSlot(u)
  BY <1>6, <1>9 DEF DqSlot
<1> QED BY <1>3, <1>10 DEF z, u

\* fewer than dq_size slots further on is another slot
LEMMA DqSlotsDiffer ==
    ASSUME NEW x \in Int, NEW k \in 1 .. dq_size - 1
    PROVE  DqSlot(x + k) # DqSlot(x)
<1>1. k \in Int /\ 0 < k /\ k < dq_size /\ x + k \in Int /\ (x + k) - x = k
  BY DqSizes
<1>2. DqSlot(DqSlot(x + k) - DqSlot(x)) = DqSlot((x + k) - x)
  BY ZenonT(40), <1>1, DqSizes, DqRounds, DqSlots
<1>3. DqSlot(k) = k /\ DqSlot(0) = 0
  BY <1>1, DqSizes, DqRounds, DqSlots
<1>4. DqSlot(x) \in Int
  BY DqSizes, DqRounds, DqSlots
<1> QED BY <1>1, <1>2, <1>3, <1>4

\* a typed ring: how many items it holds, and where the next one goes
LEMMA DqTypeIs ==
    ASSUME NEW d, DqType(d)
    PROVE  /\ d.put_index \in 0 .. IndexRange - 1 /\ d.get_index \in 0 .. IndexRange - 1
           /\ d.put_index \in Int /\ d.get_index \in Int /\ d.overwritten \in BOOLEAN
           /\ d.queue \in [0 .. dq_size - 1 -> Message \cup {Nil}]
           /\ DqLen(d) \in 0 .. IndexRange - 1 /\ DqLen(d) \in Int
           /\ DqSlot(d.put_index) = DqSlot(d.get_index + DqLen(d))
           /\ d.put_index - d.get_index = dq_size => DqLen(d) = dq_size
           /\ d.put_index = d.get_index <=> DqLen(d) = 0
<1> DEFINE p == d.put_index
           g == d.get_index
           e == DqLen(d)
<1>1. /\ p \in 0 .. IndexRange - 1 /\ g \in 0 .. IndexRange - 1 /\ d.overwritten \in BOOLEAN
      /\ d.queue \in [0 .. dq_size - 1 -> Message \cup {Nil}]
  BY DEF DqType
<1>2. p \in Int /\ g \in Int /\ p - g \in Int /\ e = DqRound(p - g)
  BY <1>1, DqSizes DEF DqLen
<1>3. e \in 0 .. IndexRange - 1 /\ e \in Int
  BY <1>2, DqSizes, DqRounds, DqSlots
<1> HIDE DEF p, g, e
<1>4. DqRound(e + g) = p
  <2> DEFINE x == p - g
  <2>1. x \in Int /\ x + g = p
    BY <1>2
  <2> HIDE DEF x
  <2>2. DqRound(DqRound(x) + g) = DqRound(x + g)
    BY <1>2, <2>1, DqSizes, DqRounds, DqSlots
  <2>3. DqRound(p) = p
    BY <1>1, <1>2, DqSizes, DqRounds, DqSlots
  <2> QED BY <1>2, <2>1, <2>2, <2>3 DEF x
<1>5. DqSlot(p) = DqSlot(g + e)
  <2> DEFINE x == e + g
  <2>1. x \in Int /\ x = g + e /\ DqRound(x) = p
    BY <1>2, <1>3, <1>4
  <2> HIDE DEF x
  <2>2. DqSlot(DqRound(x) + 0) = DqSlot(x + 0)
    BY <2>1, DqComesRound
  <2>3. p + 0 = p /\ x + 0 = x
    BY <1>2, <2>1
  <2> QED BY <2>1, <2>2, <2>3
<1>6. p - g = dq_size => e = dq_size
  BY <1>2, DqSizes, DqRounds, DqSlots
<1>7. p = g <=> e = 0
  <2>1. ASSUME p = g PROVE e = 0
    <3>1. p - g = 0 /\ DqRound(0) = 0
      BY <1>2, <2>1, DqSizes, DqRounds, DqSlots
    <3> QED BY <1>2, <3>1
  <2>2. ASSUME e = 0 PROVE p = g
    <3>1. e + g = g /\ 0 <= g /\ g < IndexRange
      BY <1>1, <1>2, <2>2, DqSizes
    <3>2. DqRound(g) = g
      BY Zenon, <1>2, <3>1, DqRounds
    <3> QED BY <1>4, <3>1, <3>2
  <2> QED BY <2>1, <2>2
<1> QED BY <1>1, <1>2, <1>3, <1>5, <1>6, <1>7 DEF p, g, e

LEMMA DqRingIs ==
    ASSUME NEW d, DqRing(d)
    PROVE  DqType(d) /\ DqLen(d) \in 0 .. dq_size /\ DqLen(d) \in Int
BY DqTypeIs, DqSizes DEF DqRing

LEMMA DqItemsAre ==
    ASSUME NEW d, DqRing(d)
    PROVE  /\ DqItems(d) \in Seq(Message) /\ Len(DqItems(d)) = DqLen(d)
           /\ \A i \in 1 .. DqLen(d) :
                  DqItems(d)[i] = d.queue[DqSlot(d.get_index + (i - 1))]
<1>1. DqLen(d) \in Nat /\ d.get_index \in Int /\ DqLen(d) \in Int
  BY DqRingIs, DqTypeIs, DqSizes
<1>2. ASSUME NEW i \in 1 .. DqLen(d)
      PROVE  /\ DqItems(d)[i] = d.queue[DqSlot(d.get_index + (i - 1))]
             /\ DqItems(d)[i] \in Message
  <2>1. i - 1 \in 0 .. DqLen(d) - 1 /\ d.get_index + i - 1 = d.get_index + (i - 1)
    BY <1>1
  <2>2. DqItems(d)[i] = d.queue[DqSlot(d.get_index + (i - 1))]
    BY <2>1 DEF DqItems
  <2> QED BY <2>1, <2>2 DEF DqRing
<1>3. DOMAIN DqItems(d) = 1 .. DqLen(d) /\ DqItems(d) = [i \in 1 .. DqLen(d) |-> DqItems(d)[i]]
  BY DEF DqItems
<1>4. DqItems(d) \in [1 .. DqLen(d) -> Message]
  BY <1>2, <1>3
<1> HIDE DEF DqItems
<1>5. DqItems(d) \in Seq(Message) /\ Len(DqItems(d)) = DqLen(d)
  BY <1>1, <1>3, <1>4
<1> QED BY <1>2, <1>5

\* what a push and a pop make of a ring
DqWith(d, v) ==
    [put_index |-> DqRound(d.put_index + 1), get_index |-> d.get_index,
     queue |-> [d.queue EXCEPT ![DqSlot(d.put_index)] = v],
     overwritten |-> d.overwritten \/ DqLen(d) = dq_size]

DqWithout(d) ==
    [put_index |-> d.put_index, get_index |-> DqRound(d.get_index + 1),
     queue |-> d.queue, overwritten |-> d.overwritten]

\* Both keep the type, whatever the ring holds.
LEMMA DqStaysTyped ==
    ASSUME NEW d, DqType(d)
    PROVE  /\ \A v \in Message : DqType(DqWith(d, v))
           /\ DqType(DqWithout(d))
<1>1. /\ d.put_index + 1 \in Int /\ d.get_index + 1 \in Int
      /\ d.put_index \in 0 .. IndexRange - 1 /\ d.get_index \in 0 .. IndexRange - 1
      /\ d.queue \in [0 .. dq_size - 1 -> Message \cup {Nil}] /\ d.overwritten \in BOOLEAN
  BY DqTypeIs
<1>2. DqRound(d.put_index + 1) \in 0 .. IndexRange - 1
      /\ DqRound(d.get_index + 1) \in 0 .. IndexRange - 1
  BY <1>1, DqSizes, DqRounds, DqSlots
<1>3. ASSUME NEW v \in Message PROVE DqType(DqWith(d, v))
  <2> DEFINE q == [d.queue EXCEPT ![DqSlot(d.put_index)] = v]
             o == d.overwritten \/ DqLen(d) = dq_size
             i == DqRound(d.put_index + 1)
  <2>1. q \in [0 .. dq_size - 1 -> Message \cup {Nil}] /\ o \in BOOLEAN
        /\ i \in 0 .. IndexRange - 1
    BY <1>1, <1>2
  <2>2. DqWith(d, v) = [put_index |-> i, get_index |-> d.get_index, queue |-> q,
                        overwritten |-> o]
    BY DEF DqWith
  <2> HIDE DEF q, o, i
  <2> QED BY <1>1, <2>1, <2>2 DEF DqType
<1>4. DqType(DqWithout(d))
  <2> DEFINE i == DqRound(d.get_index + 1)
  <2>1. DqWithout(d) = [put_index |-> d.put_index, get_index |-> i, queue |-> d.queue,
                        overwritten |-> d.overwritten] /\ i \in 0 .. IndexRange - 1
    BY <1>2 DEF DqWithout
  <2> HIDE DEF i
  <2> QED BY <1>1, <2>1 DEF DqType
<1> QED BY <1>3, <1>4

\* An item goes behind the others.
LEMMA DqStores ==
    ASSUME NEW d, DqRing(d), DqLen(d) # dq_size, NEW v \in Message, NEW z, z = DqWith(d, v)
    PROVE  /\ DqRing(z) /\ DqLen(z) = DqLen(d) + 1
           /\ DqItems(z) = Append(DqItems(d), v)
<1> DEFINE o == d.get_index
           e == DqLen(d)
           h == DqSlot(d.put_index)
<1>1. /\ o \in 0 .. IndexRange - 1 /\ o \in Int /\ d.put_index \in Int /\ e \in 0 .. dq_size
      /\ d.queue \in [0 .. dq_size - 1 -> Message \cup {Nil}]
      /\ h = DqSlot(o + e) /\ e = DqRound(d.put_index - o)
  BY DqRingIs, DqTypeIs DEF DqLen
<1>2. e \in 0 .. dq_size - 1 /\ e \in Int /\ e + 1 \in 0 .. dq_size /\ o + e \in Int
  BY <1>1, DqSizes
<1>3. h \in 0 .. dq_size - 1
  BY <1>2, <1>1, DqSizes, DqRounds, DqSlots
<1>4. /\ z.put_index = DqRound(d.put_index + 1) /\ z.get_index = o
      /\ z.queue = [d.queue EXCEPT ![h] = v] /\ DqType(z)
  BY DqRingIs, DqStaysTyped DEF DqWith
<1>5. z.queue[DqSlot(o + e)] = v /\ z.queue \in [0 .. dq_size - 1 -> Message \cup {Nil}]
  BY Zenon, <1>1, <1>3, <1>4, DqTypeIs
<1> HIDE DEF e, o, h
<1>20. DqLen(z) = e + 1
  <2> DEFINE p1 == d.put_index + 1
             x == d.put_index - o
  <2>0. d.put_index \in Int /\ o \in Int /\ 0 <= o /\ o < IndexRange
    BY <1>1, DqSizes
  <2>00. DqRound(o) = o
    BY Zenon, <2>0, DqRounds
  <2>1. p1 \in Int /\ x \in Int /\ p1 - o = x + 1 /\ DqRound(o) = o
    BY <2>0, <2>00
  <2>2. DqLen(z) = DqRound(DqRound(p1) - DqRound(o))
    BY <1>4, <2>1 DEF DqLen
  <2> HIDE DEF p1, x
  <2>3. DqRound(DqRound(p1) - DqRound(o)) = DqRound(p1 - o)
    BY <1>1, <2>1, DqSizes, DqRounds, DqSlots
  <2>4. DqRound(DqRound(x) + 1) = DqRound(x + 1)
    BY <2>1, DqSizes, DqRounds, DqSlots
  <2>5. e = DqRound(x) /\ DqRound(e + 1) = e + 1
    <3>1. e = DqRound(x)
      BY <1>1 DEF x
    <3>2. e + 1 \in Int /\ 0 <= e + 1 /\ e + 1 < IndexRange
      BY <1>2, DqSizes
    <3> QED BY <3>1, <3>2, DqSizes, DqRounds, DqSlots
  <2> QED BY <2>1, <2>2, <2>3, <2>4, <2>5
<1>6. ASSUME NEW i \in 0 .. e - 1
      PROVE  z.queue[DqSlot(o + i)] = d.queue[DqSlot(o + i)]
  <2> DEFINE x == o + i
             k == e - i
  <2>1. x \in Int /\ k \in 1 .. dq_size - 1 /\ x + k = o + e
    <3>1. o \in Int /\ e \in Int /\ e <= dq_size - 1
      BY <1>1, <1>2, DqSizes
    <3> QED BY <3>1, DqSizes
  <2>2. DqSlot(x + k) # DqSlot(x) /\ DqSlot(x) \in 0 .. dq_size - 1
    <3> HIDE DEF x, k
    <3> QED BY <2>1, DqSlotsDiffer, DqSizes, DqRounds, DqSlots
  <2>3. h # DqSlot(x)
    BY <1>1, <2>1, <2>2
  <2> HIDE DEF x, k
  <2>4. z.queue[DqSlot(x)] = d.queue[DqSlot(x)]
    BY Zenon, <1>1, <1>4, <2>2, <2>3
  <2> QED BY <2>4 DEF x
<1>7. \A i \in 0 .. (e + 1) - 1 : z.queue[DqSlot(o + i)] \in Message
  <2> TAKE i \in 0 .. (e + 1) - 1
  <2>1. i = e \/ i \in 0 .. e - 1
    BY <1>2
  <2>2. \A k \in 0 .. e - 1 : d.queue[DqSlot(o + k)] \in Message
    BY DEF DqRing, e, o
  <2> QED BY <1>5, <1>6, <2>1, <2>2
<1>8. DqRing(z)
  BY <1>2, <1>4, <1>7, <1>20 DEF DqRing
<1>9. DqItems(z) = Append(DqItems(d), v)
  <2>1. /\ DqItems(d) \in Seq(Message) /\ Len(DqItems(d)) = e
        /\ \A i \in 1 .. e : DqItems(d)[i] = d.queue[DqSlot(o + (i - 1))]
    BY DqItemsAre DEF e, o
  <2>2. /\ DqItems(z) \in Seq(Message) /\ Len(DqItems(z)) = e + 1
        /\ \A i \in 1 .. e + 1 : DqItems(z)[i] = z.queue[DqSlot(o + (i - 1))]
    <3>1. /\ DqItems(z) \in Seq(Message) /\ Len(DqItems(z)) = DqLen(z)
          /\ \A i \in 1 .. DqLen(z) :
                 DqItems(z)[i] = z.queue[DqSlot(z.get_index + (i - 1))]
      BY <1>8, DqItemsAre
    <3> QED BY <1>4, <1>20, <3>1
  <2> DEFINE A == Append(DqItems(d), v)
  <2>3. A \in Seq(Message) /\ Len(A) = e + 1 /\ A[e + 1] = v
        /\ \A i \in 1 .. e : A[i] = DqItems(d)[i]
    BY <1>2, <2>1
  <2>4. ASSUME NEW i \in 1 .. e + 1 PROVE DqItems(z)[i] = A[i]
    <3>1. CASE i = e + 1
      <4>1. i - 1 = e
        BY <1>2, <3>1
      <4> QED BY <1>5, <2>2, <2>3, <3>1, <4>1
    <3>2. CASE i # e + 1
      <4>1. i \in 1 .. e /\ i - 1 \in 0 .. e - 1
        BY <1>2, <3>2
      <4>2. A[i] = d.queue[DqSlot(o + (i - 1))]
        BY <2>1, <2>3, <4>1
      <4>3. z.queue[DqSlot(o + (i - 1))] = d.queue[DqSlot(o + (i - 1))]
        BY <1>6, <4>1
      <4> QED BY <2>2, <4>2, <4>3
    <3> QED BY Zenon, <3>1, <3>2
  <2> HIDE DEF A
  <2>5. DqItems(z) = A
    BY <2>2, <2>3, <2>4
  <2> QED BY <2>5 DEF A
<1> QED BY <1>8, <1>9, <1>20 DEF e

\* The first item goes.
LEMMA DqTakes ==
    ASSUME NEW d, DqRing(d), DqLen(d) # 0, NEW z, z = DqWithout(d),
           NEW v, v = d.queue[DqSlot(d.get_index)]
    PROVE  /\ DqRing(z) /\ DqLen(z) = DqLen(d) - 1
           /\ DqItems(d) # << >> /\ DqItems(z) = Tail(DqItems(d))
           /\ v \in Message /\ Head(DqItems(d)) = v
<1> DEFINE o == d.get_index
           e == DqLen(d)
           g == z.get_index
<1>1. /\ o \in Int /\ d.put_index \in 0 .. IndexRange - 1 /\ d.put_index \in Int
      /\ e \in 0 .. dq_size /\ e \in Int /\ e = DqRound(d.put_index - o)
      /\ d.queue \in [0 .. dq_size - 1 -> Message \cup {Nil}]
  BY DqRingIs, DqTypeIs DEF DqLen
<1>2. e \in 1 .. dq_size /\ e - 1 \in 0 .. dq_size /\ e - 1 \in Nat
  BY <1>1, DqSizes
<1>3. /\ z.put_index = d.put_index /\ g = DqRound(o + 1) /\ z.queue = d.queue
      /\ DqType(z)
  BY DqRingIs, DqStaysTyped DEF DqWithout
<1>4. \A i \in 0 .. e - 1 : d.queue[DqSlot(o + i)] \in Message
  BY DEF DqRing
<1> HIDE DEF e, g, o
<1>20. \A i \in Int : DqSlot(g + i) = DqSlot((o + 1) + i)
  <2> DEFINE o1 == o + 1
  <2>1. o1 \in Int /\ g = DqRound(o1)
    BY <1>1, <1>3
  <2> HIDE DEF o1
  <2>2. \A i \in Int : DqSlot(g + i) = DqSlot(o1 + i)
    BY <2>1, DqComesRound
  <2> QED BY <2>2 DEF o1
<1>21. DqLen(z) = e - 1
  <2> DEFINE o1 == o + 1
             p == d.put_index
             x == d.put_index - o
             y == - 1
  <2>0. p \in Int /\ o \in Int /\ 0 <= p /\ p < IndexRange
    BY <1>1, DqSizes
  <2>00. DqRound(p) = p
    BY Zenon, <2>0, DqRounds
  <2>1. /\ o1 \in Int /\ p \in Int /\ x \in Int /\ y \in Int /\ p - o1 = x + y
        /\ DqRound(p) = p
    BY <2>0, <2>00
  <2>2. DqLen(z) = DqRound(DqRound(p) - DqRound(o1))
    BY <1>3, <2>1 DEF DqLen, g
  <2>3. e = DqRound(x) /\ e + y = e - 1
    BY <1>1
  <2> HIDE DEF o1, p, x, y
  <2>4. DqRound(DqRound(p) - DqRound(o1)) = DqRound(p - o1)
    BY <2>1, DqSizes, DqRounds, DqSlots
  <2>5. DqRound(DqRound(x) + y) = DqRound(x + y)
    BY <2>1, DqSizes, DqRounds, DqSlots
  <2>6. DqRound(e - 1) = e - 1
    <3>1. e - 1 \in Int /\ 0 <= e - 1 /\ e - 1 < IndexRange
      BY <1>1, <1>2, DqSizes
    <3> QED BY <3>1, DqSizes, DqRounds, DqSlots
  <2> QED BY <2>1, <2>2, <2>3, <2>4, <2>5, <2>6
<1>5. \A i \in 0 .. (e - 1) - 1 : z.queue[DqSlot(g + i)] \in Message
  <2> TAKE i \in 0 .. (e - 1) - 1
  <2>1. i \in Int /\ i + 1 \in 0 .. e - 1 /\ (o + 1) + i = o + (i + 1)
    BY <1>1
  <2> QED BY <1>3, <1>4, <1>20, <2>1
<1>6. DqRing(z)
  BY <1>1, <1>2, <1>3, <1>5, <1>21 DEF DqRing, g
<1>7. /\ DqItems(d) \in Seq(Message) /\ Len(DqItems(d)) = e
      /\ \A i \in 1 .. e : DqItems(d)[i] = d.queue[DqSlot(o + (i - 1))]
  BY DqItemsAre DEF e, o
<1>8. /\ DqItems(z) \in Seq(Message) /\ Len(DqItems(z)) = e - 1
      /\ \A i \in 1 .. e - 1 : DqItems(z)[i] = d.queue[DqSlot((o + 1) + (i - 1))]
  <2>1. /\ DqItems(z) \in Seq(Message) /\ Len(DqItems(z)) = DqLen(z)
        /\ \A i \in 1 .. DqLen(z) :
               DqItems(z)[i] = z.queue[DqSlot(g + (i - 1))]
    BY <1>6, DqItemsAre DEF g
  <2>2. ASSUME NEW i \in 1 .. e - 1
        PROVE  DqItems(z)[i] = d.queue[DqSlot((o + 1) + (i - 1))]
    <3>1. i - 1 \in Int
      BY <1>1
    <3> QED BY <1>3, <1>20, <1>21, <2>1, <3>1
  <2> QED BY <1>21, <2>1, <2>2
<1>9. DqItems(d) # << >> /\ Head(DqItems(d)) = DqItems(d)[1]
  BY <1>2, <1>7
<1>10. DqItems(d)[1] = v /\ v \in Message
  <2>1. 1 \in 1 .. e /\ 1 - 1 = 0 /\ 0 \in 0 .. e - 1 /\ o + 0 = o
    BY <1>1, <1>2
  <2> QED BY <1>4, <1>7, <2>1 DEF o
<1>11. DqItems(z) = Tail(DqItems(d))
  <2> DEFINE T == Tail(DqItems(d))
  <2>1. T \in Seq(Message) /\ Len(T) = e - 1 /\ \A i \in 1 .. e - 1 : T[i] = DqItems(d)[i + 1]
    BY <1>2, <1>7, <1>9
  <2>2. ASSUME NEW i \in 1 .. e - 1 PROVE DqItems(z)[i] = T[i]
    <3>1. /\ i + 1 \in 1 .. e /\ (i + 1) - 1 = i /\ (o + 1) + (i - 1) = o + i
      BY <1>1, <1>2
    <3>2. T[i] = d.queue[DqSlot(o + i)]
      BY <1>7, <2>1, <3>1
    <3> QED BY Zenon, <1>8, <3>1, <3>2
  <2> HIDE DEF T
  <2>3. DqItems(z) = T
    BY <1>2, <1>8, <2>1, <2>2
  <2> QED BY <2>3 DEF T
<1> QED BY <1>6, <1>9, <1>10, <1>11, <1>21 DEF e

-----------------------------------------------------------------------------
(* The data queue: its invariant, and the channel it implements.           *)

DqWhere ==
    [w \in {"dq_pop_wait", "dq_push_wait"} |->
        IF w = "dq_pop_wait" THEN suspend_thread ELSE suspend_sender_thread]

\* items for those who pop; those who push wait while the low-water mark is exceeded;
\* once an item has been overwritten nobody is promised anything
DqThere(d) ==
    [w \in DOMAIN DqWhere |->
        IF d.overwritten THEN 0
        ELSE IF w = "dq_pop_wait" THEN DqLen(d) ELSE dq_lwm + 1 - DqLen(d)]

\* what is there while an item is being stored, and while the first one is being taken
DqLeft(d) ==
    [w \in DOMAIN DqWhere |->
        IF d.overwritten \/ DqLen(d) = dq_size THEN 0
        ELSE IF w = "dq_pop_wait" THEN DqLen(d) ELSE dq_lwm - DqLen(d)]

DqAfter(d) ==
    [w \in DOMAIN DqWhere |->
        IF d.overwritten THEN 0
        ELSE IF w = "dq_pop_wait" THEN DqLen(d) - 1
        ELSE IF DqLen(d) - 1 <= dq_lwm THEN dq_lwm + 1 - DqLen(d)
        ELSE dq_lwm + 2 - DqLen(d)]

\* the places of calls that carry an item
DqCarries == {"dq_push", "dq_push_wait"}

\* whoever has popped has an item
DqHolds(p, lo) == \A t \in Receiver : p[t] = "dq_popped" => lo[t].val # Nil

DqInv ==
    /\ Flow(s, pc, DqWhere, DqThere(dq)) /\ Locals(pc, loc, DqCarries)
    /\ DqType(dq) /\ (dq.overwritten \/ (DqRing(dq) /\ DqHolds(pc, loc)))

DqInbox(p, lo) == [t \in Receiver |-> IF p[t] = "dq_popped" THEN lo[t].val ELSE Nil]

\* the sequence that stands for the channel
DqPending == [i \in 1 .. DqCount |-> dq.queue[(dq.get_index + i - 1) % dq_size]]

LEMMA DqPlace ==
    /\ DOMAIN DqWhere = {"dq_pop_wait", "dq_push_wait"}
    /\ DqWhere["dq_pop_wait"] = suspend_thread
    /\ DqWhere["dq_push_wait"] = suspend_sender_thread
    /\ WaitPlaces(DqWhere)
BY BlockingAssumption DEF DqWhere, WaitPlaces

LEMMA DqThereIs ==
    ASSUME NEW d, DqType(d)
    PROVE  /\ Counts(DqWhere, DqThere(d)) /\ DqLen(d) \in Int
           /\ d.overwritten => \A w \in DOMAIN DqWhere : DqThere(d)[w] = 0
           /\ ~d.overwritten => /\ DqThere(d)["dq_pop_wait"] = DqLen(d)
                                /\ DqThere(d)["dq_push_wait"] = dq_lwm + 1 - DqLen(d)
<1>1. DqLen(d) \in Int /\ dq_lwm \in Int
  BY DqTypeIs, DqSizes
<1> QED BY <1>1, DqPlace DEF Counts, DqThere

\* Of what is there, some is gone, or all.
LEMMA FlowNone ==
    ASSUME NEW j, NEW p, NEW where, NEW n, Flow(j, p, where, n), NEW m, Counts(where, m),
           \A w \in DOMAIN where : m[w] <= n[w] \/ m[w] <= 0
    PROVE  Flow(j, p, where, m)
<1>1. ASSUME NEW w \in DOMAIN where
      PROVE  Enough(Asleep(j, p, w), Awake(j, p, w), m[w])
  <2>1. Enough(Asleep(j, p, w), Awake(j, p, w), n[w]) /\ n[w] \in Int /\ m[w] \in Int
    BY DEF Flow, Counts
  <2>2. Cardinality(Awake(j, p, w)) \in Nat
    BY AwakeFinite
  <2> QED BY <2>1, <2>2 DEF Enough
<1> QED BY <1>1 DEF Flow

LEMMA DqCountIs ==
    /\ DqCount = DqLen(dq) /\ DqPending = DqItems(dq)
    /\ DqPending' = DqItems(dq')
<1>1. DqCount = DqLen(dq) /\ DqCount' = DqLen(dq')
  BY DEF DqCount, DqLen, DqRound
<1> QED BY <1>1 DEF DqPending, DqItems, DqSlot

\* the steps of the channel
LEMMA DqSendsThen ==
    ASSUME DqRing(dq), DqRing(dq'), NEW v \in Message, DqLen(dq) # dq_size,
           DqItems(dq') = Append(DqItems(dq), v), DqInbox(pc', loc') = DqInbox(pc, loc)
    PROVE  DqChannel!Next
<1>1. Len(DqItems(dq)) < dq_size
  BY DqItemsAre, DqRingIs, DqSizes
<1>2. DqItems(dq) = DqPending /\ DqItems(dq') = DqPending'
  BY Zenon, DqCountIs
<1>3. DqChannel!Send(v)
  BY Zenon, <1>1, <1>2 DEF DqChannel!Send, DqInbox, DqPending
<1> QED BY <1>3 DEF DqChannel!Next

LEMMA DqReceivesThen ==
    ASSUME DqRing(dq), DqRing(dq'), NEW t \in Receiver, DqItems(dq) # << >>,
           DqItems(dq') = Tail(DqItems(dq)), pc[t] # "dq_popped",
           DqInbox(pc', loc') = [DqInbox(pc, loc) EXCEPT ![t] = Head(DqItems(dq))]
    PROVE  DqChannel!Next
<1>1. DqItems(dq) = DqPending /\ DqItems(dq') = DqPending'
  BY Zenon, DqCountIs
<1>2. DqInbox(pc, loc)[t] = Nil
  BY DEF DqInbox
<1>3. DqChannel!Receive(t)
  BY Zenon, <1>1, <1>2 DEF DqChannel!Receive, DqInbox, DqPending
<1> QED BY <1>3 DEF DqChannel!Next

LEMMA DqConsumesThen ==
    ASSUME NEW t \in Receiver, DqInbox(pc, loc)[t] # Nil, dq' = dq,
           DqInbox(pc', loc') = [DqInbox(pc, loc) EXCEPT ![t] = Nil]
    PROVE  DqChannel!Next
<1>1. DqPending' = DqPending
  BY DEF DqPending, DqCount
<1>2. DqChannel!Consume(t)
  BY <1>1 DEF DqChannel!Consume, DqInbox, DqPending
<1> QED BY <1>2 DEF DqChannel!Next

LEMMA DqStutters ==
    ASSUME dq' = dq, DqInbox(pc', loc') = DqInbox(pc, loc)
    PROVE  UNCHANGED DqChannel!vars
BY DEF DqChannel!vars, DqCount, DqInbox

\* Nobody's inbox changes when a thread goes from one other place to another.
LEMMA DqInboxStill ==
    ASSUME EachThread(pc), NEW t \in Thread, NEW x, pc' = Placed(pc, t, x),
           x # "dq_popped", pc[t] # "dq_popped",
           \A u \in Thread \ {t} : loc'[u].val = loc[u].val
    PROVE  /\ DqInbox(pc', loc') = DqInbox(pc, loc)
           /\ DqHolds(pc, loc) => DqHolds(pc', loc')
<1>1. Receiver \subseteq Thread
  BY BlockingAssumption
<1>2. \A u \in Thread : pc'[u] = IF u = t THEN x ELSE pc[u]
  BY DEF EachThread, Placed
<1>3. DqInbox(pc', loc') = DqInbox(pc, loc)
  BY <1>1, <1>2 DEF DqInbox
<1>4. DqHolds(pc, loc) => DqHolds(pc', loc')
  BY <1>1, <1>2 DEF DqHolds
<1> QED BY <1>3, <1>4

\* A step keeps the invariant, and is one of the channel, or none, or overwrites.
DqGood == DqInv' /\ (DqChannel!Next \/ dq.overwritten' \/ UNCHANGED DqChannel!vars)

\* what every step starts from
LEMMA DqFacts ==
    ASSUME DqInv
    PROVE  /\ Flow(s, pc, DqWhere, DqThere(dq)) /\ Waits(s, pc, DqWhere)
           /\ Locals(pc, loc, DqCarries) /\ EachThread(pc) /\ DqType(dq)
           /\ Counts(DqWhere, DqThere(dq)) /\ DqLen(dq) \in Int
           /\ "user" \notin DOMAIN DqWhere /\ "user" \notin DqCarries
           /\ "dq_popped" \notin DOMAIN DqWhere
BY DqPlace, DqTypeIs DEF DqInv, Flow, Waits, DqCarries

\* a step that leaves the queue alone
LEMMA DqKeeps ==
    ASSUME DqInv, dq' = dq, Flow(s', pc', DqWhere, DqThere(dq)),
           Locals(pc', loc', DqCarries), DqHolds(pc, loc) => DqHolds(pc', loc')
    PROVE  DqInv'
BY DEF DqInv

LEMMA DqBegins ==
    ASSUME DqInv, NEW t \in Thread, NEW label \in {"dq_push", "dq_pop"}, NEW time \in Time,
           NEW v \in Message \cup {Nil}, label = "dq_push" => v \in Message,
           Begin(t, label, time, v), dq' = dq
    PROVE  DqGood
<1>1. /\ Waits(s, pc, DqWhere) /\ Locals(pc, loc, DqCarries) /\ EachThread(pc)
      /\ label \notin DOMAIN DqWhere /\ "user" \notin DOMAIN DqWhere
      /\ label \in DqCarries => v \in Message
  BY DqFacts, DqPlace DEF DqCarries
<1>2. /\ Waits(s', pc', DqWhere) /\ Locals(pc', loc', DqCarries) /\ SameSleepers(DqWhere)
      /\ pc[t] = "user" /\ pc' = Placed(pc, t, label)
      /\ \A u \in Thread \ {t} : loc'[u] = loc[u]
  BY <1>1, BeginIs
<1>3. Flow(s', pc', DqWhere, DqThere(dq))
  BY <1>2, FlowTimes DEF DqInv, SameSleepers
<1>4. DqInbox(pc', loc') = DqInbox(pc, loc) /\ (DqHolds(pc, loc) => DqHolds(pc', loc'))
  BY <1>1, <1>2, DqInboxStill
<1>5. DqInv'
  BY <1>2, <1>3, <1>4, DqKeeps
<1> QED BY <1>4, <1>5, DqStutters DEF DqGood

\* Somebody who does not wait goes to a place where nobody waits, and nothing
\* comes or goes.
LEMMA DqMoves ==
    ASSUME DqInv, NEW t \in Thread, t \notin s.asleep, pc[t] \notin DOMAIN DqWhere,
           NEW x, x \notin DOMAIN DqWhere, x \notin DqCarries, pc' = Placed(pc, t, x),
           Locals(pc', loc', DqCarries), s' = s, dq' = dq,
           DqHolds(pc, loc) => DqHolds(pc', loc')
    PROVE  DqInv'
<1>1. \A w \in DOMAIN DqWhere : Takes(pc, t, w, DqThere(dq)[w], DqThere(dq)[w])
  BY DqFacts DEF Takes, Counts
<1>2. Flow(s', pc', DqWhere, DqThere(dq))
  <2> DEFINE n == DqThere(dq)
  <2>1. /\ Flow(s, pc, DqWhere, n) /\ \A w \in DOMAIN DqWhere : Takes(pc, t, w, n[w], n[w])
        /\ Counts(DqWhere, n)
    BY <1>1, DqFacts
  <2> HIDE DEF n
  <2>2. Flow(s, pc', DqWhere, n)
    BY <2>1, FlowGoes
  <2> QED BY <2>2 DEF n
<1> QED BY <1>2, DqKeeps

\* A call returns with nothing.
LEMMA DqReturns ==
    ASSUME DqInv, NEW t \in Thread, pc[t] \in {"dq_push", "dq_pop"}, t \notin s.asleep,
           Return(t), s' = s, dq' = dq
    PROVE  DqGood
<1>1. /\ Locals(pc', loc', DqCarries) /\ pc' = Placed(pc, t, "user")
      /\ \A u \in Thread \ {t} : loc'[u] = loc[u]
  BY DqFacts, ReturnIs
<1> DEFINE x == "user"
<1>2. /\ pc[t] # "dq_popped" /\ x # "dq_popped" /\ pc' = Placed(pc, t, x)
      /\ x \notin DOMAIN DqWhere /\ x \notin DqCarries /\ pc[t] \notin DOMAIN DqWhere
  BY <1>1, DqFacts, DqPlace
<1> HIDE DEF x
<1>3. DqInbox(pc', loc') = DqInbox(pc, loc) /\ (DqHolds(pc, loc) => DqHolds(pc', loc'))
  BY <1>1, <1>2, DqFacts, DqInboxStill
<1>4. DqInv'
  BY <1>1, <1>2, <1>3, DqMoves
<1> QED BY <1>3, <1>4, DqStutters DEF DqGood

\* A call waits at the place w, where nothing is there for it.
LEMMA DqWaits ==
    ASSUME DqInv, NEW t \in Thread, NEW w \in DOMAIN DqWhere, t \notin s.asleep,
           NEW call \in {"dq_push", "dq_pop"}, pc[t] = call \/ pc[t] = w,
           w = "dq_push_wait" <=> call = "dq_push",
           NEW time \in Time, SuspendSelf(t, DqWhere[w], time, w), dq' = dq,
           DqThere(dq)[w] <= 0
    PROVE  DqGood
<1>1. /\ Flow(s, pc, DqWhere, DqThere(dq)) /\ Locals(pc, loc, DqCarries) /\ EachThread(pc)
      /\ Waits(s, pc, DqWhere) /\ (w \in DqCarries => pc[t] \in DqCarries)
      /\ pc[t] # "dq_popped" /\ w # "dq_popped"
      /\ \A v \in DOMAIN DqWhere \ {w} : pc[t] # v
  BY DqFacts, DqPlace DEF DqCarries
<1>2. /\ Locals(pc', loc', DqCarries) /\ pc' = Placed(pc, t, w)
      /\ \A u \in Thread : loc'[u].val = loc[u].val
  BY <1>1, SuspendSelfIs
<1>3. s' = Suspended(s, DqWhere[w], t, time)
  BY DEF SuspendSelf, Suspended
<1>4. Flow(s', pc', DqWhere, DqThere(dq))
  <2> DEFINE n == DqThere(dq)
             r == s'
  <2>1. Flow(s, pc, DqWhere, n) /\ n[w] <= 0 /\ r = Suspended(s, DqWhere[w], t, time)
    BY <1>1, <1>3
  <2> HIDE DEF n, r
  <2>2. Flow(r, pc', DqWhere, n)
    BY <1>1, <1>2, <2>1, FlowSuspends
  <2> QED BY <2>2 DEF n, r
<1>5. DqInbox(pc', loc') = DqInbox(pc, loc) /\ (DqHolds(pc, loc) => DqHolds(pc', loc'))
  BY <1>1, <1>2, DqInboxStill
<1>6. DqInv'
  BY <1>2, <1>4, <1>5, DqKeeps
<1> QED BY <1>5, <1>6, DqStutters DEF DqGood

LEMMA DqFails ==
    ASSUME DqInv, NEW t \in Thread, NEW w \in DOMAIN DqWhere, WaitFails(t, w), dq' = dq
    PROVE  DqGood
<1>1. /\ Waits(s', pc', DqWhere) /\ Locals(pc', loc', DqCarries) /\ SameSleepers(DqWhere)
      /\ pc' = Placed(pc, t, "user") /\ pc[t] = w /\ w # "dq_popped"
      /\ \A u \in Thread \ {t} : loc'[u] = loc[u]
  BY DqFacts, DqPlace, WaitFailsIs
<1>2. Flow(s', pc', DqWhere, DqThere(dq))
  BY <1>1, DqFacts, FlowTimes DEF SameSleepers
<1> DEFINE x == "user"
<1>3. x # "dq_popped" /\ pc' = Placed(pc, t, x)
  BY <1>1
<1> HIDE DEF x
<1>4. DqInbox(pc', loc') = DqInbox(pc, loc) /\ (DqHolds(pc, loc) => DqHolds(pc', loc'))
  BY <1>1, <1>3, DqFacts, DqInboxStill
<1>5. DqInv'
  BY <1>1, <1>2, <1>4, DqKeeps
<1> QED BY <1>4, <1>5, DqStutters DEF DqGood

LEMMA DqExpires ==
    ASSUME DqInv, NEW t \in Thread, TimerExpires(t), dq' = dq
    PROVE  DqGood
<1>1. /\ Waits(s', pc', DqWhere) /\ pc' = pc /\ loc' = loc
      /\ \A v : /\ Asleep(s', pc', v) \subseteq Asleep(s, pc, v)
                /\ Awake(s', pc', v) = Awake(s, pc, v)
  BY DqFacts, TimerExpiresIs
<1>2. Flow(s', pc', DqWhere, DqThere(dq))
  BY <1>1, DqFacts, FlowTimes
<1>3. DqInv'
  BY <1>1, <1>2, DqFacts, DqKeeps
<1> QED BY <1>1, <1>3, DqStutters DEF DqGood

\* An item is stored, by whoever is at p, and one who pops is resumed.
LEMMA DqStoresOne ==
    ASSUME DqType(dq), dq.overwritten \/ DqRing(dq), NEW v \in Message, ~DqFull,
           dq' = DqStored(v), s' = ResumeOne(s, suspend_thread),
           NEW p, Flow(s, p, DqWhere, DqLeft(dq))
    PROVE  /\ DqType(dq') /\ Flow(s', p, DqWhere, DqThere(dq'))
           /\ ~dq'.overwritten => /\ ~dq.overwritten /\ DqLen(dq) # dq_size
                                  /\ DqRing(dq') /\ DqItems(dq') = Append(DqItems(dq), v)
<1>1. dq' = DqWith(dq, v)
  <2> DEFINE x == [dq.queue EXCEPT ![DqSlot(dq.put_index)] = v]
             y == DqRound(dq.put_index + 1)
             o == dq.overwritten \/ DqLen(dq) = dq_size
             a == [dq EXCEPT !.queue = x]
  <2>1. dq = [put_index |-> dq.put_index, get_index |-> dq.get_index, queue |-> dq.queue,
              overwritten |-> dq.overwritten]
    BY DEF DqType
  <2>2. a = [put_index |-> dq.put_index, get_index |-> dq.get_index, queue |-> x,
             overwritten |-> dq.overwritten]
    <3> HIDE DEF x
    <3> QED BY <2>1
  <2>3. DqStored(v) = [[a EXCEPT !.put_index = y] EXCEPT !.overwritten = o]
    <3>1. (dq.overwritten \/ (DqCount = dq_size /\ ~DqFull)) = o
      BY DEF DqCount, DqLen, DqRound
    <3>2. DqStored(v) = [[a EXCEPT !.put_index = y] EXCEPT
              !.overwritten = dq.overwritten \/ (DqCount = dq_size /\ ~DqFull)]
      BY DEF DqStored, DqRound, DqSlot
    <3> HIDE DEF o, y, a
    <3> QED BY <3>1, <3>2
  <2>4. DqWith(dq, v) = [put_index |-> y, get_index |-> dq.get_index, queue |-> x,
                         overwritten |-> o]
    BY DEF DqWith
  <2> HIDE DEF a, x, y, o
  <2> QED BY <2>2, <2>3, <2>4
<1> DEFINE z == dq'
<1>2. z = DqWith(dq, v)
  BY <1>1
<1> HIDE DEF z
<1>3. z.overwritten <=> dq.overwritten \/ DqLen(dq) = dq_size
  BY <1>2 DEF DqWith
<1>4. DqType(z)
  BY <1>2, DqStaysTyped
<1>6. /\ Counts(DqWhere, DqThere(z)) /\ DqLen(dq) \in Int /\ DqLen(z) \in Int
      /\ z.overwritten => \A w \in DOMAIN DqWhere : DqThere(z)[w] = 0
      /\ ~z.overwritten => /\ DqThere(z)["dq_pop_wait"] = DqLen(z)
                           /\ DqThere(z)["dq_push_wait"] = dq_lwm + 1 - DqLen(z)
  BY <1>4, DqThereIs
<1>7. /\ z.overwritten => \A w \in DOMAIN DqWhere : DqLeft(dq)[w] = 0
      /\ ~z.overwritten => /\ DqLeft(dq)["dq_pop_wait"] = DqLen(dq)
                           /\ DqLeft(dq)["dq_push_wait"] = dq_lwm - DqLen(dq)
  BY <1>3, DqPlace DEF DqLeft
<1>8. ASSUME ~z.overwritten
      PROVE  /\ DqRing(z) /\ DqItems(z) = Append(DqItems(dq), v)
             /\ DqLen(z) = DqLen(dq) + 1
  BY <1>2, <1>3, <1>8, DqStores
<1>9. Flow(s', p, DqWhere, DqThere(z))
  <2> DEFINE w == "dq_pop_wait"
             n == DqLeft(dq)
             m == DqThere(z)
             r == s'
  <2>1. /\ w \in DOMAIN DqWhere /\ r = ResumeOne(s, DqWhere[w]) /\ Counts(DqWhere, m)
        /\ Flow(s, p, DqWhere, n)
    BY <1>6, DqPlace
  <2>2. m[w] <= n[w] + 1 /\ \A v1 \in DOMAIN DqWhere \ {w} : m[v1] <= n[v1]
    <3>1. CASE z.overwritten
      BY <1>6, <1>7, <3>1, DqPlace
    <3>2. CASE ~z.overwritten
      <4>1. /\ m[w] = DqLen(dq) + 1 /\ n[w] = DqLen(dq)
            /\ m["dq_push_wait"] = dq_lwm + 1 - (DqLen(dq) + 1)
            /\ n["dq_push_wait"] = dq_lwm - DqLen(dq)
        BY <1>6, <1>7, <1>8, <3>2
      <4> HIDE DEF m, n
      <4> QED BY <1>6, <4>1, DqPlace, DqSizes
    <3> QED BY <3>1, <3>2
  <2> HIDE DEF w, n, m, r
  <2>3. Flow(r, p, DqWhere, m)
    BY <2>1, <2>2, FlowResumes
  <2> QED BY <2>3 DEF m, r
<1> QED BY <1>3, <1>4, <1>8, <1>9 DEF z

LEMMA DqLeftIs ==
    ASSUME DqInv
    PROVE  /\ Counts(DqWhere, DqLeft(dq)) /\ DqLen(dq) \in Int
           /\ dq.overwritten \/ DqLen(dq) = dq_size => \A w \in DOMAIN DqWhere : DqLeft(dq)[w] = 0
           /\ ~(dq.overwritten \/ DqLen(dq) = dq_size) =>
                  /\ DqLeft(dq)["dq_pop_wait"] = DqLen(dq)
                  /\ DqLeft(dq)["dq_push_wait"] = dq_lwm - DqLen(dq)
                  /\ DqThere(dq)["dq_pop_wait"] = DqLen(dq)
                  /\ DqThere(dq)["dq_push_wait"] = dq_lwm + 1 - DqLen(dq)
<1>1. DqLen(dq) \in Int /\ dq_lwm \in Int
  BY DqFacts, DqSizes
<1> QED BY <1>1, DqPlace, DqFacts, DqThereIs DEF Counts, DqLeft

LEMMA DqStoreStep ==
    ASSUME DqInv, NEW t \in Sender, DqStore(t)
    PROVE  DqGood
<1> DEFINE v == loc[t].val
           x == "user"
<1>1. /\ t \in Thread /\ t \notin s.asleep /\ pc[t] \in {"dq_push", "dq_push_wait"}
      /\ Return(t) /\ dq' = DqStored(v) /\ s' = ResumeOne(s, suspend_thread) /\ ~DqFull
  BY BlockingAssumption, DqFacts, TestIs DEF DqStore
<1>2. v \in Message
  BY <1>1, DqFacts DEF Locals, DqCarries
<1>3. /\ Locals(pc', loc', DqCarries) /\ pc' = Placed(pc, t, x)
      /\ \A u \in Thread \ {t} : loc'[u] = loc[u]
  BY <1>1, DqFacts, ReturnIs
<1>4. x # "dq_popped" /\ pc[t] # "dq_popped" /\ x \notin DOMAIN DqWhere
  BY <1>1, DqFacts
<1> HIDE DEF v, x
<1>5. DqInbox(pc', loc') = DqInbox(pc, loc) /\ (DqHolds(pc, loc) => DqHolds(pc', loc'))
  BY <1>1, <1>3, <1>4, DqFacts, DqInboxStill
<1>6. \A w \in DOMAIN DqWhere : Takes(pc, t, w, DqThere(dq)[w], DqLeft(dq)[w])
  <2>1. CASE dq.overwritten \/ DqLen(dq) = dq_size
    BY <2>1, DqLeftIs DEF Takes
  <2>2. CASE ~(dq.overwritten \/ DqLen(dq) = dq_size)
    <3>1. DqLeft(dq)["dq_pop_wait"] <= DqThere(dq)["dq_pop_wait"] /\ pc[t] # "dq_pop_wait"
      BY <1>1, <2>2, DqLeftIs
    <3>2. DqLeft(dq)["dq_push_wait"] <= DqThere(dq)["dq_push_wait"] - 1
      BY <2>2, DqLeftIs, DqSizes
    <3> QED BY <3>1, <3>2, DqPlace DEF Takes
  <2> QED BY <2>1, <2>2
<1>7. Flow(s, pc', DqWhere, DqLeft(dq))
  <2> DEFINE m == DqThere(dq)
             n == DqLeft(dq)
  <2>1. /\ Flow(s, pc, DqWhere, m) /\ Counts(DqWhere, n)
        /\ \A w \in DOMAIN DqWhere : Takes(pc, t, w, m[w], n[w])
    BY <1>6, DqFacts, DqLeftIs
  <2> HIDE DEF m, n
  <2>2. Flow(s, pc', DqWhere, n)
    BY <1>1, <1>3, <1>4, <2>1, FlowGoes
  <2> QED BY <2>2 DEF n
<1>8. /\ DqType(dq') /\ Flow(s', pc', DqWhere, DqThere(dq'))
      /\ ~dq'.overwritten => /\ ~dq.overwritten /\ DqLen(dq) # dq_size
                             /\ DqRing(dq') /\ DqItems(dq') = Append(DqItems(dq), v)
  <2> DEFINE p == pc'
  <2>1. Flow(s, p, DqWhere, DqLeft(dq)) /\ DqType(dq) /\ (dq.overwritten \/ DqRing(dq))
    BY <1>7 DEF DqInv
  <2> HIDE DEF p
  <2>2. /\ DqType(dq') /\ Flow(s', p, DqWhere, DqThere(dq'))
        /\ ~dq'.overwritten => /\ ~dq.overwritten /\ DqLen(dq) # dq_size
                               /\ DqRing(dq') /\ DqItems(dq') = Append(DqItems(dq), v)
    BY <1>1, <1>2, <2>1, DqStoresOne
  <2> QED BY <2>2 DEF p
<1>9. DqInv'
  BY <1>3, <1>5, <1>8 DEF DqInv
<1>10. ASSUME ~dq'.overwritten PROVE DqChannel!Next
  <2>1. DqRing(dq)
    BY <1>8, <1>10 DEF DqInv
  <2> QED BY <1>2, <1>5, <1>8, <1>10, <2>1, DqSendsThen
<1> QED BY <1>9, <1>10 DEF DqGood

LEMMA DqIsrStep ==
    ASSUME DqInv, IsrDqPush
    PROVE  DqGood
<1>1. CASE UNCHANGED dataQueueVars
  <2>1. UNCHANGED <<s, pc, loc, dq>>
    BY <1>1 DEF dataQueueVars, threadVars
  <2>2. DqInv'
    BY <2>1 DEF DqInv
  <2>3. DqInbox(pc', loc') = DqInbox(pc, loc)
    BY <2>1
  <2> QED BY <2>1, <2>2, <2>3, DqStutters DEF DqGood
<1>2. ASSUME NEW v \in Message, dq' = DqStored(v), s' = ResumeOne(s, suspend_thread),
             UNCHANGED <<pc, loc>>, ~DqFull
      PROVE  DqGood
  <2>1. Flow(s, pc, DqWhere, DqLeft(dq))
    <3> DEFINE m == DqThere(dq)
               n == DqLeft(dq)
    <3>1. Flow(s, pc, DqWhere, m) /\ Counts(DqWhere, n)
      BY DqFacts, DqLeftIs
    <3>2. \A w \in DOMAIN DqWhere : n[w] <= m[w] \/ n[w] <= 0
      <4>1. CASE dq.overwritten \/ DqLen(dq) = dq_size
        BY <4>1, DqLeftIs
      <4>2. CASE ~(dq.overwritten \/ DqLen(dq) = dq_size)
        <5>1. n["dq_pop_wait"] <= m["dq_pop_wait"] /\ n["dq_push_wait"] <= m["dq_push_wait"]
          BY <4>2, DqLeftIs, DqSizes
        <5> QED BY <5>1, DqPlace
      <4> QED BY <4>1, <4>2
    <3> HIDE DEF m, n
    <3>3. Flow(s, pc, DqWhere, n)
      BY <3>1, <3>2, FlowNone
    <3> QED BY <3>3 DEF n
  <2>2. /\ DqType(dq') /\ Flow(s', pc, DqWhere, DqThere(dq'))
        /\ ~dq'.overwritten => /\ ~dq.overwritten /\ DqLen(dq) # dq_size
                               /\ DqRing(dq') /\ DqItems(dq') = Append(DqItems(dq), v)
    <3>1. DqType(dq) /\ (dq.overwritten \/ DqRing(dq))
      BY DEF DqInv
    <3> QED BY <1>2, <2>1, <3>1, DqStoresOne
  <2>3. DqInbox(pc', loc') = DqInbox(pc, loc) /\ (DqHolds(pc, loc) => DqHolds(pc', loc'))
    BY <1>2
  <2>4. DqInv'
    BY <1>2, <2>2, <2>3, DqFacts DEF DqInv
  <2>5. ASSUME ~dq'.overwritten PROVE DqChannel!Next
    <3>1. DqRing(dq)
      BY <2>2, <2>5 DEF DqInv
    <3> QED BY <2>2, <2>3, <2>5, <3>1, DqSendsThen
  <2> QED BY <2>4, <2>5 DEF DqGood
<1> QED BY <1>1, <1>2 DEF IsrDqPush

LEMMA DqAfterIs ==
    ASSUME DqInv
    PROVE  /\ Counts(DqWhere, DqAfter(dq))
           /\ dq.overwritten => \A w \in DOMAIN DqWhere : DqAfter(dq)[w] = 0
           /\ ~dq.overwritten =>
                  /\ DqAfter(dq)["dq_pop_wait"] = DqLen(dq) - 1
                  /\ DqLen(dq) - 1 <= dq_lwm => DqAfter(dq)["dq_push_wait"] = dq_lwm + 1 - DqLen(dq)
                  /\ ~(DqLen(dq) - 1 <= dq_lwm) =>
                         DqAfter(dq)["dq_push_wait"] = dq_lwm + 2 - DqLen(dq)
<1>1. DqLen(dq) \in Int /\ dq_lwm \in Int
  BY DqFacts, DqSizes
<1> QED BY <1>1, DqPlace DEF Counts, DqAfter

\* The test of rt_data_queue_pop resumes a pusher at the low-water mark, at least.
LEMMA DqAfterPop ==
    ASSUME DqType(dq), NEW z, z = DqWithout(dq), DqLen(z) <= dq_lwm
    PROVE  dq.put_index - DqRound(dq.get_index + 1) <= dq_lwm
<1> DEFINE g == DqRound(dq.get_index + 1)
           p == dq.put_index
<1>1. g \in 0 .. IndexRange - 1 /\ p \in 0 .. IndexRange - 1 /\ p - g \in Int
      /\ DqLen(z) = DqRound(p - g)
  <2>1. dq.get_index + 1 \in Int /\ p \in 0 .. IndexRange - 1
    BY DqTypeIs
  <2>2. g \in 0 .. IndexRange - 1
    BY <2>1, DqSizes, DqRounds, DqSlots
  <2> QED BY <2>1, <2>2, DqSizes DEF DqLen, DqWithout
<1> HIDE DEF g, p
<1>2. CASE p - g >= 0
  <2>1. p - g < IndexRange
    BY <1>1, DqSizes
  <2>2. DqRound(p - g) = p - g
    BY <1>1, <1>2, <2>1, DqSizes, DqRounds, DqSlots
  <2> QED BY <1>1, <2>2 DEF g, p
<1>3. CASE ~(p - g >= 0)
  <2>1. p - g <= dq_lwm
    BY <1>1, <1>3, DqSizes
  <2> QED BY <2>1 DEF g, p
<1> QED BY <1>2, <1>3

LEMMA DqTakeStep ==
    ASSUME DqInv, NEW t \in Receiver, DqTake(t)
    PROVE  DqGood
<1> DEFINE v == dq.queue[DqSlot(dq.get_index)]
           x == "dq_popped"
<1>1. /\ t \in Thread /\ t \notin s.asleep /\ pc[t] \in {"dq_pop", "dq_pop_wait"}
      /\ dq.put_index # dq.get_index /\ loc' = [loc EXCEPT ![t].val = v]
      /\ dq' = [dq EXCEPT !.get_index = DqRound(dq.get_index + 1)]
      /\ s' = AfterPop(s) /\ pc' = Placed(pc, t, x) /\ Receiver \subseteq Thread
  BY BlockingAssumption, DqFacts, TestIs DEF DqTake, DqEmpty, Goto, Placed, DqRound, DqSlot
<1>2. dq' = DqWithout(dq)
  <2>1. dq = [put_index |-> dq.put_index, get_index |-> dq.get_index, queue |-> dq.queue,
              overwritten |-> dq.overwritten]
    BY DqFacts DEF DqType
  <2> DEFINE y == DqRound(dq.get_index + 1)
  <2>2. dq' = [dq EXCEPT !.get_index = y]
    BY <1>1
  <2>3. DqWithout(dq) = [put_index |-> dq.put_index, get_index |-> y, queue |-> dq.queue,
                         overwritten |-> dq.overwritten]
    BY DEF DqWithout
  <2> HIDE DEF y
  <2> QED BY <2>1, <2>2, <2>3
<1>3. v \in Message \cup {Nil}
  <2>1. DqSlot(dq.get_index) \in 0 .. dq_size - 1
    BY DqFacts, DqTypeIs, DqSizes, DqRounds, DqSlots
  <2> QED BY <2>1, DqFacts, DqTypeIs
<1>4. /\ DqType(dq') /\ dq'.overwritten = dq.overwritten
      /\ ~dq.overwritten =>
             /\ DqRing(dq') /\ DqLen(dq') = DqLen(dq) - 1 /\ DqItems(dq) # << >>
             /\ DqItems(dq') = Tail(DqItems(dq)) /\ v \in Message /\ Head(DqItems(dq)) = v
  <2> DEFINE z == dq'
  <2>1. z = DqWithout(dq)
    BY <1>2
  <2>2. z.overwritten = dq.overwritten
    BY <2>1 DEF DqWithout
  <2> HIDE DEF z, v
  <2>3. v = dq.queue[DqSlot(dq.get_index)]
    BY DEF v
  <2>4. DqType(z)
    BY <2>1, DqFacts, DqStaysTyped
  <2>5. ASSUME ~dq.overwritten
        PROVE  /\ DqRing(z) /\ DqLen(z) = DqLen(dq) - 1 /\ DqItems(dq) # << >>
               /\ DqItems(z) = Tail(DqItems(dq)) /\ v \in Message /\ Head(DqItems(dq)) = v
    <3>1. DqRing(dq) /\ DqLen(dq) # 0
      BY <1>1, <2>5, DqFacts, DqTypeIs DEF DqInv
    <3> QED BY <2>1, <2>3, <3>1, DqTakes
  <2> QED BY <2>2, <2>4, <2>5 DEF z
<1> HIDE DEF v
<1>5. /\ pc' = [u \in Thread |-> IF u = t THEN "dq_popped" ELSE pc[u]]
      /\ loc' \in [Thread -> [time : Time, val : Message \cup {Nil}]]
      /\ loc'[t].val = v /\ \A u \in Thread \ {t} : loc'[u] = loc[u]
  BY ZenonT(40), <1>1, <1>3, DqFacts DEF Locals, EachThread, Placed
<1>6. Locals(pc', loc', DqCarries)
  BY <1>5, DqFacts DEF Locals, DqCarries
<1>7. DqInbox(pc', loc') = [DqInbox(pc, loc) EXCEPT ![t] = v]
  BY ZenonT(40), <1>1, <1>5 DEF DqInbox
<1>8. ASSUME ~dq.overwritten PROVE DqChannel!Next /\ DqHolds(pc', loc')
  <2>1. DqRing(dq) /\ DqHolds(pc, loc)
    BY <1>8 DEF DqInv
  <2>2. DqRing(dq') /\ DqItems(dq) # << >> /\ DqItems(dq') = Tail(DqItems(dq))
        /\ v \in Message /\ Head(DqItems(dq)) = v /\ v # Nil
    BY <1>4, <1>8, BlockingAssumption
  <2>3. DqChannel!Next
    BY Zenon, <1>1, <1>7, <2>1, <2>2, DqReceivesThen
  <2>4. DqHolds(pc', loc')
    BY <1>1, <1>5, <2>1, <2>2 DEF DqHolds
  <2> QED BY <2>3, <2>4
<1>9. \A w \in DOMAIN DqWhere : Takes(pc, t, w, DqThere(dq)[w], DqAfter(dq)[w])
  <2>1. CASE dq.overwritten
    BY <2>1, DqAfterIs DEF Takes
  <2>2. CASE ~dq.overwritten
    <3>1. DqThere(dq)["dq_pop_wait"] = DqLen(dq) /\ pc[t] # "dq_push_wait"
          /\ DqThere(dq)["dq_push_wait"] = dq_lwm + 1 - DqLen(dq) /\ DqLen(dq) \in Int
      BY <1>1, <2>2, DqFacts, DqThereIs
    <3> QED BY <2>2, <3>1, DqAfterIs, DqPlace, DqSizes DEF Takes
  <2> QED BY <2>1, <2>2
<1>10. Flow(s, pc', DqWhere, DqAfter(dq))
  <2> DEFINE m == DqThere(dq)
             n == DqAfter(dq)
  <2>1. /\ x \notin DOMAIN DqWhere /\ Flow(s, pc, DqWhere, m) /\ Counts(DqWhere, n)
        /\ \A w \in DOMAIN DqWhere : Takes(pc, t, w, m[w], n[w])
    BY <1>9, DqFacts, DqAfterIs
  <2> HIDE DEF x, m, n
  <2>2. Flow(s, pc', DqWhere, n)
    BY <1>1, <2>1, FlowGoes
  <2> QED BY <2>2 DEF n
<1>11. Flow(s', pc', DqWhere, DqThere(dq'))
  <2> DEFINE w == "dq_push_wait"
             n == DqAfter(dq)
             m == DqThere(dq')
             r == s'
             p == pc'
             more == dq.put_index - DqRound(dq.get_index + 1) <= dq_lwm
  <2>1. Flow(s, p, DqWhere, n) /\ w \in DOMAIN DqWhere
    BY <1>10, DqPlace
  <2>2. r = IF more THEN ResumeOne(s, DqWhere[w]) ELSE s
    BY <1>1, DqPlace DEF AfterPop, DqRound
  <2>3. /\ Counts(DqWhere, m) /\ m[w] <= n[w] + 1 /\ (~more => m[w] <= n[w])
        /\ \A v1 \in DOMAIN DqWhere \ {w} : m[v1] <= n[v1]
    <3>1. CASE dq.overwritten
      <4>1. Counts(DqWhere, m) /\ \A u \in DOMAIN DqWhere : m[u] = 0 /\ n[u] = 0
        <5> DEFINE z == dq'
        <5>1. DqType(z) /\ z.overwritten
          BY <1>4, <3>1
        <5> HIDE DEF z
        <5>2. Counts(DqWhere, DqThere(z)) /\ \A u \in DOMAIN DqWhere : DqThere(z)[u] = 0
          BY <5>1, DqThereIs
        <5> QED BY <3>1, <5>2, DqAfterIs DEF z
      <4> HIDE DEF m, n
      <4> QED BY <2>1, <4>1
    <3>2. CASE ~dq.overwritten
      <4>1. /\ Counts(DqWhere, m) /\ DqLen(dq) \in Int
            /\ m["dq_pop_wait"] = DqLen(dq) - 1 /\ m[w] = dq_lwm + 1 - (DqLen(dq) - 1)
        <5> DEFINE z == dq'
        <5>1. DqType(z) /\ ~z.overwritten /\ DqLen(z) = DqLen(dq) - 1
          BY <1>4, <3>2
        <5> HIDE DEF z
        <5>2. Counts(DqWhere, DqThere(z)) /\ DqThere(z)["dq_pop_wait"] = DqLen(z)
              /\ DqThere(z)["dq_push_wait"] = dq_lwm + 1 - DqLen(z)
          BY <5>1, DqThereIs
        <5> QED BY <5>1, <5>2, DqFacts DEF z
      <4>2. DqLen(dq) - 1 <= dq_lwm => more
        <5> DEFINE z == dq'
        <5>1. z = DqWithout(dq) /\ DqLen(z) = DqLen(dq) - 1
          BY <1>2, <1>4, <3>2
        <5> HIDE DEF z
        <5> QED BY <5>1, DqFacts, DqAfterPop
      <4>3. /\ n["dq_pop_wait"] = DqLen(dq) - 1
            /\ DqLen(dq) - 1 <= dq_lwm => n[w] = dq_lwm + 1 - DqLen(dq)
            /\ ~(DqLen(dq) - 1 <= dq_lwm) => n[w] = dq_lwm + 2 - DqLen(dq)
        BY <3>2, DqAfterIs
      <4> HIDE DEF m, n, more
      <4>4. m[w] <= n[w] + 1
        BY <4>1, <4>3, DqSizes
      <4>5. ~more => m[w] <= n[w]
        BY <4>1, <4>2, <4>3, DqSizes
      <4>6. \A v1 \in DOMAIN DqWhere \ {w} : m[v1] <= n[v1]
        BY <4>1, <4>3, DqPlace
      <4> QED BY <4>1, <4>4, <4>5, <4>6
    <3> QED BY <3>1, <3>2
  <2> HIDE DEF w, n, m, r, p, more
  <2>4. Flow(r, p, DqWhere, m)
    <3>1. ASSUME more PROVE Flow(r, p, DqWhere, m)
      BY <2>1, <2>2, <2>3, <3>1, FlowResumes
    <3>2. ASSUME ~more PROVE Flow(r, p, DqWhere, m)
      <4>1. r = s /\ \A v1 \in DOMAIN DqWhere : m[v1] <= n[v1]
        BY <2>2, <2>3, <3>2
      <4> QED BY <2>1, <2>3, <4>1, FlowLess
    <3> QED BY <3>1, <3>2
  <2> QED BY <2>4 DEF m, r, p
<1>12. DqInv'
  BY <1>4, <1>6, <1>8, <1>11 DEF DqInv
<1> QED BY <1>4, <1>8, <1>12 DEF DqGood

LEMMA DqPoppedStep ==
    ASSUME DqInv, NEW t \in Receiver, DqPopped(t)
    PROVE  DqGood
<1>1. /\ t \in Thread /\ Receiver \subseteq Thread /\ t \notin s.asleep
      /\ pc[t] = "dq_popped" /\ Return(t) /\ s' = s /\ dq' = dq
  BY BlockingAssumption DEF DqPopped, Runs
<1>2. /\ Locals(pc', loc', DqCarries) /\ pc' = Placed(pc, t, "user")
      /\ \A u \in Thread \ {t} : loc'[u] = loc[u]
  BY <1>1, DqFacts, ReturnIs
<1>3. pc' = [u \in Thread |-> IF u = t THEN "user" ELSE pc[u]]
  BY Zenon, <1>2, DqFacts DEF EachThread, Placed
<1>4. DqInbox(pc', loc') = [DqInbox(pc, loc) EXCEPT ![t] = Nil]
  BY Zenon, <1>1, <1>2, <1>3 DEF DqInbox
<1>5. ASSUME ~dq.overwritten PROVE DqChannel!Next
  <2>1. DqInbox(pc, loc)[t] # Nil
    BY <1>1, <1>5 DEF DqInbox, DqInv, DqHolds
  <2> QED BY Zenon, <1>1, <1>4, <2>1, DqConsumesThen
<1>6. DqHolds(pc, loc) => DqHolds(pc', loc')
  BY <1>1, <1>2, <1>3 DEF DqHolds
<1>7. DqInv'
  <2> DEFINE x == "user"
  <2>1. /\ pc' = Placed(pc, t, x) /\ x \notin DOMAIN DqWhere /\ x \notin DqCarries
        /\ pc[t] \notin DOMAIN DqWhere
    BY <1>1, <1>2, DqFacts DEF DqCarries
  <2> HIDE DEF x
  <2> QED BY <1>1, <1>2, <1>6, <2>1, DqMoves
<1> QED BY <1>1, <1>5, <1>7 DEF DqGood

\* A resumption with an error serves nobody, and takes nothing from anybody.
LEMMA FlowError ==
    ASSUME NEW j, NEW p, NEW where, NEW n, Flow(j, p, where, n), NEW w \in DOMAIN where,
           NEW r, r = IF j.list[where[w]] = << >> THEN j
                      ELSE rt_ipc_list_resume_error(j, where[w])
    PROVE  Flow(r, p, where, n)
<1> DEFINE l == where[w]
<1>1. Sleepers(j) /\ l \in WaitList /\ Waits(j, p, where)
  BY DEF Flow, Waits, WaitPlaces
<1> HIDE DEF l
<1>2. CASE j.list[l] = << >>
  BY <1>2 DEF l
<1>3. CASE j.list[l] # << >>
  <2> DEFINE h == Head(j.list[l])
  <2>1. r = rt_ipc_list_resume_error(j, l) /\ h \in j.asleep /\ h \in Thread
    BY <1>1, <1>3, HeadIs DEF l, Sleepers, SleepState
  <2>2. /\ Sleepers(r) /\ r.asleep = j.asleep \ {h} /\ r.error = [j.error EXCEPT ![h] = "ERROR"]
        /\ \A m \in WaitList : On(r, m) = On(j, m) \ {h}
    BY <1>1, <1>3, <2>1, ResumeErrorIs
  <2> HIDE DEF h
  <2>3. /\ r.error[h] = "ERROR" /\ h \notin r.asleep
        /\ \A t \in Thread \ {h} :
               r.error[t] = j.error[t] /\ (t \in r.asleep <=> t \in j.asleep)
    BY <1>1, <2>1, <2>2 DEF Sleepers, SleepState
  <2>4. Waits(r, p, where)
    BY <1>1, <2>2 DEF Waits, AtPlaces, WaitPlaces
  <2>5. \A v \in DOMAIN where : Asleep(r, p, v) \subseteq Asleep(j, p, v)
    BY <2>2 DEF Asleep
  <2>6. \A v \in DOMAIN where : Awake(r, p, v) = Awake(j, p, v)
    BY <2>1, <2>3 DEF Awake
  <2> QED BY <2>4, <2>5, <2>6, FlowTimes
<1> QED BY <1>2, <1>3

\* The sections of a reset: its thread goes on, and may resume somebody.
LEMMA DqResetGoes ==
    ASSUME DqInv, NEW t \in Thread, t \notin s.asleep, pc[t] # "dq_popped",
           pc[t] \notin DOMAIN DqWhere, NEW x, x \notin DOMAIN DqWhere, x \notin DqCarries,
           x # "dq_popped", pc' = Placed(pc, t, x), s' = s, loc' = loc, dq' = dq
    PROVE  DqGood
<1>1. pc[t] \notin DqCarries \/ pc[t] = "dq_push"
  BY DqPlace DEF DqCarries
<1>2. Locals(pc', loc', DqCarries)
  BY DqFacts DEF Locals, EachThread, Placed
<1>3. DqInbox(pc', loc') = DqInbox(pc, loc) /\ (DqHolds(pc, loc) => DqHolds(pc', loc'))
  BY DqFacts, DqInboxStill
<1>4. DqInv'
  BY <1>2, <1>3, DqMoves
<1> QED BY <1>3, <1>4, DqStutters DEF DqGood

LEMMA DqResetOneStep ==
    ASSUME DqInv, NEW t \in Thread, t \notin s.asleep,
           NEW w \in DOMAIN DqWhere, s' = ResumedWithError(DqWhere[w]),
           pc[t] \in {"dq_reset_popper", "dq_reset_pusher"},
           NEW x \in {"dq_reset_pop", "dq_reset_push"}, pc' = Placed(pc, t, x),
           loc' = loc, dq' = dq
    PROVE  DqGood
<1>1. /\ x \notin DOMAIN DqWhere /\ x \notin DqCarries /\ x # "dq_popped"
      /\ pc[t] \notin DOMAIN DqWhere /\ pc[t] # "dq_popped"
  BY DqPlace DEF DqCarries
<1>2. Locals(pc', loc', DqCarries)
  BY <1>1, DqFacts DEF Locals, EachThread, Placed
<1>3. DqInbox(pc', loc') = DqInbox(pc, loc) /\ (DqHolds(pc, loc) => DqHolds(pc', loc'))
  BY <1>1, DqFacts, DqInboxStill
<1>5. Flow(s', pc', DqWhere, DqThere(dq))
  <2> DEFINE n == DqThere(dq)
             r == s'
             q == pc'
  <2>1. /\ Flow(s, pc, DqWhere, n) /\ Counts(DqWhere, n) /\ q = Placed(pc, t, x)
        /\ \A v \in DOMAIN DqWhere : Takes(pc, t, v, n[v], n[v])
        /\ r = IF s.list[DqWhere[w]] = << >> THEN s ELSE rt_ipc_list_resume_error(s, DqWhere[w])
    BY <1>1, DqFacts DEF Takes, Counts, ResumedWithError, rt_ipc_list_resume_error
  <2> HIDE DEF n, r, q
  <2>2. Flow(s, q, DqWhere, n)
    BY <1>1, <2>1, FlowGoes
  <2>3. Flow(r, q, DqWhere, n)
    BY <2>1, <2>2, FlowError
  <2> QED BY <2>3 DEF n, r, q
<1>6. DqInv'
  BY <1>2, <1>3, <1>5, DqKeeps
<1> QED BY <1>3, <1>6, DqStutters DEF DqGood

LEMMA DqResetTestStep ==
    ASSUME DqInv, NEW t \in Thread, DqResetTest(t)
    PROVE  DqGood
<1>1. PICK x \in {"dq_reset_push", "dq_reset_popper", "user", "dq_reset_pusher"} :
          pc' = Placed(pc, t, x)
  <2>1. CASE Runs(t, "dq_reset_pop")
    <3>1. Goto(t, IF s.list[suspend_thread] = << >> THEN "dq_reset_push" ELSE "dq_reset_popper")
      BY <2>1 DEF DqResetTest, Runs
    <3> QED BY Zenon, <3>1 DEF Goto, Placed
  <2>2. CASE ~Runs(t, "dq_reset_pop")
    <3>1. Goto(t, IF s.list[suspend_sender_thread] = << >> THEN "user" ELSE "dq_reset_pusher")
      BY <2>2 DEF DqResetTest
    <3> QED BY Zenon, <3>1 DEF Goto, Placed
  <2> QED BY <2>1, <2>2
<1>2. /\ t \notin s.asleep /\ pc[t] \in {"dq_reset_pop", "dq_reset_push"}
      /\ s' = s /\ loc' = loc /\ dq' = dq
  BY DEF DqResetTest, Runs
<1>3. /\ x \notin DOMAIN DqWhere /\ x \notin DqCarries /\ x # "dq_popped"
      /\ pc[t] \notin DOMAIN DqWhere /\ pc[t] # "dq_popped"
  BY <1>2, DqPlace DEF DqCarries
<1> QED BY <1>1, <1>2, <1>3, DqResetGoes

LEMMA DqNextStep ==
    ASSUME DqInv, [DataQueueNext]_dataQueueVars
    PROVE  DqGood
<1>0. /\ Sender \cup Receiver \cup Resetter \subseteq Thread
      /\ "dq_pop_wait" \in DOMAIN DqWhere /\ "dq_push_wait" \in DOMAIN DqWhere
      /\ DqWhere["dq_pop_wait"] = suspend_thread
      /\ DqWhere["dq_push_wait"] = suspend_sender_thread
  BY BlockingAssumption, DqPlace
<1>1. CASE UNCHANGED dataQueueVars
  <2>1. UNCHANGED <<s, pc, loc, dq>>
    BY <1>1 DEF dataQueueVars, threadVars
  <2>2. DqInv'
    BY <2>1 DEF DqInv
  <2>3. DqInbox(pc', loc') = DqInbox(pc, loc)
    BY <2>1
  <2> QED BY <2>1, <2>2, <2>3, DqStutters DEF DqGood
<1>2. ASSUME NEW t \in Sender, DqPush(t) PROVE DqGood
  <2>1. PICK v \in Message, time \in Time : Begin(t, "dq_push", time, v)
    BY <1>2 DEF DqPush
  <2>2. dq' = dq
    BY <1>2 DEF DqPush
  <2> QED BY <1>0, <2>1, <2>2, DqBegins
<1>3. ASSUME NEW t \in Sender, DqStore(t) PROVE DqGood
  BY <1>3, DqStoreStep
<1>4. ASSUME NEW t \in Sender, DqPushFull(t) PROVE DqGood
  BY <1>0, <1>4, DqReturns DEF DqPushFull, Runs
<1>5. ASSUME NEW t \in Sender, DqPushWait(t) PROVE DqGood
  <2>1. /\ t \in Thread /\ t \notin s.asleep /\ (pc[t] = "dq_push" \/ pc[t] = "dq_push_wait")
        /\ dq.put_index - dq.get_index = dq_size /\ dq' = dq
        /\ SuspendSelf(t, suspend_sender_thread, loc[t].time, "dq_push_wait")
    BY <1>0, <1>5, DqFacts, TestIs DEF DqPushWait, DqFull
  <2>2. loc[t].time \in Time
    BY <2>1, DqFacts DEF Locals
  <2>3. DqThere(dq)["dq_push_wait"] <= 0
    <3>1. DqLen(dq) = dq_size
      BY <2>1, DqFacts, DqTypeIs
    <3>2. CASE dq.overwritten
      BY <1>0, <3>2, DqFacts, DqThereIs
    <3>3. CASE ~dq.overwritten
      BY <3>1, <3>3, DqFacts, DqThereIs, DqSizes
    <3> QED BY <3>2, <3>3
  <2> QED BY <1>0, <2>1, <2>2, <2>3, DqWaits
<1>6. ASSUME NEW t \in Sender, DqPushFails(t) PROVE DqGood
  BY <1>0, <1>6, DqFails DEF DqPushFails
<1>7. ASSUME NEW t \in Receiver, DqPop(t) PROVE DqGood
  <2>1. PICK time \in Time : Begin(t, "dq_pop", time, Nil) /\ dq' = dq
    BY <1>7 DEF DqPop
  <2> QED BY <1>0, <2>1, DqBegins
<1>8. ASSUME NEW t \in Receiver, DqTake(t) PROVE DqGood
  BY <1>8, DqTakeStep
<1>9. ASSUME NEW t \in Receiver, DqPopped(t) PROVE DqGood
  BY <1>9, DqPoppedStep
<1>10. ASSUME NEW t \in Receiver, DqPopEmpty(t) PROVE DqGood
  BY <1>0, <1>10, DqReturns DEF DqPopEmpty, Runs
<1>11. ASSUME NEW t \in Receiver, DqPopWait(t) PROVE DqGood
  <2>1. /\ t \in Thread /\ t \notin s.asleep /\ (pc[t] = "dq_pop" \/ pc[t] = "dq_pop_wait")
        /\ dq.put_index = dq.get_index /\ dq' = dq
        /\ SuspendSelf(t, suspend_thread, loc[t].time, "dq_pop_wait")
    BY <1>0, <1>11, DqFacts, TestIs DEF DqPopWait, DqEmpty
  <2>2. loc[t].time \in Time
    BY <2>1, DqFacts DEF Locals
  <2>3. DqThere(dq)["dq_pop_wait"] <= 0
    <3>1. DqLen(dq) = 0
      BY <2>1, DqFacts, DqTypeIs
    <3>2. CASE dq.overwritten
      BY <1>0, <3>2, DqFacts, DqThereIs
    <3>3. CASE ~dq.overwritten
      BY <3>1, <3>3, DqFacts, DqThereIs
    <3> QED BY <3>2, <3>3
  <2> QED BY <1>0, <2>1, <2>2, <2>3, DqWaits
<1>12. ASSUME NEW t \in Receiver, DqPopFails(t) PROVE DqGood
  BY <1>0, <1>12, DqFails DEF DqPopFails
<1>13. ASSUME NEW t \in Resetter, DqReset(t) PROVE DqGood
  <2> DEFINE x == "dq_reset_pop"
  <2>1. /\ t \in Thread /\ t \notin s.asleep /\ pc[t] = "user" /\ pc' = Placed(pc, t, x)
        /\ s' = s /\ loc' = loc /\ dq' = dq
    BY <1>0, <1>13 DEF DqReset, Runs, Goto, Placed
  <2>2. /\ x \notin DOMAIN DqWhere /\ x \notin DqCarries /\ x # "dq_popped"
        /\ pc[t] # "dq_popped" /\ pc[t] \notin DOMAIN DqWhere
    BY <2>1, DqPlace DEF DqCarries
  <2> HIDE DEF x
  <2> QED BY <2>1, <2>2, DqResetGoes
<1>14. ASSUME NEW t \in Resetter, DqResetTest(t) PROVE DqGood
  BY <1>0, <1>14, DqResetTestStep
<1>15. ASSUME NEW t \in Resetter, DqResetOne(t) PROVE DqGood
  <2>1. /\ t \in Thread /\ loc' = loc /\ dq' = dq /\ t \notin s.asleep
        /\ pc[t] \in {"dq_reset_popper", "dq_reset_pusher"}
    BY <1>0, <1>15 DEF DqResetOne, Runs
  <2>2. PICK w \in DOMAIN DqWhere, x \in {"dq_reset_pop", "dq_reset_push"} :
            s' = ResumedWithError(DqWhere[w]) /\ pc' = Placed(pc, t, x)
    BY <1>0, <1>15 DEF DqResetOne, Goto, Placed
  <2> QED BY <2>1, <2>2, DqResetOneStep
<1>16. CASE IsrDqPush
  BY <1>16, DqIsrStep
<1>17. ASSUME NEW t \in Thread, TimerExpires(t), UNCHANGED dq PROVE DqGood
  BY <1>17, DqExpires
<1> QED BY <1>1, <1>2, <1>3, <1>4, <1>5, <1>6, <1>7, <1>8, <1>9, <1>10, <1>11, <1>12, <1>13,
           <1>14, <1>15, <1>16, <1>17 DEF DataQueueNext

\* an item is overwritten only where the test for a full queue is deceived
LEMMA DqOverwritesThen ==
    ASSUME DqType(dq), DataQueueNext, dq'.overwritten
    PROVE  DqOverwrites
<1>1. CASE \E v : dq' = DqStored(v) /\ ~DqFull
  <2> SUFFICES ASSUME ~dq.overwritten, ~(dq.put_index < dq.get_index) PROVE FALSE
    BY DEF DqOverwrites
  <2>1. DqCount = dq_size
    BY <1>1 DEF DqStored, DqType
  <2>2. /\ dq.put_index \in 0 .. IndexRange - 1 /\ dq.get_index \in 0 .. IndexRange - 1
        /\ IndexRange \in Int
    BY DqTypeIs, DqSizes
  <2>3. 0 <= dq.put_index - dq.get_index /\ dq.put_index - dq.get_index < IndexRange
    BY <2>2
  <2>4. DqCount = dq.put_index - dq.get_index
    <3> DEFINE x == dq.put_index - dq.get_index
    <3>1. x \in Int /\ 0 <= x /\ x < IndexRange /\ DqCount = DqRound(x)
      BY <2>2, <2>3 DEF DqCount, DqRound
    <3> HIDE DEF x
    <3>2. DqRound(x) = x
      BY Zenon, <3>1, DqRounds
    <3> QED BY <3>1, <3>2 DEF x
  <2> QED BY <1>1, <2>1, <2>4 DEF DqFull
<1>2. CASE dq'.overwritten = dq.overwritten
  BY <1>2 DEF DqOverwrites
<1>3. CASE \E t \in Receiver : DqTake(t)
  <2>1. dq'.overwritten = dq.overwritten
    BY <1>3 DEF DqTake, DqType
  <2> QED BY <1>2, <2>1
<1>4. ASSUME UNCHANGED dq PROVE DqOverwrites
  BY <1>2, <1>4
<1>5. ASSUME NEW t \in Sender,
             DqPush(t) \/ DqStore(t) \/ DqPushFull(t) \/ DqPushWait(t) \/ DqPushFails(t)
      PROVE  DqOverwrites
  <2>1. CASE DqStore(t)
    BY <1>1, <2>1 DEF DqStore
  <2>2. CASE DqPush(t) \/ DqPushFull(t) \/ DqPushWait(t) \/ DqPushFails(t)
    BY <1>4, <2>2 DEF DqPush, DqPushFull, DqPushWait, DqPushFails
  <2> QED BY <1>5, <2>1, <2>2
<1>6. ASSUME NEW t \in Receiver,
             DqPop(t) \/ DqTake(t) \/ DqPopped(t) \/ DqPopEmpty(t) \/ DqPopWait(t)
                 \/ DqPopFails(t)
      PROVE  DqOverwrites
  <2>1. CASE DqTake(t)
    BY <1>3, <2>1
  <2>2. CASE DqPop(t) \/ DqPopped(t) \/ DqPopEmpty(t) \/ DqPopWait(t) \/ DqPopFails(t)
    BY <1>4, <2>2 DEF DqPop, DqPopped, DqPopEmpty, DqPopWait, DqPopFails
  <2> QED BY <1>6, <2>1, <2>2
<1>7. ASSUME NEW t \in Resetter, DqReset(t) \/ DqResetTest(t) \/ DqResetOne(t)
      PROVE  DqOverwrites
  BY <1>4, <1>7 DEF DqReset, DqResetTest, DqResetOne
<1>8. CASE IsrDqPush
  BY <1>1, <1>4, <1>8 DEF IsrDqPush, dataQueueVars
<1> QED BY <1>4, <1>5, <1>6, <1>7, <1>8 DEF DataQueueNext

LEMMA DqFirst ==
    ASSUME BlockingInit, DqInit
    PROVE  DqInv /\ DqChannel!Init
<1>1. dq.put_index = 0 /\ dq.get_index = 0 /\ dq.overwritten = FALSE /\ DqType(dq)
  <2>1. 0 \in 0 .. IndexRange - 1
    BY DqSizes
  <2> QED BY <2>1 DEF DqInit, DqType
<1>2. DqLen(dq) = 0
  BY <1>1, DqTypeIs
<1>3. DqRing(dq)
  <2>1. 0 <= dq_size /\ \A i \in 0 .. 0 - 1 : FALSE
    BY DqSizes
  <2> QED BY <1>1, <1>2, <2>1 DEF DqRing
<1>4. Flow(s, pc, DqWhere, DqThere(dq)) /\ Locals(pc, loc, DqCarries)
  <2> DEFINE n == DqThere(dq)
  <2>1. Counts(DqWhere, n) /\ "user" \notin DqCarries
    BY <1>1, DqThereIs DEF DqCarries
  <2> HIDE DEF n
  <2>2. Flow(s, pc, DqWhere, n) /\ Locals(pc, loc, DqCarries)
    BY <2>1, DqPlace, FirstFlow
  <2> QED BY <2>2 DEF n
<1>5. DqPending = << >>
  <2>1. DqItems(dq) \in Seq(Message) /\ Len(DqItems(dq)) = 0
    BY <1>2, <1>3, DqItemsAre
  <2> QED BY <2>1, DqCountIs, EmptySeq
<1>6. \A t \in Receiver : pc[t] # "dq_popped"
  BY BlockingAssumption DEF BlockingInit
<1>7. DqChannel!Init
  BY <1>5, <1>6 DEF DqChannel!Init, DqPending
<1> QED BY <1>1, <1>3, <1>4, <1>6, <1>7 DEF DqInv, DqHolds

\* A data queue is a bounded first-in first-out channel, for any threads, low-water
\* mark and size that divides the range of the indices, while these come round, beside
\* interrupts that push, waits that time out and a reset in sections, until a push after
\* the wrap of put_index overwrites an item (rt_data_queue_push, _pop, _reset).
THEOREM DataQueueIsAChannel == DataQueueSpec => DqImplementsChannel
<1>1. BlockingInit /\ DqInit => DqInv /\ DqChannel!Init
  BY DqFirst
<1>2. DqInv /\ [DataQueueNext]_dataQueueVars =>
          DqInv' /\ [DqChannel!Next \/ DqOverwrites]_DqChannel!vars
  <2> SUFFICES ASSUME DqInv, [DataQueueNext]_dataQueueVars
               PROVE  DqInv' /\ (DqChannel!Next \/ DqOverwrites \/ UNCHANGED DqChannel!vars)
    OBVIOUS
  <2>1. DqGood
    BY DqNextStep
  <2>2. CASE UNCHANGED dataQueueVars
    <3>1. UNCHANGED <<pc, loc, dq>>
      BY <2>2 DEF dataQueueVars, threadVars
    <3>2. UNCHANGED DqChannel!vars
      BY <3>1 DEF DqChannel!vars, DqCount
    <3> QED BY <2>1, <3>2 DEF DqGood
  <2>3. CASE DataQueueNext
    BY <2>1, <2>3, DqFacts, DqOverwritesThen DEF DqGood
  <2> QED BY <2>2, <2>3
<1> QED BY <1>1, <1>2, PTL DEF DataQueueSpec, DqImplementsChannel

LEMMA DqServes == DqInv => DqNoLostWakeup /\ SleepersAgree
<1> SUFFICES ASSUME DqInv PROVE DqNoLostWakeup /\ SleepersAgree
  OBVIOUS
<1> DEFINE x == "dq_pop_wait"
           y == "dq_push_wait"
<1>1. /\ \A w \in DOMAIN DqWhere : Enough(Asleep(s, pc, w), Awake(s, pc, w), DqThere(dq)[w])
      /\ Waits(s, pc, DqWhere)
  BY DEF DqInv, Flow
<1>2. ASSUME ~dq.overwritten
      PROVE  /\ WaitingAt(x) # {} => DqCount <= Cardinality(WokenAt(x))
             /\ WaitingAt(y) # {} => DqCount + Cardinality(WokenAt(y)) > dq_lwm
  <2>1. /\ DqCount = DqLen(dq) /\ DqLen(dq) \in Int /\ dq_lwm \in Int
        /\ x \in DOMAIN DqWhere /\ y \in DOMAIN DqWhere
        /\ DqThere(dq)[x] = DqLen(dq) /\ DqThere(dq)[y] = dq_lwm + 1 - DqLen(dq)
    BY <1>2, DqFacts, DqCountIs, DqPlace, DqThereIs, DqSizes
  <2> HIDE DEF x, y
  <2>2. \A w : WaitingAt(w) = Asleep(s, pc, w) /\ WokenAt(w) = Awake(s, pc, w)
    BY DEF WaitingAt, WokenAt, Woken, Runs, Asleep, Awake
  <2>3. Cardinality(Awake(s, pc, y)) \in Nat
    BY AwakeFinite
  <2> QED BY <1>1, <2>1, <2>2, <2>3 DEF Enough
<1>3. DqNoLostWakeup
  BY <1>2 DEF DqNoLostWakeup
<1>4. SleepersAgree
  BY <1>1 DEF Waits, Sleepers, SleepersAgree, On
<1> QED BY <1>3, <1>4

\* For any threads, low-water mark and size that divides the range of the indices: no
\* wakeup of a data queue is lost, to those who pop nor to those who push, until an
\* item is overwritten.
THEOREM DataQueueServes == DataQueueSpec => [](DqNoLostWakeup /\ SleepersAgree)
<1>1. BlockingInit /\ DqInit => DqInv
  BY DqFirst
<1>2. DqInv /\ [DataQueueNext]_dataQueueVars => DqInv'
  BY DqNextStep DEF DqGood
<1> QED BY <1>1, <1>2, DqServes, PTL DEF DataQueueSpec

-----------------------------------------------------------------------------
(* Pipe and poll.                                                          *)

\* the places of a poll, at the pipe and after both insertions, of a read and of a write
PpPolls == {"poll_add", "poll_test", "poll_wait", "poll_asleep", "poll_unlink",
            "poll_unlink_reader"}
PpPollsBoth == {"poll_test", "poll_wait", "poll_asleep", "poll_unlink"}
PpReads == {"rd_lock", "rd_wake", "rd_wake_writer", "rd_wait", "rd_asleep"}
PpWrites == {"wr_lock", "wr_again", "wr_wake_reader", "wr_end", "wr_wait", "wr_asleep"}

PpNode == [thread : Thread, key : {{}, PollKey}]
PpQueue == [flag : BOOLEAN, nodes : Seq(PpNode)]
WaitQueues == [reader : PpQueue, writer : PpQueue, triggered : SUBSET Thread]
PipeState ==
    [fifo : 0 .. PipeSize, readers : SUBSET PipeReader, writers : SUBSET PipeWriter,
     lock : Thread \cup {Nil}, left : [Thread -> Nat]]

\* who waits in a wait queue is in no list of the kernel
PpThreads(j) ==
    j \in SleepState /\ j.timer \subseteq j.asleep /\ \A l \in WaitList : j.list[l] = << >>

PpTypes ==
    /\ PpThreads(s) /\ EachThread(pc) /\ EachThread(loc)
    /\ pipe \in PipeState /\ wq \in WaitQueues
    /\ IsInjective(wq.reader.nodes) /\ IsInjective(wq.writer.nodes)

\* who is where, and who sleeps
PpRoles ==
    /\ \A t \in Thread :
          /\ pc[t] \in PpReads \cup PpPolls => t \in pipe.readers
          /\ pc[t] \in PpWrites => t \in PipeWriter
          /\ t \in s.asleep => pc[t] \in {"rd_asleep", "wr_asleep", "poll_asleep"}
          /\ t \in s.timer => pc[t] = "poll_asleep"
          /\ pc[t] \in PpReads \cup PpPolls \cup PpWrites \cup {"user"}

\* a poll that sleeps without a node in the readers' wait queue
Forgotten(t) == pc[t] = "poll_asleep" /\ ~Linked(t)

\* The readers' wait queue has the nodes of the sleeping readers, and of the polls
\* that have been linked and whose table is not triggered.
PpReaders ==
    /\ \A n \in ToSet(wq.reader.nodes) :
          /\ n.thread \in PipeReader
          /\ \/ n.key = {} /\ n.thread \in s.asleep /\ pc[n.thread] = "rd_asleep"
             \/ n.key = PollKey /\ pc[n.thread] \in PpPolls
    /\ \A t \in Thread :
          /\ t \in s.asleep /\ pc[t] = "rd_asleep" => Node(t, {}) \in ToSet(wq.reader.nodes)
          /\ pc[t] \in PpPolls =>
                \/ t \in wq.triggered \/ ~Linked(t)
                \/ Node(t, PollKey) \in ToSet(wq.reader.nodes)
          /\ t \in s.asleep /\ pc[t] = "poll_asleep" => t \notin wq.triggered

\* The writers' wait queue has the nodes of the sleeping writers, and of polls.
PpWriters ==
    /\ \A n \in ToSet(wq.writer.nodes) :
          \/ n.key = {} /\ n.thread \in s.asleep /\ pc[n.thread] = "wr_asleep"
          \/ n.key = PollKey /\ pc[n.thread] \in PpPollsBoth
    /\ \A t \in Thread :
          t \in s.asleep /\ pc[t] = "wr_asleep" => Node(t, {}) \in ToSet(wq.writer.nodes)

\* there is nothing to read, and somebody may still write
PpQuiet == pipe.fifo = 0 /\ pipe.writers # {}

\* Between the look at the pipe and the suspension whatever arrives leaves a trace:
\* the flag of the queue, a triggered table, or a writer that is about to wake it.
PpServed ==
    \A t \in PipeReader :
       /\ pc[t] \in {"rd_wake_writer", "rd_wait"} => PpQuiet \/ WakeIsDue \/ wq.reader.flag
       /\ pc[t] = "poll_wait" => PpQuiet \/ WakeIsDue \/ t \in wq.triggered \/ ~Linked(t)
       /\ t \in s.asleep => PpQuiet \/ WakeIsDue \/ Forgotten(t)

\* a writer is about to look at the pipe
AtLock(u) == pc[u] \in {"wr_lock", "wr_again"}

\* A reader that has found nothing has told the writers: one has been resumed or
\* will find the flag, unless one is about to wake the reader.
PpGoing ==
    /\ \A t \in PipeReader :
          (pc[t] = "rd_wait" /\ ~wq.reader.flag) \/ (pc[t] = "rd_asleep" /\ t \in s.asleep) =>
             WakeIsDue \/ wq.writer.flag \/ \E u \in PipeWriter : AtLock(u)
    /\ wq.writer.flag /\ (\E t \in PipeWriter : pc[t] = "wr_asleep" /\ t \in s.asleep) =>
          \E u \in PipeWriter : pc[u] = "wr_asleep" /\ u \notin s.asleep

PpInv == PpTypes /\ PpRoles /\ PpReaders /\ PpWriters /\ PpServed /\ PpGoing

\* One thread reads the pipe: when the last writer closes it, rt_wqueue_wakeup resumes
\* one of the readers.
OneReader == \A t, u \in PipeReader : t = u

LEMMA NodeIs ==
    /\ PollKey # {} /\ "IN" \in PollKey /\ "OUT" \notin PollKey
    /\ \A t, x : Node(t, x).thread = t /\ Node(t, x).key = x
    /\ \A t \in Thread : Node(t, {}) \in PpNode /\ Node(t, PollKey) \in PpNode
    /\ \A n \in PpNode : n = Node(n.thread, n.key) /\ n.thread \in Thread /\ n.key \in {{}, PollKey}
BY DEF PollKey, Node, PpNode

\* the lists of threads that the kernel keeps are empty: nobody is unlinked
LEMMA PpResumeIs ==
    ASSUME NEW j, PpThreads(j), NEW t, NEW r, r = rt_thread_resume(j, t)
    PROVE  PpThreads(r) /\ r.asleep = j.asleep \ {t} /\ r.timer = j.timer \ {t}
<1>1. CASE t \notin j.asleep
  BY <1>1 DEF rt_thread_resume, PpThreads
<1>2. CASE t \in j.asleep
  <2> DEFINE l == Unlinked(j.list, t)
             a == j.asleep \ {t}
             m == j.timer \ {t}
  <2>1. l = [x \in WaitList |-> << >>]
    <3>1. \A x \in WaitList : Without(j.list[x], t) = << >>
      BY DEF Without, PpThreads, ToSet
    <3> QED BY <3>1 DEF Unlinked
  <2>2. r = [j EXCEPT !.asleep = a, !.timer = m, !.list = l]
    BY <1>2 DEF rt_thread_resume
  <2>3. j \in SleepState /\ a \in SUBSET Thread /\ m \in SUBSET Thread
        /\ l \in [WaitList -> Seq(Thread)] /\ m \subseteq a
    BY <2>1 DEF PpThreads, SleepState
  <2>4. \A x \in WaitList : l[x] = << >>
    BY <2>1
  <2>5. a = j.asleep \ {t} /\ m = j.timer \ {t}
    OBVIOUS
  <2> HIDE DEF a, m, l
  <2>6. r \in SleepState /\ r.asleep = a /\ r.timer = m /\ r.list = l
    BY Zenon, <2>2, <2>3 DEF SleepState
  <2> QED BY <2>3, <2>4, <2>5, <2>6 DEF PpThreads
<1> QED BY <1>1, <1>2

\* the wakeup function of node n accepts the events x
Accepts(n, x) == n.key = {} \/ n.key \cap x # {}

LEMMA ServedIs ==
    ASSUME NEW q, wq[q].nodes \in Seq(PpNode), NEW x
    PROVE  \/ Served(q, x) = 0 /\ \A n \in ToSet(wq[q].nodes) : ~Accepts(n, x)
           \/ /\ Served(q, x) # 0
              /\ wq[q].nodes[Served(q, x)] \in ToSet(wq[q].nodes)
              /\ Accepts(wq[q].nodes[Served(q, x)], x)
<1> DEFINE d == wq[q].nodes
           I == {i \in 1 .. Len(d) : Accepts(d[i], x)}
<1>1. Served(q, x) = IF I # {} THEN Min(I) ELSE 0
  BY DEF Served, SelectInSeq, Accepts
<1>2. I \in SUBSET Nat /\ DOMAIN d = 1 .. Len(d)
  BY LenProperties
<1>3. CASE I # {}
  <2>1. \E i \in I : \A j \in I : i <= j
    BY Zenon, <1>2, <1>3, LeastElement
  <2>2. Min(I) \in I
    BY Zenon, <2>1 DEF Min
  <2>3. Served(q, x) \in 1 .. Len(d) /\ Accepts(d[Served(q, x)], x)
    BY <1>1, <1>3, <2>2
  <2> QED BY <1>2, <2>3 DEF ToSet
<1>4. CASE I = {}
  BY Zenon, <1>1, <1>2, <1>4 DEF ToSet
<1> QED BY <1>3, <1>4

\* queue q of w with its flag set and, unless i is 0, without node n
WokenOf(w, q, i, n) ==
    IF i = 0 THEN [w EXCEPT ![q].flag = TRUE]
    ELSE [w EXCEPT ![q] = [flag |-> TRUE, nodes |-> Without(@.nodes, n)],
                   !.triggered = IF n.key = {} THEN @ ELSE @ \cup {n.thread}]

\* what has become of the queues w when v is WokenOf(w, q, i, n)
IsWoken(w, q, i, n, v) ==
    /\ v \in WaitQueues /\ v[q].flag /\ IsInjective(v[q].nodes)
    /\ q = "reader" => v.writer = w.writer
    /\ q = "writer" => v.reader = w.reader
    /\ i = 0 => ToSet(v[q].nodes) = ToSet(w[q].nodes) /\ v.triggered = w.triggered
    /\ i # 0 => /\ ToSet(v[q].nodes) = ToSet(w[q].nodes) \ {n}
                /\ v.triggered = IF n.key = {} THEN w.triggered
                                 ELSE w.triggered \cup {n.thread}

LEMMA WokenIs ==
    ASSUME NEW w, w \in WaitQueues,
           NEW q \in {"reader", "writer"}, NEW i, NEW n,
           IsInjective(w[q].nodes), i # 0 => n \in ToSet(w[q].nodes),
           NEW v, v = WokenOf(w, q, i, n)
    PROVE  IsWoken(w, q, i, n, v)
<1> DEFINE d == w[q].nodes
<1>1. d \in Seq(PpNode) /\ w[q] \in PpQueue
  BY DEF PpQueue, WaitQueues
<1>2. CASE i = 0
  <2>1. v = [w EXCEPT ![q].flag = TRUE]
    BY <1>2 DEF WokenOf
  <2>2. /\ v[q] = [w[q] EXCEPT !.flag = TRUE] /\ v.triggered = w.triggered
        /\ \A p \in {"reader", "writer"} \ {q} : v[p] = w[p]
        /\ v = [reader |-> v.reader, writer |-> v.writer, triggered |-> v.triggered]
    BY Zenon, <2>1 DEF WaitQueues
  <2> QED BY ZenonT(40), <1>1, <1>2, <2>2 DEF PpQueue, WaitQueues, IsWoken
<1>3. CASE i # 0
  <2> DEFINE e == Without(d, n)
             z == IF n.key = {} THEN w.triggered ELSE w.triggered \cup {n.thread}
             c == [flag |-> TRUE, nodes |-> e]
  <2>1. e \in Seq(PpNode) /\ IsInjective(e) /\ ToSet(e) = ToSet(d) \ {n}
    BY <1>1, WithoutElements
  <2>2. n \in PpNode
    <3>1. n \in ToSet(d) /\ d \in Seq(PpNode)
      BY <1>1, <1>3
    <3>2. \A y \in DOMAIN d : d[y] \in PpNode
      BY ONLY <3>1
    <3> QED BY ONLY <3>1, <3>2 DEF ToSet
  <2>3. z \in SUBSET Thread
    BY <2>2 DEF PpNode, WaitQueues
  <2>4. v = [w EXCEPT ![q] = c, !.triggered = z]
    BY Zenon, <1>3 DEF WokenOf
  <2>5. c.flag /\ c.nodes = e /\ c \in PpQueue
    BY <2>1 DEF PpQueue
  <2> HIDE DEF e, z, c
  <2>6. v[q] = c /\ v.triggered = z /\ \A p \in {"reader", "writer"} \ {q} : v[p] = w[p]
    BY Zenon, <2>4 DEF WaitQueues
  <2>7. v = [reader |-> v.reader, writer |-> v.writer, triggered |-> v.triggered]
    BY Zenon, <2>4 DEF WaitQueues
  <2>8. v \in WaitQueues
    <3>1. \A p \in {"reader", "writer"} : v[p] \in PpQueue
      BY <2>5, <2>6 DEF WaitQueues
    <3>2. v.reader = v["reader"] /\ v.writer = v["writer"] /\ v.triggered \in SUBSET Thread
      BY <2>3, <2>6
    <3> QED BY <2>7, <3>1, <3>2 DEF WaitQueues
  <2>9. v[q].flag /\ v[q].nodes = e
    BY <2>5, <2>6
  <2>10. (q = "reader" => v.writer = w.writer) /\ (q = "writer" => v.reader = w.reader)
    BY <2>6
  <2> QED BY <1>3, <2>1, <2>6, <2>8, <2>9, <2>10 DEF z, IsWoken
<1> QED BY <1>2, <1>3

\* a wakeup of queue q for the events x makes v of the queues w, and r of the threads j
Wakes(w, q, x, j, v, r) ==
    /\ v \in WaitQueues /\ v[q].flag /\ IsInjective(v[q].nodes) /\ PpThreads(r)
    /\ q = "reader" => v.writer = w.writer
    /\ q = "writer" => v.reader = w.reader
    /\ \/ /\ \A n \in ToSet(w[q].nodes) : ~Accepts(n, x)
          /\ ToSet(v[q].nodes) = ToSet(w[q].nodes) /\ v.triggered = w.triggered /\ r = j
       \/ \E n \in ToSet(w[q].nodes) :
             /\ Accepts(n, x)
             /\ ToSet(v[q].nodes) = ToSet(w[q].nodes) \ {n}
             /\ v.triggered = IF n.key = {} THEN w.triggered ELSE w.triggered \cup {n.thread}
             /\ r.asleep = j.asleep \ {n.thread} /\ r.timer = j.timer \ {n.thread}

\* the nodes of the queue that is woken are still those of wq
LEMMA WakeupIs ==
    ASSUME NEW w, w \in WaitQueues, NEW q \in {"reader", "writer"},
           w[q] = wq[q], IsInjective(w[q].nodes), NEW j, PpThreads(j), NEW x,
           NEW r, r = wqueue_resumed(j, q, x), NEW v, v = wqueue_woken(w, q, x)
    PROVE  Wakes(w, q, x, j, v, r)
<1> DEFINE i == Served(q, x)
           n == wq[q].nodes[i]
           d == w[q].nodes
<1>1. wq[q].nodes \in Seq(PpNode)
  BY DEF PpQueue, WaitQueues
<1>2. /\ i = 0 => \A m \in ToSet(d) : ~Accepts(m, x)
      /\ i # 0 => n \in ToSet(d) /\ Accepts(n, x)
  BY <1>1, ServedIs
<1>3. v = WokenOf(w, q, i, n)
  BY Zenon DEF wqueue_woken, WokenOf
<1>4. r = IF i = 0 THEN j ELSE rt_thread_resume(j, n.thread)
  BY DEF wqueue_resumed
<1> HIDE DEF i, n
<1>5. /\ v \in WaitQueues /\ v[q].flag /\ IsInjective(v[q].nodes)
      /\ q = "reader" => v.writer = w.writer
      /\ q = "writer" => v.reader = w.reader
      /\ i = 0 => ToSet(v[q].nodes) = ToSet(d) /\ v.triggered = w.triggered
      /\ i # 0 => /\ ToSet(v[q].nodes) = ToSet(d) \ {n}
                  /\ v.triggered = IF n.key = {} THEN w.triggered
                                   ELSE w.triggered \cup {n.thread}
  <2>1. IsWoken(w, q, i, n, v)
    BY <1>2, <1>3, WokenIs
  <2> QED BY <2>1 DEF IsWoken
<1>6. CASE i = 0
  BY <1>2, <1>4, <1>5, <1>6 DEF Wakes
<1>7. CASE i # 0
  <2>1. PpThreads(r) /\ r.asleep = j.asleep \ {n.thread} /\ r.timer = j.timer \ {n.thread}
    BY <1>4, <1>7, PpResumeIs
  <2> QED BY Zenon, <1>2, <1>5, <1>7, <2>1 DEF Wakes
<1> QED BY <1>6, <1>7

LEMMA QueueNodes ==
    ASSUME NEW w, w \in WaitQueues
    PROVE  ToSet(w.reader.nodes) \subseteq PpNode /\ ToSet(w.writer.nodes) \subseteq PpNode
<1>1. w.reader.nodes \in Seq(PpNode) /\ w.writer.nodes \in Seq(PpNode)
  BY DEF WaitQueues, PpQueue
<1>2. \A d \in Seq(PpNode) : \A i \in DOMAIN d : d[i] \in PpNode
  OBVIOUS
<1>3. \A d \in Seq(PpNode) : ToSet(d) \subseteq PpNode
  BY ONLY <1>2 DEF ToSet
<1> QED BY ONLY <1>1, <1>3

\* Whatever wakes the reader's queue wakes the reader, or triggers its poll.
LEMMA ReaderWakes ==
    ASSUME PpInv, OneReader, NEW x, "IN" \in x,
           NEW r, r = wqueue_resumed(s, "reader", x), NEW v, v = wqueue_woken(wq, "reader", x)
    PROVE  /\ v \in WaitQueues /\ PpThreads(r) /\ v.writer = wq.writer
           /\ v.reader.flag /\ IsInjective(v.reader.nodes) /\ ToSet(v.reader.nodes) = {}
           /\ r.asleep \subseteq s.asleep /\ s.asleep \ PipeReader \subseteq r.asleep
           /\ \A t \in PipeReader : t \in r.asleep => Forgotten(t) /\ t \notin v.triggered
           /\ r.timer \subseteq s.timer
           /\ wq.triggered \subseteq v.triggered
           /\ \A t \in Thread : pc[t] \in PpPolls => t \in v.triggered \/ ~Linked(t)
<1> DEFINE R == ToSet(wq.reader.nodes)
<1>1. /\ wq \in WaitQueues /\ PpThreads(s) /\ s.asleep \subseteq Thread /\ s.timer \subseteq s.asleep
      /\ IsInjective(wq.reader.nodes) /\ R \subseteq PpNode
  <2>1. wq \in WaitQueues
    BY DEF PpInv, PpTypes
  <2> QED BY <2>1, QueueNodes DEF PpInv, PpTypes, PpThreads, SleepState
<1>2. /\ \A n \in R : /\ n.thread \in PipeReader
                      /\ \/ n.key = {} /\ n.thread \in s.asleep /\ pc[n.thread] = "rd_asleep"
                         \/ n.key = PollKey /\ pc[n.thread] \in PpPolls
      /\ \A t \in Thread :
            /\ pc[t] \in PpPolls => t \in wq.triggered \/ ~Linked(t) \/ Node(t, PollKey) \in R
            /\ t \in s.asleep /\ pc[t] = "rd_asleep" => Node(t, {}) \in R
            /\ t \in s.asleep /\ pc[t] = "poll_asleep" => t \notin wq.triggered
  BY DEF PpInv, PpReaders
<1>3. /\ \A t \in PipeReader : t \in s.asleep => pc[t] \in {"rd_asleep", "poll_asleep"}
      /\ \A t \in Thread : pc[t] \in PpPolls => t \in PipeReader
  BY PipeAssumption DEF PpInv, PpTypes, PipeState, PpRoles, PpWrites
<1>4. Wakes(wq, "reader", x, s, v, r)
  BY <1>1, WakeupIs
<1>5. /\ v \in WaitQueues /\ PpThreads(r) /\ v.writer = wq.writer
      /\ v.reader.flag /\ IsInjective(v.reader.nodes)
  BY <1>4 DEF Wakes
<1>8. \/ /\ \A n \in R : ~Accepts(n, x)
         /\ ToSet(v.reader.nodes) = R /\ v.triggered = wq.triggered /\ r = s
      \/ \E n \in R :
            /\ ToSet(v.reader.nodes) = R \ {n}
            /\ v.triggered = IF n.key = {} THEN wq.triggered ELSE wq.triggered \cup {n.thread}
            /\ r.asleep = s.asleep \ {n.thread} /\ r.timer = s.timer \ {n.thread}
  BY Zenon, <1>4 DEF Wakes
<1> HIDE DEF R
<1>6. CASE /\ \A n \in R : ~Accepts(n, x)
           /\ ToSet(v.reader.nodes) = R /\ v.triggered = wq.triggered /\ r = s
  <2>1. R = {}
    BY <1>2, <1>6, NodeIs DEF Accepts
  <2>2. \A t \in PipeReader : t \in s.asleep => Forgotten(t) /\ t \notin wq.triggered
    BY <1>2, <1>3, <2>1, PipeAssumption DEF PpPolls, Forgotten
  <2> QED BY <1>1, <1>2, <1>5, <1>6, <2>1, <2>2
<1>7. ASSUME NEW n \in R, ToSet(v.reader.nodes) = R \ {n},
             v.triggered = IF n.key = {} THEN wq.triggered ELSE wq.triggered \cup {n.thread},
             r.asleep = s.asleep \ {n.thread}, r.timer = s.timer \ {n.thread}
      PROVE  /\ ToSet(v.reader.nodes) = {}
             /\ r.asleep \subseteq s.asleep /\ s.asleep \ PipeReader \subseteq r.asleep
             /\ \A t \in PipeReader : t \in r.asleep => Forgotten(t) /\ t \notin v.triggered
             /\ r.timer \subseteq s.timer
             /\ wq.triggered \subseteq v.triggered
             /\ \A t \in Thread : pc[t] \in PpPolls => t \in v.triggered \/ ~Linked(t)
  <2>1. n.thread \in PipeReader /\ \A t \in PipeReader : t = n.thread
    BY <1>2 DEF OneReader
  <2>2. \A m \in R : m = n
    <3>1. \A m \in R : m.thread = n.thread /\ m.key = n.key
      BY Zenon, <1>2, <2>1, NodeIs DEF PpPolls
    <3>2. \A m \in R : m = Node(m.thread, m.key)
      BY <1>1, NodeIs
    <3> QED BY <3>1, <3>2
  <2>3. \A t \in Thread : pc[t] \in PpPolls => t \in v.triggered \/ ~Linked(t)
    BY <1>2, <1>3, <1>7, <2>1, NodeIs DEF PpPolls
  <2> QED BY <1>1, <1>7, <2>1, <2>2, <2>3
<1> QED BY Zenon, <1>5, <1>6, <1>7, <1>8

\* A wakeup of the writers' queue that no poll waits for wakes a writer, if one
\* sleeps; it may follow one of the reader's queue, which leaves the writers alone.
LEMMA WriterWakes ==
    ASSUME PpInv, NEW w, w \in WaitQueues, w.writer = wq.writer,
           NEW j, PpThreads(j), j.asleep \subseteq s.asleep, s.asleep \ PipeReader \subseteq j.asleep,
           NEW x, x \cap PollKey = {} \/ \A t \in Thread : pc[t] \notin PpPolls,
           NEW r, r = wqueue_resumed(j, "writer", x), NEW v, v = wqueue_woken(w, "writer", x)
    PROVE  /\ v \in WaitQueues /\ PpThreads(r) /\ v.reader = w.reader /\ v.triggered = w.triggered
           /\ v.writer.flag /\ IsInjective(v.writer.nodes)
           /\ r.asleep \subseteq j.asleep /\ j.asleep \ PipeWriter \subseteq r.asleep
           /\ r.timer \subseteq j.timer
           /\ \A n \in ToSet(v.writer.nodes) :
                 n \in ToSet(wq.writer.nodes) /\ (n.key = {} => n.thread \in r.asleep)
           /\ \A t \in r.asleep : pc[t] = "wr_asleep" => Node(t, {}) \in ToSet(v.writer.nodes)
           /\ (\E t \in PipeWriter : pc[t] = "wr_asleep" /\ t \in s.asleep) =>
                 \E t \in PipeWriter : pc[t] = "wr_asleep" /\ t \notin r.asleep
<1> DEFINE W == ToSet(wq.writer.nodes)
<1>1. /\ s.asleep \subseteq Thread /\ IsInjective(wq.writer.nodes) /\ W \subseteq PpNode
  <2>1. wq \in WaitQueues
    BY DEF PpInv, PpTypes
  <2> QED BY <2>1, QueueNodes DEF PpInv, PpTypes, PpThreads, SleepState
<1>2. /\ \A n \in W : \/ n.key = {} /\ n.thread \in s.asleep /\ pc[n.thread] = "wr_asleep"
                      \/ n.key = PollKey /\ pc[n.thread] \in PpPollsBoth
      /\ \A t \in Thread : t \in s.asleep /\ pc[t] = "wr_asleep" => Node(t, {}) \in W
  BY DEF PpInv, PpWriters
<1>3. \A t \in Thread : pc[t] = "wr_asleep" => t \in PipeWriter /\ t \notin PipeReader
  BY PipeAssumption DEF PpInv, PpRoles, PpWrites
<1>4. Wakes(w, "writer", x, j, v, r)
  BY <1>1, WakeupIs
<1>5. /\ v \in WaitQueues /\ PpThreads(r) /\ v.reader = w.reader
      /\ v.writer.flag /\ IsInjective(v.writer.nodes)
  BY <1>4 DEF Wakes
<1>6. \A n \in W : Accepts(n, x) <=> n.key = {}
  <2>1. \A n \in W : n.key = PollKey => n.thread \in Thread /\ pc[n.thread] \in PpPolls
    BY <1>1, <1>2, NodeIs DEF PpPolls, PpPollsBoth
  <2>2. \A n \in W : n.key = PollKey => n.key \cap x = {}
    BY <2>1
  <2> QED BY <1>2, <2>2 DEF Accepts
<1>7. \A n \in W : n.key = {} => n.thread \in j.asleep /\ n.thread \in PipeWriter
  BY <1>1, <1>2, <1>3, NodeIs
<1>8. \/ /\ \A n \in W : ~Accepts(n, x)
         /\ ToSet(v.writer.nodes) = W /\ v.triggered = w.triggered /\ r = j
      \/ \E n \in W :
            /\ Accepts(n, x) /\ ToSet(v.writer.nodes) = W \ {n}
            /\ v.triggered = IF n.key = {} THEN w.triggered ELSE w.triggered \cup {n.thread}
            /\ r.asleep = j.asleep \ {n.thread} /\ r.timer = j.timer \ {n.thread}
  BY Zenon, <1>4 DEF Wakes
<1> HIDE DEF W
<1>9. CASE /\ \A n \in W : ~Accepts(n, x)
           /\ ToSet(v.writer.nodes) = W /\ v.triggered = w.triggered /\ r = j
  <2>1. \A t \in Thread : pc[t] = "wr_asleep" => t \notin s.asleep
    BY <1>2, <1>6, <1>9, NodeIs
  <2>2. \A t \in r.asleep : pc[t] # "wr_asleep"
    BY <1>1, <1>9, <2>1
  <2>3. \A t \in PipeWriter : pc[t] = "wr_asleep" => t \notin s.asleep
    BY <2>1, PipeAssumption
  <2> QED BY <1>5, <1>6, <1>9, <2>2, <2>3 DEF W
<1>10. ASSUME NEW n \in W, Accepts(n, x), ToSet(v.writer.nodes) = W \ {n},
              v.triggered = IF n.key = {} THEN w.triggered ELSE w.triggered \cup {n.thread},
              r.asleep = j.asleep \ {n.thread}, r.timer = j.timer \ {n.thread}
       PROVE  /\ v.triggered = w.triggered
              /\ r.asleep \subseteq j.asleep /\ j.asleep \ PipeWriter \subseteq r.asleep
              /\ r.timer \subseteq j.timer
              /\ \A m \in ToSet(v.writer.nodes) : m \in W /\ (m.key = {} => m.thread \in r.asleep)
              /\ \A t \in r.asleep : pc[t] = "wr_asleep" => Node(t, {}) \in ToSet(v.writer.nodes)
              /\ (\E t \in PipeWriter : pc[t] = "wr_asleep" /\ t \in s.asleep) =>
                    \E t \in PipeWriter : pc[t] = "wr_asleep" /\ t \notin r.asleep
  <2>1. /\ n.key = {} /\ n.thread \in j.asleep /\ n.thread \in PipeWriter
        /\ pc[n.thread] = "wr_asleep" /\ n = Node(n.thread, {})
    <3>1. n.key = {}
      BY <1>6, <1>10
    <3> QED BY Zenon, <1>1, <1>2, <1>7, <1>10, <3>1, NodeIs
  <2>2. v.triggered = w.triggered /\ r.asleep \subseteq j.asleep /\ r.timer \subseteq j.timer
        /\ j.asleep \ PipeWriter \subseteq r.asleep
    BY <1>10, <2>1
  <2>3. \A m \in W \ {n} : m.key = {} => m.thread \in r.asleep
    <3> SUFFICES ASSUME NEW m \in W \ {n}, m.key = {} PROVE m.thread \in r.asleep
      OBVIOUS
    <3>1. m = Node(m.thread, {}) /\ m.thread \in j.asleep
      BY Zenon, <1>1, <1>7, NodeIs
    <3>2. m.thread # n.thread
      BY <2>1, <3>1
    <3> QED BY <1>10, <3>1, <3>2
  <2>4. \A t \in r.asleep : pc[t] = "wr_asleep" => Node(t, {}) \in W \ {n}
    <3> SUFFICES ASSUME NEW t \in r.asleep, pc[t] = "wr_asleep" PROVE Node(t, {}) \in W \ {n}
      OBVIOUS
    <3>1. t \in s.asleep /\ t \in Thread /\ t # n.thread
      BY <1>1, <1>10
    <3>2. Node(t, {}).thread = t
      BY NodeIs
    <3> QED BY <1>2, <3>1, <3>2
  <2>5. n.thread \in PipeWriter /\ pc[n.thread] = "wr_asleep" /\ n.thread \notin r.asleep
    BY <1>10, <2>1
  <2> QED BY <1>10, <2>2, <2>3, <2>4, <2>5
<1>11. W = ToSet(wq.writer.nodes)
  BY DEF W
<1> QED BY Zenon, <1>5, <1>8, <1>9, <1>10, <1>11

LEMMA NodeThreads ==
    ASSUME PpInv
    PROVE  /\ \A n \in ToSet(wq.reader.nodes) : n = Node(n.thread, n.key) /\ n.thread \in Thread
           /\ \A n \in ToSet(wq.writer.nodes) : n = Node(n.thread, n.key) /\ n.thread \in Thread
<1>1. wq \in WaitQueues
  BY DEF PpInv, PpTypes
<1> QED BY <1>1, QueueNodes, NodeIs

\* where the threads are after a step of thread t
PcMoves(t, x) == EachThread(pc') /\ pc'[t] = x /\ \A u \in Thread \ {t} : pc'[u] = pc[u]

\* the steps of the reader that look at the pipe, with nobody woken
LEMMA ReaderMoves ==
    ASSUME PpInv, OneReader, NEW t \in PipeReader, NEW x, PcMoves(t, x), s' = s, wq' = wq, loc' = loc,
           t \notin s.asleep,
           pc[t] \in {"user", "rd_lock"},
           x \in {"user", "rd_lock", "rd_wake", "rd_wake_writer"},
           x # "user" => t \in pipe.readers,
           x = "rd_wake_writer" => PpQuiet',
           PpTypes', pipe'.readers = pipe.readers
    PROVE  PpInv'
<1>1. t \in Thread /\ t \notin PipeWriter /\ pc'[t] = x
      /\ \A u \in Thread \ {t} : pc'[u] = pc[u]
  BY PipeAssumption DEF PcMoves
<1>2. PpRoles'
  BY <1>1 DEF PpInv, PpRoles, PpPolls, PpReads, PpWrites
<1>3. PpReaders'
  BY <1>1, NodeThreads DEF PpInv, Linked, PpReaders, PpPolls
<1>4. PpWriters'
  BY <1>1, NodeThreads DEF PpInv, PpWriters, PpPollsBoth
<1>5. PpServed'
  <2>1. \A u \in PipeReader : u = t
    BY DEF OneReader
  <2> QED BY <1>1, <2>1 DEF PpServed
<1>6. PpGoing'
  <2>1. \A u \in PipeReader : u = t
    BY DEF OneReader
  <2>2. \A u \in PipeWriter : u \in Thread \ {t}
    BY <1>1, PipeAssumption
  <2> QED BY <1>1, <2>1, <2>2 DEF PpInv, PpGoing, AtLock, WakeIsDue
<1> QED BY <1>2, <1>3, <1>4, <1>5, <1>6 DEF PpInv

\* the steps of a writer that look at the pipe; what it has put there is still
\* to be told
LEMMA WriterMoves ==
    ASSUME PpInv, NEW t \in PipeWriter, NEW x, PcMoves(t, x), s' = s, wq' = wq, loc' = loc,
           t \notin s.asleep,
           \/ pc[t] = "user" /\ x = "wr_lock" /\ PpQuiet' = PpQuiet
           \/ AtLock(t) /\ x \in {"wr_wake_reader", "wr_end"}
           \/ AtLock(t) /\ x = "user" /\ pipe.readers = {} /\ PpQuiet' = PpQuiet,
           PpTypes', pipe'.readers = pipe.readers
    PROVE  PpInv'
<1>1. t \in Thread /\ t \notin PipeReader /\ pc'[t] = x
      /\ \A u \in Thread \ {t} : pc'[u] = pc[u]
  BY PipeAssumption DEF PcMoves
<1>2. PpRoles'
  BY <1>1 DEF AtLock, PpInv, PpRoles, PpPolls, PpReads, PpWrites
<1>3. PpReaders'
  BY <1>1, NodeThreads DEF PpInv, Linked, PpReaders, PpPolls
<1>4. PpWriters'
  BY <1>1, NodeThreads DEF AtLock, PpInv, PpWriters, PpPollsBoth
<1>5. PpServed' /\ PpGoing'
  <2>1. \A u \in PipeReader : u \in Thread \ {t}
    BY <1>1, PipeAssumption
  <2>2. PpServed'
    BY <1>1, <2>1, PipeAssumption DEF PpInv, PpServed, WakeIsDue, Linked, Forgotten, AtLock
  <2>3. \A u \in PipeReader : pc[u] \in {"rd_wait", "rd_asleep"} => pipe.readers # {}
    BY PipeAssumption DEF PpInv, PpRoles, PpReads
  <2>4. PpGoing'
    BY <1>1, <2>1, <2>3, PipeAssumption DEF PpInv, PpGoing, WakeIsDue, AtLock
  <2> QED BY <2>2, <2>4
<1> QED BY <1>2, <1>3, <1>4, <1>5 DEF PpInv

\* the steps of poll that look at the pipe and at the table
LEMMA PollMoves ==
    ASSUME PpInv, OneReader, NEW t \in PipeReader, NEW x, PcMoves(t, x), s' = s, wq' = wq, loc' = loc,
           t \notin s.asleep, pipe' = pipe,
           pc[t] \in {"poll_test", "poll_wait"},
           x \in {"poll_test", "poll_wait", "poll_unlink"}, x = "poll_wait" => PpQuiet
    PROVE  PpInv'
<1>1. t \in Thread /\ t \notin PipeWriter /\ pc'[t] = x
      /\ \A u \in Thread \ {t} : pc'[u] = pc[u]
  BY PipeAssumption DEF PcMoves
<1>2. PpTypes'
  BY DEF PpInv, PpTypes, PcMoves
<1>3. PpRoles'
  BY <1>1 DEF PpInv, PpRoles, PpPolls, PpReads, PpWrites
<1>4. PpReaders'
  BY <1>1, NodeThreads DEF PpInv, Linked, PpReaders, PpPolls
<1>5. PpWriters'
  BY <1>1, NodeThreads DEF PpInv, PpWriters, PpPollsBoth
<1>6. PpServed' /\ PpGoing'
  <2>1. \A u \in PipeReader : u = t
    BY DEF OneReader
  <2>2. \A u \in PipeWriter : u \in Thread \ {t}
    BY <1>1, PipeAssumption
  <2>3. PpServed'
    BY <1>1, <2>1 DEF PpServed, PpQuiet, Forgotten
  <2>4. PpGoing'
    BY <1>1, <2>1, <2>2 DEF PpInv, PpGoing, AtLock, WakeIsDue
  <2> QED BY <2>3, <2>4
<1> QED BY <1>2, <1>3, <1>4, <1>5, <1>6 DEF PpInv

LEMMA PcIs ==
    ASSUME PpInv, NEW t \in Thread, NEW x, pc' = Placed(pc, t, x)
    PROVE  PcMoves(t, x)
BY DEF PpInv, PpTypes, EachThread, Placed, PcMoves

\* the reader wakes a writer
LEMMA ReaderWakesWriter ==
    ASSUME PpInv, OneReader, NEW t \in PipeReader, PipeGetWake(t) \/ PipeEmptyWake(t)
    PROVE  PpInv'
<1> DEFINE x == IF pc[t] = "rd_wake" THEN "user" ELSE "rd_wait"
<1>1. /\ t \in Thread /\ t \notin PipeWriter /\ t \notin s.asleep
      /\ pc[t] \in {"rd_wake", "rd_wake_writer"} /\ pc' = Placed(pc, t, x)
      /\ s' = wqueue_resumed(s, "writer", {"OUT"}) /\ wq' = wqueue_woken(wq, "writer", {"OUT"})
      /\ loc' = loc
  BY PipeAssumption DEF PipeGetWake, PipeEmptyWake, Runs, Goto, Placed
<1>2. /\ pipe' \in PipeState
      /\ pipe'.fifo = pipe.fifo /\ pipe'.readers = pipe.readers /\ pipe'.writers = pipe.writers
  <2>1. pipe \in PipeState
    BY DEF PpInv, PpTypes, PipeState
  <2>2. pipe' = pipe \/ pipe' = [pipe EXCEPT !.lock = Nil]
    BY DEF PipeGetWake, PipeEmptyWake
  <2> QED BY <2>1, <2>2 DEF PipeState
<1>3. pc'[t] = x /\ \A u \in Thread \ {t} : pc'[u] = pc[u]
  BY <1>1, PcIs DEF PcMoves
<1>4. x \in {"user", "rd_wait"} /\ (x = "rd_wait" <=> pc[t] = "rd_wake_writer")
  BY <1>1
<1> HIDE DEF x
<1>5. /\ wq' \in WaitQueues /\ PpThreads(s') /\ wq'.reader = wq.reader
      /\ wq'.triggered = wq.triggered /\ wq'.writer.flag /\ IsInjective(wq'.writer.nodes)
      /\ s'.asleep \subseteq s.asleep /\ s.asleep \ PipeWriter \subseteq s'.asleep
      /\ s'.timer \subseteq s.timer
      /\ \A n \in ToSet(wq'.writer.nodes) :
            n \in ToSet(wq.writer.nodes) /\ (n.key = {} => n.thread \in s'.asleep)
      /\ \A u \in s'.asleep : pc[u] = "wr_asleep" => Node(u, {}) \in ToSet(wq'.writer.nodes)
      /\ (\E u \in PipeWriter : pc[u] = "wr_asleep" /\ u \in s.asleep) =>
            \E u \in PipeWriter : pc[u] = "wr_asleep" /\ u \notin s'.asleep
  <2>1. wq \in WaitQueues /\ PpThreads(s) /\ {"OUT"} \cap PollKey = {}
    BY NodeIs DEF PpInv, PpTypes
  <2> QED BY <1>1, <2>1, WriterWakes
<1>6. PpTypes'
  BY <1>1, <1>2, <1>5, PcIs DEF PpInv, PpTypes, PcMoves, PipeState
<1>7. PpRoles'
  BY <1>1, <1>2, <1>3, <1>4, <1>5 DEF PpInv, PpRoles, PpPolls, PpReads, PpWrites
<1>8. PpReaders'
  BY <1>1, <1>3, <1>4, <1>5, NodeThreads, PipeAssumption DEF PpInv, Linked, PpReaders, PpPolls
<1>9. PpWriters'
  BY <1>1, <1>3, <1>4, <1>5, NodeThreads DEF PpInv, PpWriters, PpPollsBoth
<1>10. PpServed'
  <2>1. \A u \in PipeReader : u = t
    BY DEF OneReader
  <2> QED BY <1>1, <1>2, <1>3, <1>4, <1>5, <2>1, PipeAssumption DEF PpInv, PpServed, PpQuiet, WakeIsDue, Forgotten, Linked
<1>11. PpGoing'
  BY <1>1, <1>3, <1>5, PipeAssumption DEF PpGoing
<1> QED BY <1>6, <1>7, <1>8, <1>9, <1>10, <1>11 DEF PpInv

\* a writer tells the reader what it has put
LEMMA WriterWakesReader ==
    ASSUME PpInv, OneReader, NEW t \in PipeWriter, PipePutWake(t)
    PROVE  PpInv'
<1> DEFINE x == IF pc[t] = "wr_end" THEN "user" ELSE "wr_wait"
<1>1. /\ t \in Thread /\ t \notin PipeReader /\ t \notin s.asleep
      /\ pc[t] \in {"wr_wake_reader", "wr_end"} /\ pc' = Placed(pc, t, x)
      /\ s' = wqueue_resumed(s, "reader", {"IN"}) /\ wq' = wqueue_woken(wq, "reader", {"IN"})
      /\ pipe' = pipe /\ loc' = loc
  BY PipeAssumption DEF PipePutWake, Runs, Goto, Placed
<1>2. pc'[t] = x /\ \A u \in Thread \ {t} : pc'[u] = pc[u]
  BY <1>1, PcIs DEF PcMoves
<1>3. x \in {"user", "wr_wait"}
  OBVIOUS
<1> HIDE DEF x
<1>4. /\ wq' \in WaitQueues /\ PpThreads(s') /\ wq'.writer = wq.writer
      /\ wq'.reader.flag /\ IsInjective(wq'.reader.nodes) /\ ToSet(wq'.reader.nodes) = {}
      /\ s'.asleep \subseteq s.asleep /\ s.asleep \ PipeReader \subseteq s'.asleep
      /\ \A u \in PipeReader : u \in s'.asleep => Forgotten(u) /\ u \notin wq'.triggered
      /\ s'.timer \subseteq s.timer
      /\ wq.triggered \subseteq wq'.triggered
      /\ \A u \in Thread : pc[u] \in PpPolls => u \in wq'.triggered \/ ~Linked(u)
  BY <1>1, ReaderWakes
<1>5. PpTypes'
  BY <1>1, <1>4, PcIs DEF PpInv, PpTypes, PcMoves
<1>6. PpRoles'
  BY <1>1, <1>2, <1>3, <1>4 DEF PpInv, PpRoles, PpPolls, PpReads, PpWrites
<1>7. \A u \in s'.asleep : u \in Thread /\ u \in s.asleep /\ (pc[u] = "wr_asleep" \/ Forgotten(u))
  <2>1. \A u \in s'.asleep : u \in Thread /\ u \in s.asleep /\ (u \notin PipeReader \/ Forgotten(u))
    BY <1>4 DEF PpThreads, SleepState
  <2> QED BY <2>1 DEF PpInv, PpTypes, PipeState, PpRoles, PpReads, PpPolls
<1>8. PpReaders'
  <2>1. \A u \in Thread : pc'[u] \in PpPolls => pc[u] \in PpPolls
    BY <1>2, <1>3 DEF PpPolls
  <2>2. \A u \in Thread : u \in s'.asleep =>
           pc'[u] = pc[u] /\ pc[u] # "rd_asleep" /\ (pc[u] = "poll_asleep" => u \notin wq'.triggered)
    <3> SUFFICES ASSUME NEW u \in Thread, u \in s'.asleep
                 PROVE  pc'[u] = pc[u] /\ pc[u] # "rd_asleep" /\ (pc[u] = "poll_asleep" => u \notin wq'.triggered)
      OBVIOUS
    <3>1. u # t /\ pc[u] # "rd_asleep" /\ u \in s.asleep
      BY <1>1, <1>7 DEF Forgotten
    <3>2. pc[u] = "poll_asleep" => u \notin wq'.triggered
      BY <1>4, <3>1 DEF PpInv, PpTypes, PipeState, PpRoles, PpPolls
    <3> QED BY <1>2, <3>1, <3>2
  <2> QED BY <1>1, <1>4, <2>1, <2>2 DEF PpReaders, Linked
<1>9. PpWriters'
  <2>1. \A u \in Thread : pc[u] = "wr_asleep" => u \notin PipeReader
    BY PipeAssumption DEF PpInv, PpRoles, PpWrites
  <2> QED BY <1>1, <1>2, <1>3, <1>4, <2>1, NodeThreads DEF PpInv, PpWriters, PpPollsBoth
<1>10. PpServed'
  BY <1>1, <1>2, <1>3, <1>4, <1>7, PipeAssumption DEF PpServed, PpPolls, Linked, Forgotten
<1>11. PpGoing'
  BY <1>1, <1>2, <1>3, <1>4, PipeAssumption DEF PpInv, PpGoing, Forgotten
<1> QED BY <1>5, <1>6, <1>8, <1>9, <1>10, <1>11 DEF PpInv

LEMMA PipeOpenPreserves ==
    ASSUME PpInv, NEW t \in PipeReader \cup PipeWriter, PipeOpen(t)
    PROVE  PpInv'
<1>1. s' = s /\ pc' = pc /\ wq' = wq /\ loc' = loc
  BY DEF PipeOpen
<1>2. /\ pipe' \in PipeState /\ pipe.readers \subseteq pipe'.readers
      /\ pipe.writers \subseteq pipe'.writers /\ pipe'.fifo = pipe.fifo
  <2>1. pipe \in PipeState
    BY DEF PpInv, PpTypes, PipeState
  <2> QED BY <2>1 DEF PipeOpen, PipeState
<1>3. PpTypes'
  BY <1>1, <1>2 DEF PpInv, PpTypes, PipeState
<1>4. PpRoles' /\ PpReaders' /\ PpWriters'
  <2>1. PpRoles'
    BY <1>1, <1>2 DEF PpInv, PpRoles
  <2>2. PpReaders' /\ PpWriters'
    BY <1>1 DEF PpInv, Linked, PpReaders, PpWriters
  <2> QED BY <2>1, <2>2
<1>5. PpQuiet => PpQuiet'
  BY <1>2 DEF PpQuiet
<1>6. PpServed' /\ PpGoing'
  BY <1>1, <1>5 DEF PpInv, PpServed, PpGoing, WakeIsDue, AtLock, Linked, Forgotten
<1> QED BY <1>3, <1>4, <1>6 DEF PpInv

\* The last writer to close wakes the reader, the last reader a writer; poll
\* does not stand in the writers' queue when there is no reader.
LEMMA PipeClosePreserves ==
    ASSUME PpInv, OneReader, NEW t \in PipeReader \cup PipeWriter, PipeClose(t)
    PROVE  PpInv'
<1> DEFINE noW == pipe.writers \ {t} = {}
           noR == pipe.readers \ {t} = {}
           toR == {"IN", "ERR", "HUP"}
           toW == {"OUT", "ERR", "HUP"}
           r == IF noW THEN wqueue_resumed(s, "reader", toR) ELSE s
           v == IF noW THEN wqueue_woken(wq, "reader", toR) ELSE wq
<1>1. /\ t \in Thread /\ t \notin s.asleep /\ pc[t] = "user" /\ pc' = pc /\ loc' = loc
      /\ s' = IF noR THEN wqueue_resumed(r, "writer", toW) ELSE r
      /\ wq' = IF noR THEN wqueue_woken(v, "writer", toW) ELSE v
  <2>1. pipe \in PipeState
    BY DEF PpInv, PpTypes, PipeState
  <2> QED BY <2>1, PipeAssumption DEF PipeClose, Runs, PipeState
<1>2. /\ pipe' \in PipeState /\ pipe'.readers = pipe.readers \ {t}
      /\ pipe'.writers = pipe.writers \ {t} /\ (~noW => pipe'.fifo = pipe.fifo)
  <2>1. pipe \in PipeState
    BY DEF PpInv, PpTypes, PipeState
  <2> DEFINE b == pipe.readers \ {t}
             e == pipe.writers \ {t}
             gone == [pipe EXCEPT !.readers = b, !.writers = e]
  <2>2. /\ gone \in PipeState /\ gone.fifo = pipe.fifo /\ gone.readers = b /\ gone.writers = e
    BY Zenon, <2>1 DEF PipeState
  <2>3. pipe' = IF b = {} /\ e = {} THEN [gone EXCEPT !.fifo = 0] ELSE gone
    BY <2>2 DEF PipeClose
  <2> HIDE DEF gone
  <2> QED BY <2>2, <2>3, PipeAssumption DEF PipeState
<1>3. /\ wq \in WaitQueues /\ PpThreads(s) /\ IsInjective(wq.reader.nodes)
      /\ IsInjective(wq.writer.nodes) /\ "IN" \in toR
  BY DEF PpInv, PpTypes
<1>4. noR => \A u \in Thread : pc[u] \notin PpPolls
  BY <1>1 DEF PpInv, PpRoles, PpPolls
<1> HIDE DEF toR, toW, noW, noR
<1>5. noW => /\ v.reader.flag /\ ToSet(v.reader.nodes) = {}
             /\ \A u \in PipeReader : u \in r.asleep => Forgotten(u) /\ u \notin v.triggered
             /\ \A u \in Thread : pc[u] \in PpPolls => u \in v.triggered \/ ~Linked(u)
  BY <1>3, ReaderWakes
<1>6. /\ v \in WaitQueues /\ PpThreads(r) /\ v.writer = wq.writer /\ IsInjective(v.reader.nodes)
      /\ r.asleep \subseteq s.asleep /\ s.asleep \ PipeReader \subseteq r.asleep
      /\ r.timer \subseteq s.timer
  BY <1>3, ReaderWakes
<1>7. ~noW => r = s /\ v = wq
  OBVIOUS
<1> HIDE DEF r, v
<1>8. noR => /\ wq'.writer.flag
             /\ \A n \in ToSet(wq'.writer.nodes) :
                   n \in ToSet(wq.writer.nodes) /\ (n.key = {} => n.thread \in s'.asleep)
             /\ \A u \in s'.asleep : pc[u] = "wr_asleep" => Node(u, {}) \in ToSet(wq'.writer.nodes)
             /\ (\E u \in PipeWriter : pc[u] = "wr_asleep" /\ u \in s.asleep) =>
                   \E u \in PipeWriter : pc[u] = "wr_asleep" /\ u \notin s'.asleep
  BY <1>1, <1>4, <1>6, WriterWakes
<1>9. /\ wq' \in WaitQueues /\ PpThreads(s') /\ wq'.reader = v.reader
      /\ wq'.triggered = v.triggered /\ IsInjective(wq'.writer.nodes)
      /\ s'.asleep \subseteq r.asleep /\ r.asleep \ PipeWriter \subseteq s'.asleep
      /\ s'.timer \subseteq r.timer
  <2>1. CASE noR
    BY <1>1, <1>4, <1>6, <2>1, WriterWakes
  <2>2. CASE ~noR
    BY <1>1, <1>3, <1>6, <2>2
  <2> QED BY <2>1, <2>2
<1>10. ~noR => s' = r /\ wq' = v
  BY <1>1
<1>11. PpTypes'
  BY <1>1, <1>2, <1>6, <1>9 DEF PpInv, PpTypes, PipeState
<1>12. PpRoles'
  BY <1>1, <1>2, <1>6, <1>9 DEF PpInv, PpRoles, PpPolls, PpReads, PpWrites
<1>13. \A u \in s'.asleep : u \in Thread /\ u \in s.asleep
  BY <1>6, <1>9 DEF PpThreads, SleepState
<1>14. noW => \A u \in PipeReader : u \in s'.asleep => Forgotten(u) /\ u \notin wq'.triggered
  BY <1>5, <1>9
<1>15. \A u \in Thread : /\ pc[u] \in PpPolls \cup PpReads => u \in PipeReader /\ u \notin PipeWriter
                         /\ pc[u] = "wr_asleep" => u \notin PipeReader
  BY PipeAssumption DEF PpInv, PpTypes, PipeState, PpRoles, PpWrites
<1>16. PpReaders'
  <2>1. CASE noW
    BY <1>1, <1>5, <1>9, <1>13, <1>14, <1>15, <2>1 DEF PpReaders, PpPolls, PpReads, Linked, Forgotten
  <2>2. CASE ~noW
    BY <1>1, <1>7, <1>9, <1>13, <1>15, <2>2, NodeThreads DEF PpInv, PpReaders, PpPolls, PpReads, Linked
  <2> QED BY <2>1, <2>2
<1>17. PpWriters'
  <2>1. CASE noR
    BY <1>1, <1>8, <2>1 DEF PpInv, PpWriters
  <2>2. CASE ~noR
    BY <1>1, <1>6, <1>10, <1>13, <1>15, <2>2, NodeThreads DEF PpInv, PpWriters
  <2> QED BY <2>1, <2>2
<1>18. PpServed'
  <2>1. CASE noW
    BY <1>1, <1>5, <1>9, <1>14, <2>1, PipeAssumption DEF PpServed, PpPolls, Linked, Forgotten
  <2>2. CASE ~noW
    <3>1. PpQuiet' <=> PpQuiet
      BY <1>2, <2>2 DEF PpQuiet, noW
    <3> QED BY <1>1, <1>7, <1>9, <1>13, <2>2, <3>1 DEF PpInv, PpServed, WakeIsDue, Linked, Forgotten
  <2> QED BY <2>1, <2>2
<1>19. PpGoing'
  <2>1. \A u \in PipeReader :
           (pc'[u] = "rd_wait" /\ ~wq'.reader.flag) \/ (pc'[u] = "rd_asleep" /\ u \in s'.asleep) =>
              WakeIsDue' \/ wq'.writer.flag \/ \E m \in PipeWriter : AtLock(m)'
    <3>1. CASE noW
      BY <1>1, <1>5, <1>9, <1>14, <3>1 DEF Forgotten
    <3>2. CASE ~noW
      BY <1>1, <1>7, <1>8, <1>9, <1>10, <1>13, <3>2 DEF PpInv, PpGoing, WakeIsDue, AtLock
    <3> QED BY <3>1, <3>2
  <2>2. wq'.writer.flag /\ (\E u \in PipeWriter : pc'[u] = "wr_asleep" /\ u \in s'.asleep) =>
           \E u \in PipeWriter : pc'[u] = "wr_asleep" /\ u \notin s'.asleep
    <3>1. CASE noR
      BY <1>1, <1>8, <1>13, <3>1
    <3>2. CASE ~noR
      BY <1>1, <1>6, <1>10, <1>13, <3>2 DEF PpInv, PpGoing
    <3> QED BY <3>1, <3>2
  <2> QED BY <2>1, <2>2 DEF PpGoing
<1> QED BY <1>11, <1>12, <1>16, <1>17, <1>18, <1>19 DEF PpInv

-----------------------------------------------------------------------------
(* rt_wqueue_wait, for the queue of the reader and for that of the writers. *)

\* queue q of wq with flag f and nodes d
LEMMA QueueIs ==
    ASSUME wq \in WaitQueues, NEW q \in {"reader", "writer"}, NEW f \in BOOLEAN,
           NEW d \in Seq(PpNode),
           \/ wq' = [wq EXCEPT ![q] = [flag |-> f, nodes |-> d]]
           \/ wq' = [wq EXCEPT ![q].flag = f] /\ d = wq[q].nodes
           \/ wq' = [wq EXCEPT ![q].nodes = d] /\ f = wq[q].flag
    PROVE  /\ wq' \in WaitQueues /\ wq'.triggered = wq.triggered
           /\ wq'[q].flag = f /\ wq'[q].nodes = d
           /\ q = "reader" => wq'.writer = wq.writer
           /\ q = "writer" => wq'.reader = wq.reader
<1> DEFINE c == [flag |-> f, nodes |-> d]
<1>1. c \in PpQueue /\ c.flag = f /\ c.nodes = d
  BY DEF PpQueue
<1>2. wq' = [wq EXCEPT ![q] = c]
  <2>1. wq[q] \in PpQueue
    BY DEF WaitQueues
  <2>2. \/ c = [wq[q] EXCEPT !.flag = f] /\ wq' = [wq EXCEPT ![q] = [wq[q] EXCEPT !.flag = f]]
        \/ c = [wq[q] EXCEPT !.nodes = d] /\ wq' = [wq EXCEPT ![q] = [wq[q] EXCEPT !.nodes = d]]
        \/ wq' = [wq EXCEPT ![q] = c]
    BY <2>1 DEF PpQueue
  <2> QED BY <2>2
<1> HIDE DEF c
<1>3. wq'[q] = c /\ wq'.triggered = wq.triggered /\ \A p \in {"reader", "writer"} \ {q} : wq'[p] = wq[p]
  BY <1>2 DEF WaitQueues
<1>4. wq' \in WaitQueues
  BY <1>1, <1>2 DEF WaitQueues
<1> QED BY <1>1, <1>3, <1>4

\* the thread goes to sleep
LEMMA SleepIs ==
    ASSUME NEW j, PpThreads(j), NEW t \in Thread, NEW r, r = [j EXCEPT !.asleep = @ \cup {t}]
    PROVE  PpThreads(r) /\ r.asleep = j.asleep \cup {t} /\ r.timer = j.timer
<1> DEFINE a == j.asleep \cup {t}
<1>1. j \in SleepState /\ a \in SUBSET Thread /\ j.timer \subseteq a /\ a = j.asleep \cup {t}
  BY DEF PpThreads, SleepState
<1>2. r = [j EXCEPT !.asleep = a]
  OBVIOUS
<1> HIDE DEF a
<1>3. r \in SleepState /\ r.asleep = a /\ r.timer = j.timer /\ r.list = j.list
  BY Zenon, <1>1, <1>2 DEF SleepState
<1> QED BY <1>1, <1>3 DEF PpThreads

\* the reader at rt_wqueue_wait
LEMMA PipeReadWaitPreserves ==
    ASSUME PpInv, OneReader, NEW t \in PipeReader, PipeReadWait(t)
    PROVE  PpInv'
<1> DEFINE R == ToSet(wq.reader.nodes)
<1>1. /\ t \in Thread /\ t \notin PipeWriter /\ t \notin s.asleep /\ pipe' = pipe /\ loc' = loc
      /\ wq \in WaitQueues /\ PpThreads(s) /\ wq.reader.nodes \in Seq(PpNode)
      /\ IsInjective(wq.reader.nodes) /\ wq.reader.flag \in BOOLEAN
  <2>1. t \in Thread /\ t \notin PipeWriter
    BY PipeAssumption
  <2>2. t \notin s.asleep /\ pipe' = pipe /\ loc' = loc
    BY DEF PipeReadWait, WqWaitNot, WqWaitSleep, WqWaitReturn, Runs
  <2> QED BY <2>1, <2>2 DEF PpInv, PpTypes, WaitQueues, PpQueue
<1>2. \A u \in PipeReader : u = t
  BY DEF OneReader
<1>3. \A u \in PipeWriter : u \in Thread \ {t}
  BY <1>1, PipeAssumption
<1>4. ASSUME NEW x \in {"rd_lock", "rd_asleep"}, pc' = Placed(pc, t, x),
             pc[t] \in {"rd_wait", "rd_asleep"},
             wq' \in WaitQueues, wq'.writer = wq.writer, wq'.triggered = wq.triggered,
             IsInjective(wq'.reader.nodes), PpThreads(s'), s'.timer \subseteq s.timer,
             x = "rd_lock" => s'.asleep = s.asleep /\ ToSet(wq'.reader.nodes) = R \ {Node(t, {})},
             x = "rd_asleep" => /\ s'.asleep = s.asleep \cup {t}
                                /\ ToSet(wq'.reader.nodes) = R \cup {Node(t, {})}
                                /\ pc[t] = "rd_wait" /\ ~wq.reader.flag
      PROVE  PpInv'
  <2>1. pc'[t] = x /\ \A u \in Thread \ {t} : pc'[u] = pc[u]
    BY <1>1, <1>4, PcIs DEF PcMoves
  <2>2. PpTypes'
    BY <1>1, <1>4, PcIs DEF PpInv, PpTypes, PcMoves
  <2>3. PpRoles'
    BY <1>1, <1>4, <2>1 DEF PpInv, PpRoles, PpPolls, PpReads, PpWrites
  <2>4. PpReaders'
    BY <1>1, <1>4, <2>1, NodeThreads, NodeIs DEF PpInv, Linked, PpReaders, PpPolls
  <2>5. PpWriters'
    BY <1>1, <1>4, <2>1, NodeThreads DEF PpInv, PpWriters, PpPollsBoth
  <2>6. PpServed'
    BY <1>1, <1>2, <1>3, <1>4, <2>1 DEF PpInv, PpServed, PpQuiet, WakeIsDue, Linked, Forgotten
  <2>7. PpGoing'
    BY <1>1, <1>2, <1>3, <1>4, <2>1 DEF PpInv, PpGoing, WakeIsDue, AtLock
  <2> QED BY <2>2, <2>3, <2>4, <2>5, <2>6, <2>7 DEF PpInv
<1>5. CASE WqWaitNot(t, "reader", "rd_wait", "rd_lock")
  <2>1. /\ pc[t] = "rd_wait" /\ pc' = Placed(pc, t, "rd_lock") /\ s' = s
        /\ wq' = [wq EXCEPT !["reader"].flag = FALSE]
    BY <1>5 DEF WqWaitNot, Runs, Goto, Placed
  <2>2. /\ wq' \in WaitQueues /\ wq'.triggered = wq.triggered /\ wq'.writer = wq.writer
        /\ wq'.reader.nodes = wq.reader.nodes
    BY Zenon, <1>1, <2>1, QueueIs
  <2>3. Node(t, {}) \notin R
    BY <1>1, <2>1, NodeIs DEF PpInv, PpReaders
  <2> QED BY <1>1, <1>4, <2>1, <2>2, <2>3
<1>6. CASE WqWaitSleep(t, "reader", "rd_wait", "rd_asleep")
  <2> DEFINE d == Append(wq.reader.nodes, Node(t, {}))
  <2>1. /\ pc[t] = "rd_wait" /\ pc' = Placed(pc, t, "rd_asleep") /\ ~wq.reader.flag
        /\ s' = [s EXCEPT !.asleep = @ \cup {t}] /\ wq' = [wq EXCEPT !["reader"].nodes = d]
    BY <1>6 DEF WqWaitSleep, Runs, Goto, Placed
  <2>2. Node(t, {}) \notin R
    BY <1>1, <2>1, NodeIs DEF PpInv, PpReaders
  <2>3. d \in Seq(PpNode) /\ IsInjective(d) /\ ToSet(d) = R \cup {Node(t, {})}
    BY <1>1, <2>2, NodeIs, AppendElements
  <2> HIDE DEF d
  <2>4. /\ wq' \in WaitQueues /\ wq'.triggered = wq.triggered /\ wq'.writer = wq.writer
        /\ wq'.reader.nodes = d
    BY Zenon, <1>1, <2>1, <2>3, QueueIs
  <2>5. PpThreads(s') /\ s'.asleep = s.asleep \cup {t} /\ s'.timer = s.timer
    BY <1>1, <2>1, SleepIs
  <2> QED BY <1>1, <1>4, <2>1, <2>3, <2>4, <2>5
<1>7. CASE WqWaitReturn(t, "reader", "rd_asleep", "rd_lock")
  <2> DEFINE d == Without(wq.reader.nodes, Node(t, {}))
  <2>1. /\ pc[t] = "rd_asleep" /\ pc' = Placed(pc, t, "rd_lock") /\ s' = s
        /\ wq' = [wq EXCEPT !["reader"] = [flag |-> FALSE, nodes |-> d]]
    BY <1>7 DEF WqWaitReturn, Runs, Goto, Placed
  <2>2. d \in Seq(PpNode) /\ IsInjective(d) /\ ToSet(d) = R \ {Node(t, {})}
    BY <1>1, WithoutElements
  <2> HIDE DEF d
  <2>3. /\ wq' \in WaitQueues /\ wq'.triggered = wq.triggered /\ wq'.writer = wq.writer
        /\ wq'.reader.nodes = d
    BY Zenon, <1>1, <2>1, <2>2, QueueIs
  <2> QED BY <1>1, <1>4, <2>1, <2>2, <2>3
<1> QED BY <1>5, <1>6, <1>7 DEF PipeReadWait

\* a writer at rt_wqueue_wait
LEMMA PipeWriteWaitPreserves ==
    ASSUME PpInv, NEW t \in PipeWriter, PipeWriteWait(t)
    PROVE  PpInv'
<1> DEFINE W == ToSet(wq.writer.nodes)
<1>1. /\ t \in Thread /\ t \notin PipeReader /\ t \notin s.asleep /\ pipe' = pipe /\ loc' = loc
      /\ wq \in WaitQueues /\ PpThreads(s) /\ wq.writer.nodes \in Seq(PpNode)
      /\ IsInjective(wq.writer.nodes) /\ wq.writer.flag \in BOOLEAN
  <2>1. t \in Thread /\ t \notin PipeReader
    BY PipeAssumption
  <2>2. t \notin s.asleep /\ pipe' = pipe /\ loc' = loc
    BY DEF PipeWriteWait, WqWaitNot, WqWaitSleep, WqWaitReturn, Runs
  <2> QED BY <2>1, <2>2 DEF PpInv, PpTypes, WaitQueues, PpQueue
<1>3. \A u \in PipeReader : u \in Thread \ {t}
  BY <1>1, PipeAssumption
<1>4. ASSUME NEW x \in {"wr_again", "wr_asleep"}, pc' = Placed(pc, t, x),
             pc[t] \in {"wr_wait", "wr_asleep"},
             wq' \in WaitQueues, wq'.reader = wq.reader, wq'.triggered = wq.triggered,
             ~wq'.writer.flag,
             IsInjective(wq'.writer.nodes), PpThreads(s'), s'.timer \subseteq s.timer,
             x = "wr_again" => s'.asleep = s.asleep /\ ToSet(wq'.writer.nodes) = W \ {Node(t, {})},
             x = "wr_asleep" => /\ s'.asleep = s.asleep \cup {t}
                                /\ ToSet(wq'.writer.nodes) = W \cup {Node(t, {})}
                                /\ pc[t] = "wr_wait" /\ ~wq.writer.flag
      PROVE  PpInv'
  <2>1. pc'[t] = x /\ \A u \in Thread \ {t} : pc'[u] = pc[u]
    BY <1>1, <1>4, PcIs DEF PcMoves
  <2>2. PpTypes'
    BY <1>1, <1>4, PcIs DEF PpInv, PpTypes, PcMoves
  <2>3. PpRoles'
    BY <1>1, <1>4, <2>1 DEF PpInv, PpRoles, PpPolls, PpReads, PpWrites
  <2>4. PpReaders'
    BY <1>1, <1>4, <2>1, NodeThreads, NodeIs DEF PpInv, Linked, PpReaders, PpPolls
  <2>5. PpWriters'
    <3>1. CASE x = "wr_again"
      BY <1>1, <1>4, <2>1, <3>1, NodeThreads, NodeIs DEF PpInv, PpWriters, PpPollsBoth
    <3>2. CASE x = "wr_asleep"
      BY <1>1, <1>4, <2>1, <3>2, NodeThreads, NodeIs DEF PpInv, PpWriters, PpPollsBoth
    <3> QED BY <3>1, <3>2
  <2>6. PpServed'
    <3>1. WakeIsDue => WakeIsDue'
      BY <1>4, <2>1, PipeAssumption DEF WakeIsDue
    <3>2. \A u \in PipeReader : u \in s'.asleep => u \in s.asleep
      BY <1>3, <1>4
    <3> QED BY <1>1, <1>3, <1>4, <2>1, <3>1, <3>2 DEF PpInv, PpServed, PpQuiet, Linked, Forgotten
  <2>7. PpGoing'
    <3>1. WakeIsDue => WakeIsDue'
      BY <1>4, <2>1, PipeAssumption DEF WakeIsDue
    <3>2. \A u \in PipeReader : u \in s'.asleep => u \in s.asleep
      BY <1>3, <1>4
    <3>3. \A u \in PipeWriter : AtLock(u) => AtLock(u)'
      BY <1>4, <2>1, PipeAssumption DEF AtLock
    <3> QED BY <1>1, <1>3, <1>4, <2>1, <3>1, <3>2, <3>3 DEF PpInv, PpGoing, AtLock
  <2> QED BY <2>2, <2>3, <2>4, <2>5, <2>6, <2>7 DEF PpInv
<1>5. CASE WqWaitNot(t, "writer", "wr_wait", "wr_again")
  <2>1. /\ pc[t] = "wr_wait" /\ pc' = Placed(pc, t, "wr_again") /\ s' = s
        /\ wq' = [wq EXCEPT !["writer"].flag = FALSE]
    BY <1>5 DEF WqWaitNot, Runs, Goto, Placed
  <2>2. /\ wq' \in WaitQueues /\ wq'.triggered = wq.triggered /\ wq'.reader = wq.reader
        /\ wq'.writer.nodes = wq.writer.nodes /\ ~wq'.writer.flag
    BY Zenon, <1>1, <2>1, QueueIs
  <2>3. Node(t, {}) \notin W
    BY <1>1, <2>1, NodeIs DEF PpInv, PpWriters
  <2> QED BY <1>1, <1>4, <2>1, <2>2, <2>3
<1>6. CASE WqWaitSleep(t, "writer", "wr_wait", "wr_asleep")
  <2> DEFINE d == Append(wq.writer.nodes, Node(t, {}))
  <2>1. /\ pc[t] = "wr_wait" /\ pc' = Placed(pc, t, "wr_asleep") /\ ~wq.writer.flag
        /\ s' = [s EXCEPT !.asleep = @ \cup {t}] /\ wq' = [wq EXCEPT !["writer"].nodes = d]
    BY <1>6 DEF WqWaitSleep, Runs, Goto, Placed
  <2>2. Node(t, {}) \notin W
    BY <1>1, <2>1, NodeIs DEF PpInv, PpWriters
  <2>3. d \in Seq(PpNode) /\ IsInjective(d) /\ ToSet(d) = W \cup {Node(t, {})}
    BY <1>1, <2>2, NodeIs, AppendElements
  <2> HIDE DEF d
  <2>4. /\ wq' \in WaitQueues /\ wq'.triggered = wq.triggered /\ wq'.reader = wq.reader
        /\ wq'.writer.nodes = d /\ ~wq'.writer.flag
    BY Zenon, <1>1, <2>1, <2>3, QueueIs
  <2>5. PpThreads(s') /\ s'.asleep = s.asleep \cup {t} /\ s'.timer = s.timer
    BY <1>1, <2>1, SleepIs
  <2> QED BY <1>1, <1>4, <2>1, <2>3, <2>4, <2>5
<1>7. CASE WqWaitReturn(t, "writer", "wr_asleep", "wr_again")
  <2> DEFINE d == Without(wq.writer.nodes, Node(t, {}))
  <2>1. /\ pc[t] = "wr_asleep" /\ pc' = Placed(pc, t, "wr_again") /\ s' = s
        /\ wq' = [wq EXCEPT !["writer"] = [flag |-> FALSE, nodes |-> d]]
    BY <1>7 DEF WqWaitReturn, Runs, Goto, Placed
  <2>2. d \in Seq(PpNode) /\ IsInjective(d) /\ ToSet(d) = W \ {Node(t, {})}
    BY <1>1, WithoutElements
  <2> HIDE DEF d
  <2>3. /\ wq' \in WaitQueues /\ wq'.triggered = wq.triggered /\ wq'.reader = wq.reader
        /\ wq'.writer.nodes = d /\ ~wq'.writer.flag
    BY Zenon, <1>1, <2>1, <2>2, QueueIs
  <2> QED BY <1>1, <1>4, <2>1, <2>2, <2>3
<1> QED BY <1>5, <1>6, <1>7 DEF PipeWriteWait

-----------------------------------------------------------------------------
(* poll.                                                                   *)

\* the reader's queue with nodes d, and the triggered tables z
LEMMA TableIs ==
    ASSUME wq \in WaitQueues, NEW d \in Seq(PpNode), NEW z \in SUBSET Thread,
           wq' = [wq EXCEPT !.reader.nodes = d, !.triggered = z]
    PROVE  /\ wq' \in WaitQueues /\ wq'.triggered = z
           /\ wq'.reader.flag = wq.reader.flag /\ wq'.reader.nodes = d
           /\ wq'.writer = wq.writer
<1> DEFINE c == [wq.reader EXCEPT !.nodes = d]
<1>1. c \in PpQueue /\ c.flag = wq.reader.flag /\ c.nodes = d
  BY Zenon DEF PpQueue, WaitQueues
<1>2. wq' = [wq EXCEPT !.reader = c, !.triggered = z]
  OBVIOUS
<1> HIDE DEF c
<1> QED BY Zenon, <1>1, <1>2 DEF WaitQueues

LEMMA PollAddReaderPreserves ==
    ASSUME PpInv, OneReader, NEW t \in PipeReader, PollAddReader(t)
    PROVE  PpInv'
<1> DEFINE z == wq.triggered \ {t}
           R == ToSet(wq.reader.nodes)
<1>0. PICK time \in Time \ {"no"}, d \in WithPollNode(wq.reader.nodes, t) :
         /\ wq' = [wq EXCEPT !.reader.nodes = d, !.triggered = z]
         /\ pc[t] = "user" /\ t \notin s.asleep /\ t \in pipe.readers
         /\ pc' = Placed(pc, t, "poll_add") /\ s' = s /\ pipe' = pipe
         /\ loc' = [loc EXCEPT ![t] = [time |-> time,
                       val |-> IF d = wq.reader.nodes THEN "no memory" ELSE "linked"]]
  BY Zenon DEF PollAddReader, Begin, Runs, Goto, Placed
<1>1. /\ t \in Thread /\ t \notin PipeWriter /\ t \notin s.asleep /\ pipe' = pipe /\ s' = s
      /\ wq \in WaitQueues /\ wq.reader.nodes \in Seq(PpNode)
      /\ IsInjective(wq.reader.nodes) /\ z \in SUBSET Thread /\ t \in pipe.readers
  <2>1. t \in Thread /\ t \notin PipeWriter
    BY PipeAssumption
  <2>2. t \notin s.asleep /\ pipe' = pipe /\ s' = s /\ t \in pipe.readers
    BY Zenon, <1>0
  <2> QED BY <2>1, <2>2 DEF PpInv, PpTypes, WaitQueues, PpQueue
<1>2. pc[t] = "user" /\ pc' = Placed(pc, t, "poll_add")
  BY Zenon, <1>0
<1>3. Node(t, PollKey) \notin R
  BY <1>1, <1>2, NodeIs DEF PpInv, Linked, PpReaders, PpPolls
<1>4. /\ d \in Seq(PpNode) /\ IsInjective(d)
      /\ \/ ToSet(d) = R /\ d = wq.reader.nodes
         \/ ToSet(d) = R \cup {Node(t, PollKey)}
  <2>1. d \in {wq.reader.nodes, Append(wq.reader.nodes, Node(t, PollKey))}
    BY DEF WithPollNode
  <2>2. Node(t, PollKey) \in PpNode
    BY <1>1, NodeIs
  <2>3. CASE d = wq.reader.nodes
    BY <1>1, <2>3
  <2>4. CASE d = Append(wq.reader.nodes, Node(t, PollKey))
    BY <1>1, <1>3, <2>2, <2>4, AppendElements
  <2> QED BY <2>1, <2>3, <2>4
<1>16. EachThread(loc)' /\ (d = wq.reader.nodes => loc'[t].val # "linked")
  <2> DEFINE x == [time |-> time, val |-> IF d = wq.reader.nodes THEN "no memory" ELSE "linked"]
  <2>1. loc' = [loc EXCEPT ![t] = x] /\ (d = wq.reader.nodes => x.val # "linked")
    <3>1. loc' = [loc EXCEPT ![t] = x]
      BY Zenon, <1>0
    <3>2. d = wq.reader.nodes => x.val # "linked"
      OBVIOUS
    <3> HIDE DEF x
    <3> QED BY Zenon, <3>1, <3>2
  <2> HIDE DEF x
  <2>2. loc = [u \in Thread |-> loc[u]]
    BY DEF PpInv, PpTypes, EachThread
  <2>3. loc' = [u \in Thread |-> IF u = t THEN x ELSE loc[u]]
    BY <1>1, <2>1, <2>2
  <2> QED BY <1>1, <2>1, <2>3 DEF EachThread, Linked
<1>5. z = wq.triggered \ {t}
  OBVIOUS
<1>17. \A u \in Thread \ {t} : loc'[u] = loc[u]
  <2>1. \E x : loc' = [loc EXCEPT ![t] = x]
    BY Zenon, <1>0
  <2> QED BY <1>1, <2>1 DEF PpInv, PpTypes, EachThread
<1> HIDE DEF z
<1>6. /\ wq' \in WaitQueues /\ wq'.triggered = z /\ wq'.reader.flag = wq.reader.flag
      /\ wq'.reader.nodes = d /\ wq'.writer = wq.writer
  BY Zenon, <1>0, <1>1, <1>4, TableIs
<1>7. pc'[t] = "poll_add" /\ \A u \in Thread \ {t} : pc'[u] = pc[u]
  BY <1>1, <1>2, PcIs DEF PcMoves
<1>8. \A u \in PipeReader : u = t
  BY DEF OneReader
<1>9. \A u \in PipeWriter : u \in Thread \ {t}
  BY <1>1, PipeAssumption
<1>10. PpTypes'
  BY <1>16, <1>1, <1>2, <1>4, <1>6, PcIs DEF PpInv, PpTypes, PcMoves
<1>11. PpRoles'
  BY <1>1, <1>2, <1>7 DEF PpInv, PpRoles, PpPolls, PpReads, PpWrites
<1>12. PpReaders'
  BY <1>1, <1>2, <1>4, <1>5, <1>6, <1>7, <1>16, <1>17, NodeThreads, NodeIs
  DEF PpInv, PpReaders, PpPolls, Linked
<1>13. PpWriters'
  BY <1>1, <1>2, <1>6, <1>7, NodeThreads DEF PpInv, PpWriters, PpPollsBoth
<1>14. PpServed'
  BY <1>1, <1>7, <1>8 DEF PpServed
<1>15. PpGoing'
  BY <1>1, <1>6, <1>7, <1>8, <1>9 DEF PpInv, PpGoing
<1> QED BY <1>10, <1>11, <1>12, <1>13, <1>14, <1>15 DEF PpInv

\* the node of poll comes into the writers' queue, or goes from it
LEMMA PollWriterPreserves ==
    ASSUME PpInv, OneReader, NEW t \in PipeReader,
           PollAddWriter(t) \/ (PollTeardown(t) /\ pc[t] = "poll_unlink")
    PROVE  PpInv'
<1> DEFINE W == ToSet(wq.writer.nodes)
<1>1. /\ t \in Thread /\ t \notin PipeWriter /\ t \notin s.asleep /\ pipe' = pipe /\ s' = s /\ loc' = loc
      /\ wq \in WaitQueues /\ wq.writer.nodes \in Seq(PpNode) /\ IsInjective(wq.writer.nodes)
      /\ wq.writer.flag \in BOOLEAN
  <2>1. t \in Thread /\ t \notin PipeWriter
    BY PipeAssumption
  <2>2. t \notin s.asleep /\ pipe' = pipe /\ s' = s /\ loc' = loc
    BY DEF PollAddWriter, PollTeardown, Runs
  <2> QED BY <2>1, <2>2 DEF PpInv, PpTypes, WaitQueues, PpQueue
<1>2. \A u \in PipeReader : u = t
  BY DEF OneReader
<1>3. \A u \in PipeWriter : u \in Thread \ {t}
  BY <1>1, PipeAssumption
<1>4. ASSUME NEW x \in {"poll_test", "poll_unlink_reader"}, pc' = Placed(pc, t, x),
             pc[t] \in {"poll_add", "poll_unlink"},
             wq' \in WaitQueues, wq'.reader = wq.reader, wq'.triggered = wq.triggered,
             wq'.writer.flag = wq.writer.flag, IsInjective(wq'.writer.nodes),
             x = "poll_test" => ToSet(wq'.writer.nodes) \in {W, W \cup {Node(t, PollKey)}},
             x = "poll_unlink_reader" => ToSet(wq'.writer.nodes) = W \ {Node(t, PollKey)}
      PROVE  PpInv'
  <2>1. pc'[t] = x /\ \A u \in Thread \ {t} : pc'[u] = pc[u]
    BY <1>1, <1>4, PcIs DEF PcMoves
  <2>2. PpTypes'
    BY <1>1, <1>4, PcIs DEF PpInv, PpTypes, PcMoves
  <2>3. PpRoles'
    BY <1>1, <1>4, <2>1 DEF PpInv, PpRoles, PpPolls, PpReads, PpWrites
  <2>4. PpReaders'
    BY <1>1, <1>4, <2>1, NodeThreads DEF PpInv, Linked, PpReaders, PpPolls
  <2>5. PpWriters'
    BY <1>1, <1>4, <2>1, NodeThreads, NodeIs DEF PpInv, PpWriters, PpPollsBoth
  <2>6. PpServed'
    BY <1>1, <1>2, <1>4, <2>1 DEF PpServed
  <2>7. PpGoing'
    BY <1>1, <1>2, <1>3, <1>4, <2>1 DEF PpInv, PpGoing, AtLock, WakeIsDue
  <2> QED BY <2>2, <2>3, <2>4, <2>5, <2>6, <2>7 DEF PpInv
<1>5. CASE PollAddWriter(t)
  <2>0. PICK d \in WithPollNode(wq.writer.nodes, t) : wq' = [wq EXCEPT !["writer"].nodes = d]
    BY Zenon, <1>5 DEF PollAddWriter
  <2>1. pc[t] = "poll_add" /\ pc' = Placed(pc, t, "poll_test")
    BY Zenon, <1>5 DEF PollAddWriter, Runs, Goto, Placed
  <2>2. Node(t, PollKey) \notin W
    BY <1>1, <2>1, NodeIs DEF PpInv, PpWriters, PpPollsBoth
  <2>3. d \in Seq(PpNode) /\ IsInjective(d) /\ ToSet(d) \in {W, W \cup {Node(t, PollKey)}}
    <3>1. d \in {wq.writer.nodes, Append(wq.writer.nodes, Node(t, PollKey))}
      BY <2>0 DEF WithPollNode
    <3>2. Node(t, PollKey) \in PpNode
      BY <1>1, NodeIs
    <3>3. CASE d = wq.writer.nodes
      BY <1>1, <3>3
    <3>4. CASE d = Append(wq.writer.nodes, Node(t, PollKey))
      BY <1>1, <2>2, <3>2, <3>4, AppendElements
    <3> QED BY <3>1, <3>3, <3>4
  <2>4. /\ wq' \in WaitQueues /\ wq'.triggered = wq.triggered /\ wq'.reader = wq.reader
        /\ wq'.writer.nodes = d /\ wq'.writer.flag = wq.writer.flag
    BY Zenon, <1>1, <2>0, <2>3, QueueIs
  <2> QED BY <1>4, <2>1, <2>3, <2>4
<1>6. CASE PollTeardown(t) /\ pc[t] = "poll_unlink"
  <2> DEFINE d == Without(wq.writer.nodes, Node(t, PollKey))
  <2>1. pc' = Placed(pc, t, "poll_unlink_reader") /\ wq' = [wq EXCEPT !["writer"].nodes = d]
    BY <1>6 DEF PollTeardown, Runs, Goto, Placed
  <2>2. d \in Seq(PpNode) /\ IsInjective(d) /\ ToSet(d) = W \ {Node(t, PollKey)}
    BY <1>1, WithoutElements
  <2> HIDE DEF d
  <2>3. /\ wq' \in WaitQueues /\ wq'.triggered = wq.triggered /\ wq'.reader = wq.reader
        /\ wq'.writer.nodes = d /\ wq'.writer.flag = wq.writer.flag
    BY Zenon, <1>1, <2>1, <2>2, QueueIs
  <2> QED BY <1>4, <1>6, <2>1, <2>2, <2>3
<1> QED BY <1>5, <1>6

\* the last step of poll: its node goes from the reader's queue
LEMMA PollEndPreserves ==
    ASSUME PpInv, OneReader, NEW t \in PipeReader, PollTeardown(t), pc[t] = "poll_unlink_reader"
    PROVE  PpInv'
<1> DEFINE d == Without(wq.reader.nodes, Node(t, PollKey))
           z == wq.triggered \ {t}
           R == ToSet(wq.reader.nodes)
<1>0. PollTeardown(t) /\ pc[t] = "poll_unlink_reader"
  OBVIOUS
<1>1. /\ t \in Thread /\ t \notin PipeWriter /\ t \notin s.asleep /\ pipe' = pipe /\ s' = s
      /\ wq \in WaitQueues /\ wq.reader.nodes \in Seq(PpNode)
      /\ IsInjective(wq.reader.nodes) /\ z \in SUBSET Thread
  <2>1. t \in Thread /\ t \notin PipeWriter
    BY PipeAssumption
  <2>2. t \notin s.asleep /\ pipe' = pipe /\ s' = s
    BY DEF PollTeardown, Runs
  <2> QED BY <2>1, <2>2 DEF PpInv, PpTypes, WaitQueues, PpQueue
<1>2. /\ pc' = Placed(pc, t, "user") /\ wq' = [wq EXCEPT !.reader.nodes = d, !.triggered = z]
  BY DEF PollTeardown, Runs, Return, Goto, Placed
<1>3. d \in Seq(PpNode) /\ IsInjective(d) /\ ToSet(d) = R \ {Node(t, PollKey)}
  BY <1>1, WithoutElements
<1>4. z = wq.triggered \ {t}
  OBVIOUS
<1> HIDE DEF d, z
<1>5. /\ wq' \in WaitQueues /\ wq'.triggered = z /\ wq'.reader.flag = wq.reader.flag
      /\ wq'.reader.nodes = d /\ wq'.writer = wq.writer
  BY Zenon, <1>1, <1>2, <1>3, TableIs
<1>6. pc'[t] = "user" /\ \A u \in Thread \ {t} : pc'[u] = pc[u]
  BY <1>1, <1>2, PcIs DEF PcMoves
<1>7. \A u \in PipeReader : u = t
  BY DEF OneReader
<1>8. \A u \in PipeWriter : u \in Thread \ {t}
  BY <1>1, PipeAssumption
<1>15. EachThread(loc)' /\ \A u \in Thread \ {t} : loc'[u] = loc[u]
  <2>1. loc' = [loc EXCEPT ![t] = NoLocals]
    BY <1>0 DEF PollTeardown, Runs, Return
  <2>2. loc = [u \in Thread |-> loc[u]]
    BY DEF PpInv, PpTypes, EachThread
  <2> QED BY <1>1, <2>1, <2>2 DEF EachThread
<1>9. PpTypes'
  BY <1>15, <1>1, <1>2, <1>3, <1>5, PcIs DEF PpInv, PpTypes, PcMoves
<1>10. PpRoles'
  BY <1>1, <1>2, <1>6 DEF PpInv, PpRoles, PpPolls, PpReads, PpWrites
<1>11. PpReaders'
  BY SMTT(60), <1>15, <1>1, <1>2, <1>3, <1>4, <1>5, <1>6, NodeThreads, NodeIs DEF PpInv, Linked, PpReaders, PpPolls
<1>12. PpWriters'
  BY <1>1, <1>2, <1>5, <1>6, NodeThreads DEF PpInv, PpWriters, PpPollsBoth
<1>13. PpServed'
  BY <1>1, <1>6, <1>7 DEF PpServed
<1>14. PpGoing'
  BY <1>1, <1>5, <1>6, <1>7, <1>8 DEF PpInv, PpGoing, AtLock, WakeIsDue
<1> QED BY <1>9, <1>10, <1>11, <1>12, <1>13, <1>14 DEF PpInv

\* An untriggered table means that nobody has put a byte, or closed, since the
\* reader looked: it may sleep.
LEMMA PollSleepPreserves ==
    ASSUME PpInv, OneReader, NEW t \in PipeReader, PollSleep(t)
    PROVE  PpInv'
<1>1. /\ t \in Thread /\ t \notin PipeWriter /\ PpThreads(s) /\ t \notin s.asleep
      /\ pc[t] = "poll_wait" /\ t \notin wq.triggered /\ pipe' = pipe /\ wq' = wq /\ loc' = loc
      /\ pc' = Placed(pc, t, "poll_asleep")
  <2>1. t \in Thread /\ t \notin PipeWriter
    BY PipeAssumption
  <2> QED BY <2>1 DEF PollSleep, Runs, Goto, Placed, PpInv, PpTypes
<1>2. /\ PpThreads(s') /\ s'.asleep = s.asleep \cup {t}
      /\ s'.timer = s.timer \/ s'.timer = s.timer \cup {t}
  <2> DEFINE a == s.asleep \cup {t}
             m == IF loc[t].time = "ticks" THEN s.timer \cup {t} ELSE s.timer
  <2>1. s' = [s EXCEPT !.asleep = a, !.timer = m]
    BY DEF PollSleep
  <2>2. /\ a = s.asleep \cup {t} /\ (m = s.timer \/ m = s.timer \cup {t})
        /\ s \in SleepState /\ a \in SUBSET Thread /\ m \in SUBSET Thread /\ m \subseteq a
    BY <1>1 DEF PpThreads, SleepState
  <2> HIDE DEF a, m
  <2>3. s' \in SleepState /\ s'.asleep = a /\ s'.timer = m /\ s'.list = s.list
    BY Zenon, <2>1, <2>2 DEF SleepState
  <2> QED BY <1>1, <2>2, <2>3 DEF PpThreads
<1>3. pc'[t] = "poll_asleep" /\ \A u \in Thread \ {t} : pc'[u] = pc[u]
  BY <1>1, PcIs DEF PcMoves
<1>4. \A u \in PipeReader : u = t
  BY DEF OneReader
<1>5. \A u \in PipeWriter : u \in Thread \ {t}
  BY <1>1, PipeAssumption
<1>6. PpTypes'
  BY <1>1, <1>2, PcIs DEF PpInv, PpTypes, PcMoves
<1>7. PpRoles'
  BY <1>1, <1>2, <1>3 DEF PpInv, PpRoles, PpPolls, PpReads, PpWrites
<1>8. PpReaders'
  BY <1>1, <1>2, <1>3, NodeThreads DEF PpInv, Linked, PpReaders, PpPolls
<1>9. PpWriters'
  BY <1>1, <1>2, <1>3, NodeThreads DEF PpInv, PpWriters, PpPollsBoth
<1>10. PpServed'
  BY <1>1, <1>3, <1>4, <1>5 DEF PpInv, PpServed, PpQuiet, WakeIsDue, Forgotten, Linked
<1>11. PpGoing'
  BY <1>1, <1>2, <1>3, <1>4, <1>5 DEF PpInv, PpGoing, AtLock, WakeIsDue
<1> QED BY <1>6, <1>7, <1>8, <1>9, <1>10, <1>11 DEF PpInv

LEMMA PollWokenPreserves ==
    ASSUME PpInv, OneReader, NEW t \in PipeReader, PollWoken(t)
    PROVE  PpInv'
<1> DEFINE x == IF t \in wq.triggered THEN "poll_test" ELSE "poll_unlink"
<1>1. /\ t \in Thread /\ t \notin PipeWriter /\ PpThreads(s) /\ t \notin s.asleep
      /\ pc[t] = "poll_asleep" /\ pipe' = pipe /\ wq' = wq /\ loc' = loc
      /\ pc' = Placed(pc, t, x) /\ s' = [s EXCEPT !.error[t] = "EOK"]
  <2>1. t \in Thread /\ t \notin PipeWriter
    BY PipeAssumption
  <2> QED BY <2>1 DEF PollWoken, Runs, Goto, Placed, PpInv, PpTypes
<1>2. x \in {"poll_test", "poll_unlink"}
  OBVIOUS
<1> HIDE DEF x
<1>3. PpThreads(s') /\ s'.asleep = s.asleep /\ s'.timer = s.timer
  BY <1>1 DEF PpThreads, SleepState, WaitError
<1>4. pc'[t] = x /\ \A u \in Thread \ {t} : pc'[u] = pc[u]
  BY <1>1, PcIs DEF PcMoves
<1>5. \A u \in PipeReader : u = t
  BY DEF OneReader
<1>6. \A u \in PipeWriter : u \in Thread \ {t}
  BY <1>1, PipeAssumption
<1>7. PpTypes'
  BY <1>1, <1>3, PcIs DEF PpInv, PpTypes, PcMoves
<1>8. PpRoles'
  <2>1. t \notin s.timer
    BY <1>1 DEF PpThreads
  <2> QED BY <1>1, <1>2, <1>3, <1>4, <2>1 DEF PpInv, PpRoles, PpPolls, PpReads, PpWrites
<1>9. PpReaders'
  BY <1>1, <1>2, <1>3, <1>4, NodeThreads DEF PpInv, Linked, PpReaders, PpPolls
<1>10. PpWriters'
  BY <1>1, <1>2, <1>3, <1>4, NodeThreads DEF PpInv, PpWriters, PpPollsBoth
<1>11. PpServed'
  BY <1>1, <1>2, <1>3, <1>4, <1>5 DEF PpServed
<1>12. PpGoing'
  BY <1>1, <1>2, <1>3, <1>4, <1>5, <1>6 DEF PpInv, PpGoing, AtLock, WakeIsDue
<1> QED BY <1>7, <1>8, <1>9, <1>10, <1>11, <1>12 DEF PpInv

\* the time-out of a poll
LEMMA PollTimesOut ==
    ASSUME PpInv, OneReader, NEW t \in PipeReader, TimerExpires(t), pipe' = pipe, wq' = wq
    PROVE  PpInv'
<1>1. /\ t \in Thread /\ t \notin PipeWriter /\ PpThreads(s) /\ t \in s.asleep /\ t \in s.timer
      /\ pc[t] = "poll_asleep" /\ pc' = pc /\ loc' = loc /\ s' = rt_thread_timeout(s, t)
  <2>1. t \in Thread /\ t \notin PipeWriter
    BY PipeAssumption
  <2> QED BY <2>1 DEF TimerExpires, PpInv, PpTypes, PpRoles, PpThreads
<1>2. PpThreads(s') /\ s'.asleep = s.asleep \ {t} /\ s'.timer \subseteq s.timer
  <2> DEFINE r == rt_thread_resume(s, t)
             m == r.timer \ {t}
  <2> DEFINE e == [r.error EXCEPT ![t] = "ETIMEOUT"]
  <2>1. s' = [r EXCEPT !.timer = m, !.error = e]
    BY <1>1 DEF rt_thread_timeout
  <2> HIDE DEF r
  <2>2. PpThreads(r) /\ r.asleep = s.asleep \ {t} /\ r.timer = s.timer \ {t}
    BY <1>1, PpResumeIs DEF r
  <2>3. /\ r \in SleepState /\ m \in SUBSET Thread /\ m \subseteq r.asleep /\ m \subseteq s.timer
        /\ e \in [Thread -> WaitError]
    BY Zenon, <2>2 DEF PpThreads, SleepState, WaitError
  <2> HIDE DEF m, e
  <2>4. s' \in SleepState /\ s'.asleep = r.asleep /\ s'.timer = m /\ s'.list = r.list
    BY Zenon, <2>1, <2>3 DEF SleepState
  <2> QED BY <2>2, <2>3, <2>4 DEF PpThreads
<1>3. \A u \in PipeReader : u = t
  BY DEF OneReader
<1>4. \A u \in PipeWriter : u \in Thread \ {t}
  BY <1>1, PipeAssumption
<1>5. PpTypes'
  BY <1>1, <1>2 DEF PpInv, PpTypes
<1>6. PpRoles'
  BY <1>1, <1>2 DEF PpInv, PpRoles
<1>7. PpReaders'
  BY <1>1, <1>2, NodeThreads DEF PpInv, Linked, PpReaders, PpPolls
<1>8. PpWriters'
  BY <1>1, <1>2, NodeThreads DEF PpInv, PpWriters
<1>9. PpServed'
  BY <1>1, <1>2, <1>3 DEF PpServed
<1>10. PpGoing'
  BY <1>1, <1>2, <1>3, <1>4 DEF PpInv, PpGoing, AtLock, WakeIsDue
<1> QED BY <1>5, <1>6, <1>7, <1>8, <1>9, <1>10 DEF PpInv

-----------------------------------------------------------------------------

LEMMA PipeReaderPreserves ==
    ASSUME PpInv, OneReader, NEW t \in PipeReader,
           \/ PipeRead(t) \/ PipeReadEof(t) \/ PipeGet(t) \/ PipeGetWake(t)
           \/ PipeEmpty(t) \/ PipeEmptyWake(t) \/ PipeReadWait(t)
    PROVE  PpInv'
<1>1. t \in Thread /\ pipe \in PipeState /\ EachThread(pc)
  BY PipeAssumption DEF PpInv, PpTypes, PipeState
<1>2. CASE PipeRead(t)
  <2>1. /\ pc[t] = "user" /\ t \notin s.asleep /\ pc' = Placed(pc, t, "rd_lock") /\ s' = s
        /\ wq' = wq /\ loc' = loc /\ pipe' = pipe /\ t \in pipe.readers
    BY <1>2 DEF PipeRead, Runs, Goto, Placed
  <2>2. PcMoves(t, "rd_lock") /\ PpTypes'
    BY <1>1, <2>1, PcIs DEF PpInv, PpTypes, PcMoves
  <2> QED BY <2>1, <2>2, ReaderMoves
<1>3. CASE PipeReadEof(t)
  <2>1. /\ pc[t] = "rd_lock" /\ t \notin s.asleep /\ pc' = Placed(pc, t, "user") /\ s' = s
        /\ wq' = wq /\ loc' = loc /\ pipe' = pipe
    BY <1>3 DEF PipeReadEof, Runs, Goto, Placed
  <2>2. PcMoves(t, "user") /\ PpTypes'
    BY <1>1, <2>1, PcIs DEF PpInv, PpTypes, PcMoves
  <2> QED BY <2>1, <2>2, ReaderMoves
<1>4. CASE PipeGet(t)
  <2>1. /\ pc[t] = "rd_lock" /\ t \notin s.asleep /\ pc' = Placed(pc, t, "rd_wake") /\ s' = s
        /\ wq' = wq /\ loc' = loc
    BY <1>4 DEF PipeGet, Runs, Goto, Placed
  <2>2. pipe' \in PipeState /\ pipe'.readers = pipe.readers
    <3>1. PICK n \in {1, pipe.fifo} : pipe' = [pipe EXCEPT !.fifo = @ - n, !.lock = t]
      BY Zenon, <1>4 DEF PipeGet
    <3>2. pipe.fifo - n \in 0 .. PipeSize
      BY <1>1, <1>4, PipeAssumption DEF PipeGet, PipeState
    <3> QED BY Zenon, <1>1, <3>1, <3>2 DEF PipeState
  <2>3. PcMoves(t, "rd_wake") /\ PpTypes'
    BY <1>1, <2>1, <2>2, PcIs DEF PpInv, PpTypes, PcMoves, PipeState
  <2>4. t \in pipe.readers
    BY <1>1, <2>1 DEF PpInv, PpRoles, PpReads
  <2> QED BY <2>1, <2>2, <2>3, <2>4, ReaderMoves
<1>5. CASE PipeEmpty(t)
  <2>1. PICK x \in {"user", "rd_wake_writer"} : pc' = Placed(pc, t, x)
    BY Zenon, <1>5 DEF PipeEmpty, Goto, Placed
  <2>2. /\ pc[t] = "rd_lock" /\ t \notin s.asleep /\ s' = s /\ wq' = wq /\ pipe' = pipe /\ loc' = loc
        /\ PpQuiet'
    BY <1>5 DEF PipeEmpty, Runs, PpQuiet
  <2>3. PcMoves(t, x) /\ PpTypes'
    BY <1>1, <2>1, <2>2, PcIs DEF PpInv, PpTypes, PcMoves
  <2>4. t \in pipe.readers
    BY <1>1, <2>2 DEF PpInv, PpRoles, PpReads
  <2> QED BY <2>1, <2>2, <2>3, <2>4, ReaderMoves
<1> QED BY <1>2, <1>3, <1>4, <1>5, ReaderWakesWriter, PipeReadWaitPreserves

LEMMA PipeWriterPreserves ==
    ASSUME PpInv, OneReader, NEW t \in PipeWriter,
           \/ PipeBroken(t) \/ PipePut(t) \/ PipePutWake(t) \/ PipeWriteWait(t)
           \/ \E n \in WriteSize : PipeWrite(t, n)
    PROVE  PpInv'
<1>1. t \in Thread /\ pipe \in PipeState /\ EachThread(pc)
  BY PipeAssumption DEF PpInv, PpTypes, PipeState
<1>2. ASSUME NEW n \in WriteSize, PipeWrite(t, n)
      PROVE  PpInv'
  <2>1. /\ pc[t] = "user" /\ t \notin s.asleep /\ pc' = Placed(pc, t, "wr_lock") /\ s' = s
        /\ wq' = wq /\ loc' = loc /\ pipe' = [pipe EXCEPT !.left[t] = n]
    BY <1>2 DEF PipeWrite, Runs, Goto, Placed
  <2>2. /\ pipe' \in PipeState /\ pipe'.readers = pipe.readers
        /\ pipe'.writers = pipe.writers /\ pipe'.fifo = pipe.fifo
    BY <1>1, <2>1, PipeAssumption DEF PipeState
  <2>3. PcMoves(t, "wr_lock") /\ PpTypes'
    BY <1>1, <2>1, <2>2, PcIs DEF PpInv, PpTypes, PcMoves, PipeState
  <2>4. PpQuiet' = PpQuiet
    BY <2>2 DEF PpQuiet
  <2> QED BY <2>1, <2>2, <2>3, <2>4, WriterMoves
<1>3. CASE PipeBroken(t)
  <2> DEFINE x == IF pc[t] = "wr_lock" THEN "user" ELSE "wr_end"
  <2>1. /\ AtLock(t) /\ t \notin s.asleep /\ pc' = Placed(pc, t, x) /\ s' = s
        /\ wq' = wq /\ loc' = loc /\ pipe' = [pipe EXCEPT !.left[t] = 0] /\ pipe.readers = {}
    BY <1>3 DEF PipeBroken, Runs, Goto, Placed, AtLock
  <2>2. /\ pipe' \in PipeState /\ pipe'.readers = pipe.readers
        /\ pipe'.writers = pipe.writers /\ pipe'.fifo = pipe.fifo
    BY <1>1, <2>1 DEF PipeState
  <2>4. PpQuiet' = PpQuiet
    BY <2>2 DEF PpQuiet
  <2>5. x \in {"user", "wr_end"}
    OBVIOUS
  <2> HIDE DEF x
  <2>3. PcMoves(t, x) /\ PpTypes'
    BY <1>1, <2>1, <2>2, PcIs DEF PpInv, PpTypes, PcMoves, PipeState
  <2> QED BY <2>1, <2>2, <2>3, <2>4, <2>5, WriterMoves
<1>4. CASE PipePut(t)
  <2> DEFINE left == pipe.left[t] - Fits(t)
  <2>1. PICK blocks \in BOOLEAN :
           /\ pipe' = [pipe EXCEPT !.fifo = @ + Fits(t),
                                   !.left[t] = IF left = 0 \/ ~blocks THEN 0 ELSE left]
           /\ pc' = Placed(pc, t, IF left = 0 \/ ~blocks THEN "wr_end" ELSE "wr_wake_reader")
    BY Zenon, <1>4 DEF PipePut, Goto, Placed
  <2>2. AtLock(t) /\ t \notin s.asleep /\ s' = s /\ wq' = wq /\ loc' = loc
    BY <1>4, Zenon DEF PipePut, Runs, AtLock
  <2>3. Fits(t) \in Nat /\ left \in Nat /\ pipe.fifo + Fits(t) \in 0 .. PipeSize
    BY <1>1, PipeAssumption DEF Fits, PipeState
  <2> DEFINE y == IF left = 0 \/ ~blocks THEN 0 ELSE left
             x == IF left = 0 \/ ~blocks THEN "wr_end" ELSE "wr_wake_reader"
             f == pipe.fifo + Fits(t)
  <2>4. x \in {"wr_wake_reader", "wr_end"} /\ y \in Nat /\ f \in 0 .. PipeSize
    BY <2>3
  <2>5. pipe' = [pipe EXCEPT !.fifo = f, !.left[t] = y] /\ pc' = Placed(pc, t, x)
    BY <2>1
  <2> HIDE DEF left, y, x, f
  <2>6. pipe' \in PipeState /\ pipe'.readers = pipe.readers
    BY Zenon, <1>1, <2>4, <2>5 DEF PipeState
  <2>7. PcMoves(t, x) /\ PpTypes'
    BY <1>1, <2>2, <2>5, <2>6, PcIs DEF PpInv, PpTypes, PcMoves, PipeState
  <2> QED BY <2>2, <2>4, <2>6, <2>7, WriterMoves
<1> QED BY <1>2, <1>3, <1>4, WriterWakesReader, PipeWriteWaitPreserves

LEMMA PollPreserves ==
    ASSUME PpInv, OneReader, NEW t \in Poller,
           \/ PollAddReader(t) \/ PollAddWriter(t) \/ PollTest(t)
           \/ PollTriggered(t) \/ PollSleep(t) \/ PollWoken(t) \/ PollTeardown(t)
           \/ TimerExpires(t) /\ UNCHANGED <<pipe, wq>>
    PROVE  PpInv'
<1>1. t \in PipeReader /\ t \in Thread /\ pipe \in PipeState
  BY PipeAssumption, PollAssumption DEF PpInv, PpTypes, PipeState
<1>2. CASE PollTest(t)
  <2> DEFINE x == IF Readable THEN "poll_unlink" ELSE "poll_wait"
  <2>1. /\ pc[t] = "poll_test" /\ t \notin s.asleep /\ pc' = Placed(pc, t, x) /\ s' = s
        /\ wq' = wq /\ loc' = loc /\ pipe' = pipe
    BY <1>2 DEF PollTest, Runs, Goto, Placed
  <2>2. x \in {"poll_unlink", "poll_wait"} /\ (x = "poll_wait" => PpQuiet)
    BY <1>1, PipeAssumption DEF Readable, PpQuiet, PipeState
  <2> HIDE DEF x
  <2>3. PcMoves(t, x)
    BY <1>1, <2>1, PcIs
  <2> QED BY <1>1, <2>1, <2>2, <2>3, PollMoves
<1>3. CASE PollTriggered(t)
  <2>1. /\ pc[t] = "poll_wait" /\ t \notin s.asleep /\ pc' = Placed(pc, t, "poll_test") /\ s' = s
        /\ wq' = wq /\ loc' = loc /\ pipe' = pipe
    BY <1>3 DEF PollTriggered, Runs, Goto, Placed
  <2>2. PcMoves(t, "poll_test")
    BY <1>1, <2>1, PcIs
  <2> QED BY <1>1, <2>1, <2>2, PollMoves
<1>4. CASE PollTeardown(t)
  <2>1. pc[t] \in {"poll_unlink", "poll_unlink_reader"}
    BY <1>4 DEF PollTeardown, Runs
  <2> QED BY <1>1, <1>4, <2>1, PollWriterPreserves, PollEndPreserves
<1>5. CASE TimerExpires(t) /\ UNCHANGED <<pipe, wq>>
  BY <1>1, <1>5, PollTimesOut
<1>6. CASE PollAddReader(t) \/ PollAddWriter(t) \/ PollSleep(t) \/ PollWoken(t)
  BY <1>1, <1>6, PollAddReaderPreserves, PollWriterPreserves, PollSleepPreserves,
     PollWokenPreserves
<1> QED BY <1>2, <1>3, <1>4, <1>5, <1>6

LEMMA PollNextPreserves ==
    ASSUME OneReader, PpInv, [PollNext]_pipeVars
    PROVE  PpInv'
<1>1. CASE UNCHANGED pipeVars
  <2>1. s' = s /\ pc' = pc /\ loc' = loc /\ pipe' = pipe /\ wq' = wq
    BY <1>1 DEF pipeVars, threadVars
  <2>2. PpTypes' /\ PpRoles'
    BY <2>1 DEF PpInv, PpTypes, PpRoles
  <2>3. PpReaders' /\ PpWriters'
    BY <2>1 DEF PpInv, Linked, PpReaders, PpWriters
  <2>4. PpServed' /\ PpGoing'
    BY <2>1 DEF PpInv, PpServed, PpGoing, PpQuiet, WakeIsDue, Linked, Forgotten, AtLock
  <2> QED BY <2>2, <2>3, <2>4 DEF PpInv
<1>2. ASSUME NEW t \in PipeReader,
             \/ PipeRead(t) \/ PipeReadEof(t) \/ PipeGet(t) \/ PipeGetWake(t)
             \/ PipeEmpty(t) \/ PipeEmptyWake(t) \/ PipeReadWait(t)
      PROVE  PpInv'
  BY <1>2, PipeReaderPreserves
<1>3. ASSUME NEW t \in PipeWriter,
             \/ PipeBroken(t) \/ PipePut(t) \/ PipePutWake(t) \/ PipeWriteWait(t)
             \/ \E n \in WriteSize : PipeWrite(t, n)
      PROVE  PpInv'
  BY <1>3, PipeWriterPreserves
<1>4. ASSUME NEW t \in PipeReader \cup PipeWriter, PipeOpen(t) \/ PipeClose(t)
      PROVE  PpInv'
  BY <1>4, PipeOpenPreserves, PipeClosePreserves
<1>5. ASSUME NEW t \in Poller,
             \/ PollAddReader(t) \/ PollAddWriter(t) \/ PollTest(t)
             \/ PollTriggered(t) \/ PollSleep(t) \/ PollWoken(t) \/ PollTeardown(t)
             \/ TimerExpires(t) /\ UNCHANGED <<pipe, wq>>
      PROVE  PpInv'
  BY <1>5, PollPreserves
<1> QED BY <1>1, <1>2, <1>3, <1>4, <1>5 DEF PollNext, PipeNext

LEMMA PpInitial ==
    ASSUME BlockingInit, PipeInit
    PROVE  PpInv
<1>1. PpThreads(s) /\ s.asleep = {} /\ s.timer = {}
  <2>1. << >> \in Seq(Thread)
    OBVIOUS
  <2> QED BY <2>1 DEF BlockingInit, PpThreads, SleepState, WaitError
<1>2. EachThread(pc) /\ \A t \in Thread : pc[t] = "user"
  BY DEF BlockingInit, EachThread
<1>3. pipe \in PipeState
  BY PipeAssumption DEF PipeInit, PipeState
<1>4. /\ wq \in WaitQueues /\ wq.reader.nodes = << >> /\ wq.writer.nodes = << >>
      /\ ~wq.writer.flag
  <2>1. << >> \in Seq(PpNode)
    OBVIOUS
  <2> QED BY <2>1 DEF PipeInit, WaitQueues, PpQueue
<1>5. IsInjective(<< >>) /\ ToSet(<< >>) = {}
  BY DEF IsInjective, ToSet
<1>10. EachThread(loc)
  BY DEF BlockingInit, EachThread
<1>6. PpTypes
  BY <1>10, <1>1, <1>2, <1>3, <1>4, <1>5 DEF PpTypes, PipeState
<1>7. PpRoles
  BY <1>1, <1>2 DEF PpRoles, PpReads, PpWrites, PpPolls
<1>8. PpReaders /\ PpWriters
  BY <1>1, <1>2, <1>4, <1>5 DEF PpReaders, PpWriters, PpPolls
<1>9. PpServed /\ PpGoing
  BY <1>1, <1>2, <1>4, PipeAssumption DEF PpServed, PpGoing
<1> QED BY <1>6, <1>7, <1>8, <1>9 DEF PpInv

LEMMA PpServes == PpInv => PipeReadersServed /\ PipeNotStuck /\ PollersServed /\ SleepersAgree
<1> SUFFICES ASSUME PpInv PROVE PipeReadersServed /\ PipeNotStuck /\ PollersServed /\ SleepersAgree
  OBVIOUS
<1>1. s.asleep \subseteq Thread
  BY DEF PpInv, PpTypes, PpThreads, SleepState
<1>2. \A t \in Thread : pc[t] \in {"rd_asleep", "poll_asleep"} => t \in PipeReader
  BY DEF PpInv, PpTypes, PipeState, PpRoles, PpReads, PpPolls
<1>3. PipeReadersServed /\ PollersServed
  BY <1>1, <1>2 DEF PpInv, PpServed, PpQuiet, Forgotten, PipeReadersServed, PollersServed, WaitingAt
<1>4. \A t \in Thread : pc[t] = "wr_asleep" => t \in PipeWriter
  BY DEF PpInv, PpRoles, PpWrites
<1>5. \A u \in PipeWriter : pc[u] \in {"wr_lock", "wr_again", "wr_wake_reader", "wr_end"} => u \notin s.asleep
  BY PipeAssumption DEF PpInv, PpRoles
<1>6. PipeNotStuck
  <2> SUFFICES ASSUME NEW t \in s.asleep, pc[t] = "rd_asleep",
                      NEW w \in s.asleep, pc[w] = "wr_asleep"
               PROVE  \E u \in PipeReader \cup PipeWriter : pc[u] # "user" /\ u \notin s.asleep
    BY DEF PipeNotStuck, WaitingAt
  <2>1. t \in PipeReader /\ w \in PipeWriter
    BY <1>1, <1>2, <1>4
  <2>2. WakeIsDue \/ wq.writer.flag \/ \E u \in PipeWriter : AtLock(u)
    BY <2>1 DEF PpInv, PpGoing
  <2>3. CASE wq.writer.flag
    BY <2>1, <2>3 DEF PpInv, PpGoing
  <2>4. CASE \E u \in PipeWriter : pc[u] \in {"wr_lock", "wr_again", "wr_wake_reader", "wr_end"}
    BY <1>5, <2>4
  <2> QED BY <2>2, <2>3, <2>4 DEF WakeIsDue, AtLock
<1>7. SleepersAgree
  <2>1. IsInjective(<< >>) /\ ToSet(<< >>) = {}
    BY DEF IsInjective, ToSet
  <2> QED BY <2>1 DEF PpInv, PpTypes, PpThreads, SleepersAgree
<1> QED BY <1>3, <1>6, <1>7

\* For one reader, any writers and any size of the ring: no byte and no close is
\* left behind with a reader or a poll that sleeps, however the calls of
\* pipe_fops_read, pipe_fops_write, pipe_fops_close and poll interleave with
\* rt_wqueue_wakeup, and the two ends never wait for each other.
THEOREM PipeServes ==
    ASSUME OneReader
    PROVE  PollSpec => [](PipeReadersServed /\ PipeNotStuck /\ PollersServed /\ SleepersAgree)
<1>1. PpInv /\ [PollNext]_pipeVars => PpInv'
  BY PollNextPreserves
<1> QED BY <1>1, PpInitial, PpServes, PTL DEF PollSpec

-----------------------------------------------------------------------------
(* The objects of the library side by side.                                *)

\* An object of a kind that is not the one in use is as it was initialised.
LibInv ==
    /\ IF system = "completion" THEN CpGood ELSE CpInit
    /\ IF system = "data queue" THEN DqInv ELSE DqInit
    /\ IF system = "pipe" THEN PpInv ELSE PipeInit
    /\ IF system = "work queue" THEN WqInv ELSE WqInit
    /\ system \notin {"completion", "data queue", "pipe", "work queue"} => BlockingInit

\* whoever sleeps does so at one of the places
AsleepAt(places) == \A t \in s.asleep : pc[t] \in places

PipePlaces == {"rd_asleep", "wr_asleep", "poll_asleep"}

LEMMA LibFirst ==
    ASSUME MCInit
    PROVE  LibInv
BY CpInitial, DqFirst, PpInitial, WqInitial DEF MCInit, LibInv

\* an object for which nobody waits serves everybody
LEMMA IdleServes ==
    /\ CpInit => CpNoSleeperWhenDone
    /\ \A places : AsleepAt(places) =>
          /\ {"dq_pop_wait", "dq_push_wait"} \cap places = {} => DqNoLostWakeup
          /\ PipePlaces \cap places = {} => PipeReadersServed /\ PipeNotStuck /\ PollersServed
          /\ "wq_synced" \notin places => SyncWaitersAgree
<1>1. CpInit => CpNoSleeperWhenDone
  BY DEF CpInit, CpNoSleeperWhenDone
<1>2. ASSUME NEW places, AsleepAt(places)
      PROVE  /\ {"dq_pop_wait", "dq_push_wait"} \cap places = {} => DqNoLostWakeup
             /\ PipePlaces \cap places = {} =>
                   PipeReadersServed /\ PipeNotStuck /\ PollersServed
             /\ "wq_synced" \notin places => SyncWaitersAgree
  <2>1. \A w : w \notin places => WaitingAt(w) = {}
    BY <1>2 DEF AsleepAt, WaitingAt
  <2>2. {"dq_pop_wait", "dq_push_wait"} \cap places = {} => DqNoLostWakeup
    BY <2>1 DEF DqNoLostWakeup
  <2>3. PipePlaces \cap places = {} => PipeReadersServed /\ PipeNotStuck /\ PollersServed
    BY <2>1 DEF PipePlaces, PipeReadersServed, PipeNotStuck, PollersServed
  <2>4. "wq_synced" \notin places => SyncWaitersAgree
    BY <1>2 DEF AsleepAt, SyncWaitersAgree
  <2> QED BY <2>2, <2>3, <2>4
<1> QED BY <1>1, <1>2

\* where the threads sleep that use an object
LEMMA WhereAsleep ==
    /\ CpGood => AsleepAt({"cp_wait"})
    /\ DqInv => AsleepAt({"dq_pop_wait", "dq_push_wait"})
    /\ PpInv => AsleepAt(PipePlaces)
    /\ WqInv => AsleepAt({"wq_take", "wq_synced"})
<1>1. CpGood => AsleepAt({"cp_wait"})
  BY CpWhereIs DEF CpGood, Waits, AtPlaces, AsleepAt
<1>2. DqInv => AsleepAt({"dq_pop_wait", "dq_push_wait"})
  BY DqPlace DEF DqInv, Flow, Waits, AtPlaces, AsleepAt
<1>3. PpInv => AsleepAt(PipePlaces)
  BY DEF PpInv, PpTypes, PpThreads, SleepState, PpRoles, AsleepAt, PipePlaces
<1>4. WqInv => AsleepAt({"wq_take", "wq_synced"})
  BY DEF WqInv, WqAsleep, AsleepAt
<1> QED BY <1>1, <1>2, <1>3, <1>4

LEMMA LibServes ==
    ASSUME LibInv
    PROVE  LibraryWaitersServed
<1> USE DEF LibraryWaitersServed
<1> DEFINE cp == {"cp_wait"}
           dw == {"dq_pop_wait", "dq_push_wait"}
           ww == {"wq_take", "wq_synced"}
<1>0. /\ dw \cap cp = {} /\ PipePlaces \cap cp = {} /\ "wq_synced" \notin cp
      /\ PipePlaces \cap dw = {} /\ "wq_synced" \notin dw
      /\ dw \cap PipePlaces = {} /\ "wq_synced" \notin PipePlaces
      /\ dw \cap ww = {} /\ PipePlaces \cap ww = {}
  BY DEF PipePlaces
<1> HIDE DEF cp, dw, ww
<1>1. CASE system = "completion"
  <2>1. CpGood /\ WqInit /\ AsleepAt(cp)
    BY <1>1, WhereAsleep DEF LibInv, cp
  <2> QED BY <1>0, <2>1, CpServes, IdleServes DEF dw
<1>2. CASE system = "data queue"
  <2>1. DqInv /\ CpInit /\ WqInit /\ AsleepAt(dw)
    BY <1>2, WhereAsleep DEF LibInv, dw
  <2> QED BY <1>0, <2>1, DqServes, IdleServes
<1>3. CASE system = "pipe"
  <2>1. PpInv /\ CpInit /\ WqInit /\ AsleepAt(PipePlaces)
    BY <1>3, WhereAsleep DEF LibInv
  <2> QED BY <1>0, <2>1, PpServes, IdleServes DEF dw
<1>4. CASE system = "work queue"
  <2>1. WqInv /\ CpInit /\ AsleepAt(ww)
    BY <1>4, WhereAsleep DEF LibInv, ww
  <2> QED BY <1>0, <2>1, WqServes, IdleServes DEF dw
<1>5. CASE system \notin {"completion", "data queue", "pipe", "work queue"}
  <2>1. BlockingInit /\ CpInit /\ WqInit
    BY <1>5 DEF LibInv
  <2>2. WqInv
    BY <2>1, WqInitial
  <2>3. AsleepAt(ww)
    BY <2>2, WhereAsleep DEF ww
  <2> QED BY <1>0, <2>1, <2>2, <2>3, WqServes, IdleServes DEF dw
<1> QED BY <1>1, <1>2, <1>3, <1>4, <1>5

\* the variables of MCLibrary
libraryVars == <<system, threadVars, completed, dq, pipe, wq, queue, rb, rbb, fifo, tx,
                 fdt, fdcall>>

\* the object that is not in use is left alone
LEMMA LibIdle ==
    /\ completed' = completed /\ CpInit => CpInit'
    /\ dq' = dq /\ DqInit => DqInit'
    /\ UNCHANGED <<pipe, wq>> /\ PipeInit => PipeInit'
    /\ queue' = queue /\ WqInit => WqInit'
    /\ UNCHANGED threadVars /\ BlockingInit => BlockingInit'
BY DEF CpInit, DqInit, PipeInit, WqInit, BlockingInit, threadVars

LEMMA LibStep ==
    ASSUME Receiver # {}, OneReader, LibInv, [MCNext]_libraryVars
    PROVE  LibInv'
<1>1. system' = system
  BY DEF MCNext, Stopped, libraryVars
<1>2. CASE system = "completion"
  <2>1. CpGood /\ DqInit /\ PipeInit /\ WqInit
    BY <1>2 DEF LibInv
  <2>2. [CompletionNext]_completionVars /\ UNCHANGED <<dq, pipe, wq, queue>>
    BY <1>2 DEF MCNext, Stopped, libraryVars, completionVars
  <2>3. CpGood'
    BY <2>1, <2>2, CpNextPreserves
  <2>4. DqInit' /\ PipeInit' /\ WqInit'
    BY <2>1, <2>2, LibIdle
  <2> QED BY <1>1, <1>2, <2>3, <2>4 DEF LibInv
<1>3. CASE system = "data queue"
  <2>1. DqInv /\ CpInit /\ PipeInit /\ WqInit
    BY <1>3 DEF LibInv
  <2>2. [DataQueueNext]_dataQueueVars /\ UNCHANGED <<completed, pipe, wq, queue>>
    BY <1>3 DEF MCNext, Stopped, libraryVars, dataQueueVars
  <2>3. DqInv'
    BY <2>1, <2>2, DqNextStep DEF DqGood
  <2>4. CpInit' /\ PipeInit' /\ WqInit'
    BY <2>1, <2>2, LibIdle
  <2> QED BY <1>1, <1>3, <2>3, <2>4 DEF LibInv
<1>4. CASE system = "pipe"
  <2>1. PpInv /\ CpInit /\ DqInit /\ WqInit
    BY <1>4 DEF LibInv
  <2>2. [PollNext]_pipeVars /\ UNCHANGED <<completed, dq, queue>>
    BY <1>4 DEF MCNext, Stopped, libraryVars, pipeVars
  <2>3. PpInv'
    BY <2>1, <2>2, PollNextPreserves
  <2>4. CpInit' /\ DqInit' /\ WqInit'
    BY <2>1, <2>2, LibIdle
  <2> QED BY <1>1, <1>4, <2>3, <2>4 DEF LibInv
<1>5. CASE system = "work queue"
  <2>1. WqInv /\ CpInit /\ DqInit /\ PipeInit
    BY <1>5 DEF LibInv
  <2>2. [WorkQueueNext]_workVars /\ UNCHANGED <<completed, dq, pipe, wq>>
    BY <1>5 DEF MCNext, Stopped, libraryVars, workVars
  <2>3. WqInv'
    BY <2>1, <2>2, WqNextPreserves
  <2>4. CpInit' /\ DqInit' /\ PipeInit'
    BY <2>1, <2>2, LibIdle
  <2> QED BY <1>1, <1>5, <2>3, <2>4 DEF LibInv
<1>6. CASE system \notin {"completion", "data queue", "pipe", "work queue"}
  <2>1. CpInit /\ DqInit /\ PipeInit /\ WqInit /\ BlockingInit
    BY <1>6 DEF LibInv
  <2>2. UNCHANGED <<threadVars, completed, dq, pipe, wq, queue>>
    BY <1>6 DEF MCNext, Stopped, libraryVars
  <2>3. CpInit' /\ DqInit' /\ PipeInit' /\ WqInit' /\ BlockingInit'
    BY <2>1, <2>2, LibIdle
  <2> QED BY <1>1, <1>6, <2>3 DEF LibInv
<1> QED BY <1>2, <1>3, <1>4, <1>5, <1>6

\* Nobody who waits for an object of the library is forgotten, for any threads,
\* sizes and messages, the data queue whose put_index has come round included, if
\* one thread reads the pipe: no wakeup of rt_completion_done, rt_data_queue_push
\* and pop, rt_wqueue_wakeup and _workqueue_work_completion is lost between the
\* section that looks and the one that suspends.  Two sleepers are not meant: a poll
\* for which rt_malloc found no node, with which the system has stopped, and the
\* worker of a work queue.
THEOREM LibraryWaitersAlwaysServed ==
    ASSUME Receiver # {}, OneReader
    PROVE  MCSpec => []LibraryWaitersServed
<1>1. MCInit => LibInv
  BY LibFirst
<1>2. LibInv /\ [MCNext]_libraryVars => LibInv'
  BY LibStep
<1>3. LibInv => LibraryWaitersServed
  BY LibServes
<1> QED BY <1>1, <1>2, <1>3, PTL DEF MCSpec, libraryVars
=============================================================================
