------------------------------- MODULE RingBlk -------------------------------
(***************************************************************************)
(* components/drivers/src/ringblk_buf.c: blocks of consecutive bytes that  *)
(* go round a buffer.  A block is an element of the array rbb->blk_set     *)
(* that says where its bytes are; rbb->blk_list holds the blocks in use in *)
(* the order of their allocation.  Every call is one section, save that    *)
(* rt_rbb_blk_queue_free is one for each block.                            *)
(***************************************************************************)
EXTENDS Lists

CONSTANTS
    BlkMax,      \* rbb->blk_max_num
    RbbSize,     \* rbb->buf_size
    BlkSize      \* the sizes that are allocated

ASSUME RingBlkAssumption ==
    BlkMax \in Nat \ {0} /\ RbbSize \in Nat \ {0} /\ BlkSize \subseteq Nat \ {0}

Blk == 0..BlkMax - 1

\* rbb.list         rbb->blk_list, as indices of blk_set
\* rbb.status       block->status
\* rbb.buf, .size   block->buf, as an offset, and block->size
\* rbb.first, .num  blocks and blk_num of the block queue the consumer holds
VARIABLE rbb

RbbInit ==
    rbb = [list |-> << >>, status |-> [b \in Blk |-> "UNUSED"],
           buf |-> [b \in Blk |-> 0], size |-> [b \in Blk |-> 0], first |-> 0, num |-> 0]

Unused == {b \in Blk : rbb.status[b] = "UNUSED"}

\* find_empty_blk_in_set
FirstUnused == CHOOSE b \in Unused : \A c \in Unused : b <= c

End(b) == rbb.buf[b] + rbb.size[b]

\* mutant: the first block is never taken to lie behind the last one
Places_NoWrap(n) ==
    LET last == rbb.list[Len(rbb.list)] IN
    IF rbb.list = << >> THEN <<0>>
    ELSE SelectSeq(<<End(last), 0>>,
             LAMBDA a : IF a = 0 THEN rbb.buf[rbb.list[1]] >= n ELSE RbbSize - a >= n)

\* where n bytes can be: after the last block, else, if the blocks do not go
\* round the end yet, at the start of the buffer
Places(n) ==
    IF rbb.list = << >> THEN <<0>>
    ELSE LET head == rbb.list[1]
             tail == rbb.list[Len(rbb.list)]
         IN  IF rbb.buf[head] <= rbb.buf[tail]
             THEN (IF RbbSize - End(tail) >= n THEN <<End(tail)>> ELSE << >>)
                  \o (IF rbb.buf[head] >= n THEN <<0>> ELSE << >>)
             ELSE IF rbb.buf[head] - End(tail) >= n THEN <<End(tail)>> ELSE << >>

\* rt_rbb_blk_alloc
RbbAlloc(n) ==
    /\ Unused # {} /\ Places(n) # << >>
    /\ rbb' = [rbb EXCEPT !.list = Append(@, FirstUnused), !.status[FirstUnused] = "INITED",
                          !.buf[FirstUnused] = Places(n)[1], !.size[FirstUnused] = n]

\* rt_rbb_blk_put
RbbPut(b) ==
    /\ rbb.status[b] = "INITED"
    /\ rbb' = [rbb EXCEPT !.status[b] = "PUT"]

\* the place in the list of the first block that has been put, or 0
FirstPut == SelectInSeq(rbb.list, LAMBDA b : rbb.status[b] = "PUT")

\* rt_rbb_blk_get
RbbGet ==
    /\ FirstPut > 0
    /\ rbb' = [rbb EXCEPT !.status[rbb.list[FirstPut]] = "GET"]

\* where the bytes of an unused block were is not read again
Freed(r, b) ==
    [r EXCEPT !.list = Without(@, b), !.status[b] = "UNUSED",
              !.buf[b] = 0, !.size[b] = 0]

\* rt_rbb_blk_free, of a block that no queue holds
RbbFree(b) ==
    /\ rbb.status[b] # "UNUSED" /\ b \in ToSet(rbb.list)
    /\ rbb' = Freed(rbb, b)

\* rt_rbb_blk_queue_get takes the k-th block behind the first put one too: it has
\* been put, lies behind the one before, and fits
Joins(max, k) ==
    LET after(n) == rbb.list[FirstPut + n] IN
    /\ rbb.status[after(k)] = "PUT"
    /\ rbb.buf[after(k - 1)] <= rbb.buf[after(k)]
    /\ FoldLeft(LAMBDA n, b : n + rbb.size[b], 0, SubSeq(rbb.list, FirstPut, FirstPut + k))
          <= max

\* how many blocks it takes
Taken(max) ==
    1 + Cardinality({k \in 1..Len(rbb.list) - FirstPut : \A j \in 1..k : Joins(max, j)})

\* rt_rbb_blk_queue_get: the blocks leave the list
RbbQueueGet(max) ==
    /\ rbb.num = 0 /\ FirstPut > 0
    /\ LET next  == FirstPut + Taken(max)
           taken == ToSet(SubSeq(rbb.list, FirstPut, next - 1))
       IN
       rbb' = [rbb EXCEPT !.list = SubSeq(@, 1, FirstPut - 1) \o SubSeq(@, next, Len(@)),
                          !.status = [b \in Blk |-> IF b \in taken THEN "GET" ELSE @[b]],
                          !.first = rbb.list[FirstPut], !.num = Taken(max)]

\* the elements of blk_set that the queue stands for: blocks[0], blocks[1], ...
Held == rbb.first..rbb.first + rbb.num - 1

\* rt_rbb_blk_queue_free, one element: a call frees blocks[0], blocks[1], ...,
\* unless rt_rbb_blk_free finds that it is not in use and its assertion fails
RbbQueueFree ==
    /\ rbb.num > 0 /\ rbb.first \in Blk \ Unused
    /\ rbb' = [Freed(rbb, rbb.first) EXCEPT !.first = @ + 1, !.num = @ - 1]

RingBlkNext ==
    \/ \E n \in BlkSize : RbbAlloc(n)
    \/ \E b \in Blk : RbbPut(b) \/ RbbFree(b)
    \/ RbbGet \/ RbbQueueFree
    \/ \E max \in BlkSize : RbbQueueGet(max)

RbbSpec == RbbInit /\ [][RingBlkNext]_rbb

-----------------------------------------------------------------------------

\* The blocks in the list are in use, inside the buffer, and no two of them
\* share a byte, in whatever order they have been freed.
RbbBlocksDisjoint ==
    LET listed == ToSet(rbb.list) IN
    /\ IsInjective(rbb.list) /\ listed \cap Unused = {}
    /\ \A b \in listed : End(b) <= RbbSize
    /\ \A b, c \in listed : b # c => End(b) <= rbb.buf[c] \/ End(c) <= rbb.buf[b]

\* What the code does not keep: that "the blocks (from block1->buf to
\* blockn->buf) memory which on this queue is continuous" (ringblk_buf.h:53),
\* each element of the queue a block that has been taken, and starting where
\* the one before it ends.
RbbQueueContinuous ==
    rbb.num > 0 =>
        /\ \A b \in Held : b \in Blk /\ rbb.status[b] = "GET"
        /\ \A b \in Held \ {rbb.first} : rbb.buf[b] = End(b - 1)
=============================================================================
