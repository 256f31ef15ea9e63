------------------------------ MODULE MemHeap -------------------------------
(***************************************************************************)
(* src/memheap.c: a pool of memory cut into blocks, each behind a header   *)
(* that links it to its neighbours and, while it is free, into a list of   *)
(* free blocks.  heap->lock is held over everything a call does to the     *)
(* blocks, so what lies between taking and releasing it is one step; a     *)
(* reallocation that moves is two, its allocation and its release.         *)
(***************************************************************************)
EXTENDS Lists

CONSTANTS
    PoolSize,      \* heap->pool_size, in units of RT_ALIGN_SIZE
    HeaderSize,    \* RT_MEMHEAP_SIZE
    MinAlloc,      \* RT_MEMHEAP_MINIALLOC
    HeapRequest    \* the sizes that are asked for, aligned

ASSUME MemHeapAssumption ==
    /\ HeaderSize \in Nat \ {0} /\ MinAlloc \in Nat \ {0} /\ HeapRequest \subseteq Nat
    /\ PoolSize \in Nat /\ PoolSize > 2 * HeaderSize + MinAlloc

\* heap.item[a]     the header at address a: its neighbours and whether it is used
\* heap.free        heap->free_list, from its next_free on
\* heap.available   heap->available_size
\* heap.moving      the blocks that a reallocation has copied and not yet freed
VARIABLE heap

\* the empty block at the end, which is used, so that nothing merges with it
Tailer == PoolSize - HeaderSize

HeapInit ==
    heap = [item |-> [a \in {0, Tailer} |->
                         IF a = 0 THEN [next |-> Tailer, prev |-> Tailer, used |-> FALSE]
                         ELSE [next |-> 0, prev |-> 0, used |-> TRUE]],
            free |-> <<0>>, available |-> PoolSize - 2 * HeaderSize, moving |-> {}]

\* MEMITEM_SIZE
ItemSize(h, a) == h.item[a].next - a - HeaderSize

RequestedSize(size) == IF size < MinAlloc THEN MinAlloc ELSE size

OffFreeList(h, a) == [h EXCEPT !.free = Without(@, a)]
OnFreeList(h, a)  == [h EXCEPT !.free = <<a>> \o @]

\* a free block at address b, behind block a, in neither list before
Inserted(h, a, b) ==
    LET after == h.item[a].next
        with  == [x \in DOMAIN h.item \cup {b} |->
                     IF x = b THEN [next |-> after, prev |-> a, used |-> FALSE]
                     ELSE h.item[x]]
    IN  [h EXCEPT !.item = [with EXCEPT ![a].next = b, ![after].prev = b]]

\* mutant: the block behind the two does not learn who its neighbour is now
Absorbed_OneWay(h, a) ==
    LET b == h.item[a].next
        without == [x \in DOMAIN h.item \ {b} |-> h.item[x]]
    IN  [h EXCEPT !.item = [without EXCEPT ![a].next = h.item[b].next]]

\* the block behind block a becomes a part of it
Absorbed(h, a) ==
    LET b == h.item[a].next
        c == h.item[b].next
        without == [x \in DOMAIN h.item \ {b} |-> h.item[x]]
    IN  [h EXCEPT !.item = [without EXCEPT ![a].next = c, ![c].prev = a]]

\* the first block of the free list that is large enough, or none
FirstFit(size) == SelectInSeq(heap.free, LAMBDA a : ItemSize(heap, a) >= size)

\* the heap after the allocation of size bytes from the free block a, which is
\* split when enough is left for another block
AllocatedFrom(a, size) ==
    LET splits == ItemSize(heap, a) >= size + HeaderSize + MinAlloc
        new    == a + size + HeaderSize
        cut    == IF splits THEN OnFreeList(OffFreeList(Inserted(heap, a, new), a), new)
                  ELSE OffFreeList(heap, a)
        less   == IF splits THEN size + HeaderSize ELSE ItemSize(heap, a)
    IN  [cut EXCEPT !.available = @ - less, !.item[a].used = TRUE]

\* rt_memheap_alloc.  That size < available_size is tested before the lock is
\* taken, of a heap that others may change until then: only the search decides.
CanAlloc(size) == FirstFit(size) > 0

HeapAlloc(request) ==
    LET size == RequestedSize(request) IN
    CanAlloc(size) /\ heap' = AllocatedFrom(heap.free[FirstFit(size)], size)

\* block a, which was used, is free
MarkedFree(h, a) == [h EXCEPT !.item[a].used = FALSE, !.available = @ + ItemSize(h, a)]

\* block a and the free block behind it are one
MergedWithNext(h, a) == [Absorbed(h, a) EXCEPT !.available = @ + HeaderSize]

\* block a takes in the block behind it, if that is free and thus in the list
RightMerged(h, a) ==
    LET after == h.item[a].next IN
    IF h.item[after].used THEN h ELSE OffFreeList(MergedWithNext(h, a), after)

\* rt_memheap_free: the block merges with the one before it, whose place in the
\* list it takes, and with the one behind it
Released(h, a) ==
    LET freed  == MarkedFree(h, a)
        before == freed.item[a].prev
    IN  IF ~freed.item[before].used
        THEN RightMerged(MergedWithNext(freed, before), before)
        ELSE OnFreeList(RightMerged(freed, a), a)

\* the blocks that callers hold
Allocated == {a \in DOMAIN heap.item : heap.item[a].used} \ {Tailer}

HeapFree(a) == a \in Allocated \ heap.moving /\ heap' = Released(heap, a)

-----------------------------------------------------------------------------
(* rt_memheap_realloc                                                      *)

\* the free block behind block a can give what is asked for, and stay a block
Expands(a, size) ==
    LET next == heap.item[a].next IN
    /\ ~heap.item[next].used
    /\ ItemSize(heap, next) + ItemSize(heap, a) > size + MinAlloc

HeapGrow(a, request) ==
    LET size == RequestedSize(request)
        next == heap.item[a].next
        new  == a + HeaderSize + size
    IN  /\ a \in Allocated \ heap.moving /\ size > ItemSize(heap, a) /\ Expands(a, size)
        /\ heap' = [OnFreeList(Inserted(Absorbed(OffFreeList(heap, next), a), a, new), new)
                       EXCEPT !.available = @ - (size - ItemSize(heap, a))]

\* a new block is allocated, and the contents are copied
HeapMove(a, request) ==
    LET size == RequestedSize(request) IN
    /\ a \in Allocated \ heap.moving /\ size > ItemSize(heap, a) /\ ~Expands(a, size)
    /\ CanAlloc(size)
    /\ heap' = [AllocatedFrom(heap.free[FirstFit(size)], size) EXCEPT !.moving = @ \cup {a}]

HeapMoved(a) ==
    a \in heap.moving /\ heap' = [Released(heap, a) EXCEPT !.moving = @ \ {a}]

\* what is cut off becomes a block, unless too little would be left for one,
\* and merges with a free block behind it
HeapShrink(a, request) ==
    LET size  == RequestedSize(request)
        new   == a + HeaderSize + size
        cut   == Inserted(heap, a, new)
        after == heap.item[a].next
        right == IF heap.item[after].used THEN cut
                 ELSE [OffFreeList(Absorbed(cut, new), after)
                          EXCEPT !.available = @ - ItemSize(heap, after)]
    IN  /\ a \in Allocated \ heap.moving /\ request > 0
        /\ size + HeaderSize + MinAlloc < ItemSize(heap, a)
        /\ heap' = [OnFreeList(right, new) EXCEPT !.available = @ + ItemSize(right, new)]

HeapNext ==
    \/ \E request \in HeapRequest : HeapAlloc(request)
    \/ \E a \in Allocated :
          \/ HeapFree(a) \/ HeapMoved(a)
          \/ \E request \in HeapRequest :
                HeapGrow(a, request) \/ HeapMove(a, request) \/ HeapShrink(a, request)

HeapSpec == HeapInit /\ [][HeapNext]_heap

-----------------------------------------------------------------------------

FreeBlocks == {a \in DOMAIN heap.item : ~heap.item[a].used}

\* what the free blocks have for callers
FreeUnits ==
    {x \in 0..PoolSize : \E a \in FreeBlocks : a + HeaderSize <= x /\ x < heap.item[a].next}

\* The headers cut the pool into blocks without a gap or an overlap, and link
\* each to its two neighbours; no two free blocks are neighbours; the free
\* list holds the free blocks, and available_size is what they hold together.
HeapAgrees ==
    LET blocks == DOMAIN heap.item
    IN  /\ {0, Tailer} \subseteq blocks /\ heap.item[Tailer].next = 0
        /\ \A a \in blocks :
              /\ heap.item[a].next \in blocks /\ heap.item[heap.item[a].next].prev = a
              /\ a # Tailer => /\ ItemSize(heap, a) >= MinAlloc
                               /\ \A b \in blocks : ~(a < b /\ b < heap.item[a].next)
              /\ a \in FreeBlocks => heap.item[a].next \notin FreeBlocks
        /\ IsInjective(heap.free) /\ ToSet(heap.free) = FreeBlocks
        /\ heap.available = Cardinality(FreeUnits)
=============================================================================
