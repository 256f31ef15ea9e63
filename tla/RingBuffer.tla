----------------------------- MODULE RingBuffer -----------------------------
(***************************************************************************)
(* components/drivers/src/ringbuffer.c: a ring of bytes whose two indices  *)
(* carry a mirror bit, so that a full ring and an empty one differ.  The   *)
(* module has no lock: its users (pipe.c under pipe->lock, at_cli.c) make  *)
(* one call at a time, and a call is one step here.                        *)
(***************************************************************************)
EXTENDS Rings

CONSTANTS
    Byte,          \* what the bytes can be
    RbSize,        \* rb->buffer_size
    PutLength,     \* the lengths given to rt_ringbuffer_put
    ForceLength,   \* the lengths given to rt_ringbuffer_put_force
    GetLength      \* the lengths given to rt_ringbuffer_get

ASSUME RingBufferAssumption ==
    /\ RbSize \in Nat \ {0} /\ PutLength \cup ForceLength \cup GetLength \subseteq Nat

\* rb.read, rb.write   an index and its mirror bit
\* rb.buf              the buffer
\* rb.call             the last call, with the bytes given to it or taken by it
VARIABLE rb

Start == [mirror |-> 0, index |-> 0]

\* The buffer is that of rt_malloc or of the caller: its bytes, whatever they
\* are, are not read before they have been written.
RbInit ==
    \E b \in Byte :
        rb = [read |-> Start, write |-> Start, buf |-> [i \in 0..RbSize - 1 |-> b],
              call |-> Gives("reset", << >>)]

\* rt_ringbuffer_status
RbStatus(r) ==
    IF r.read.index # r.write.index THEN "half full"
    ELSE IF r.read.mirror = r.write.mirror THEN "empty" ELSE "full"

\* mutant: the mirror bits are not looked at
data_len_NoMirror(r) == (r.write.index - r.read.index) % RbSize

data_len(r) ==
    CASE RbStatus(r) = "empty" -> 0
      [] RbStatus(r) = "full"  -> RbSize
      [] OTHER -> IF r.write.index > r.read.index THEN r.write.index - r.read.index
                  ELSE RbSize - (r.read.index - r.write.index)

space_len(r) == RbSize - data_len(r)

\* an index moved by n bytes, into the other mirror when it reaches the end
Advanced(e, n) ==
    IF RbSize - e.index > n THEN [e EXCEPT !.index = @ + n]
    ELSE [mirror |-> 1 - e.mirror, index |-> n - (RbSize - e.index)]

\* the bytes copied to the write index
Copied(r, bytes) == RingStored(r.buf, RbSize, r.write.index, bytes)

\* rt_ringbuffer_put, and rt_ringbuffer_putchar with one byte
RbPut(bytes) ==
    LET kept == Oldest(bytes, space_len(rb)) IN
    /\ space_len(rb) > 0
    /\ rb' = [rb EXCEPT !.buf = Copied(rb, kept), !.write = Advanced(@, Len(kept)),
                        !.call = Gives("put", bytes)]

\* rt_ringbuffer_put_force, and rt_ringbuffer_putchar_force with one byte
RbPutForce(bytes) ==
    LET kept  == Newest(bytes, RbSize)
        write == Advanced(rb.write, Len(kept))
        flips == write.mirror # rb.write.mirror
        read  == [mirror |-> IF flips THEN 1 - rb.read.mirror ELSE rb.read.mirror,
                  index |-> write.index]
    IN  rb' = [rb EXCEPT !.buf = Copied(rb, kept), !.write = write,
                         !.read = IF Len(kept) > space_len(rb) THEN read ELSE @,
                         !.call = Gives("force", bytes)]

\* rt_ringbuffer_get, and rt_ringbuffer_getchar with one byte
RbGet(length) ==
    LET n == Shorter(length, data_len(rb)) IN
    /\ data_len(rb) > 0
    /\ rb' = [rb EXCEPT !.read = Advanced(@, n),
                        !.call = RingCall("take", length,
                                          RingBytes(rb.buf, RbSize, rb.read.index, n))]

RbReset == rb' = [rb EXCEPT !.read = Start, !.write = Start, !.call = Gives("reset", << >>)]

Bytes(lengths) == UNION {[1..n -> Byte] : n \in lengths}

RingBufferNext ==
    \/ \E bytes \in Bytes(PutLength) : RbPut(bytes)
    \/ \E bytes \in Bytes(ForceLength) : RbPutForce(bytes)
    \/ \E length \in GetLength : RbGet(length)
    \/ RbReset

RbSpec == RbInit /\ [][RingBufferNext]_rb

-----------------------------------------------------------------------------

RbContent == RingBytes(rb.buf, RbSize, rb.read.index, data_len(rb))

RbRing == INSTANCE AbstractRing WITH
    Capacity <- RbSize, content <- RbContent, call <- rb.call

\* The ring is a queue of bytes: a put appends what there is room for, a forced
\* put "will discard the old data" (ringbuffer.c:96), only that and no more of
\* it than it must, and a get hands out the oldest, wherever the indices and
\* their mirror bits stand.
RbImplementsRing == RbRing!Spec
=============================================================================
