-------------------------------- MODULE Rings --------------------------------
(***************************************************************************)
(* The circular buffers of the driver library: what memcpy does with one   *)
(* from an index on and around its end, in two parts if it must.           *)
(***************************************************************************)
EXTENDS Integers, Sequences

Shorter(m, n) == IF m < n THEN m ELSE n

\* at most n elements of a sequence, from its start or up to its end
Oldest(s, n) == SubSeq(s, 1, Shorter(n, Len(s)))
Newest(s, n) == SubSeq(s, Len(s) - Shorter(n, Len(s)) + 1, Len(s))

\* n bytes read from an index on
RingBytes(buf, size, from, n) == [i \in 1..n |-> buf[(from + i - 1) % size]]

\* the buffer with the bytes written from an index on
RingStored(buf, size, at, bytes) ==
    [i \in 0..size - 1 |->
        LET k == (i - at) % size IN IF k < Len(bytes) THEN bytes[k + 1] ELSE buf[i]]

\* a call: its kind, the length given to it, the bytes given or taken
RingCall(op, length, bytes) == [op |-> op, length |-> length, bytes |-> bytes]
Gives(op, bytes) == RingCall(op, Len(bytes), bytes)
=============================================================================
