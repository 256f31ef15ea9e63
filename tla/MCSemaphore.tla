---------------------------- MODULE MCSemaphore -----------------------------
(* Small instances of Semaphore for TLC. *)
EXTENDS Semaphore

CONSTANTS idle, a, b, c

\* a outranks b and c, which share one priority
MCInitPrio == idle :> 2 @@ a :> 0 @@ b :> 1 @@ c :> 1
\* all but the idle thread share one priority
MCEqualPrio == [t \in Thread |-> IF t = idle THEN 1 ELSE 0]

MCAnyTime  == [t \in Taker |-> {"no", "ticks", "forever"}]
MCForever  == [t \in Taker |-> {"forever"}]
MCATimed   == [t \in Taker |-> IF t = a THEN {"ticks"} ELSE {"forever"}]
=============================================================================
