------------------------------ MODULE MCMutex -------------------------------
(* Small instances of Mutex for TLC. *)
EXTENDS Mutex

CONSTANTS idle, hi, mid, lo

MCInitPrio == idle :> 3 @@ hi :> 0 @@ mid :> 1 @@ lo :> 2
MCAnyTime  == [t \in Taker |-> {"no", "ticks", "forever"}]
MCForever  == [t \in Taker |-> {"forever"}]
\* hi may lend its priority to the owner and give up
MCHiTimed  == [t \in Taker |-> IF t = hi THEN {"ticks", "forever"} ELSE {"forever"}]
=============================================================================
