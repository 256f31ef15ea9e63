----------------------------- MODULE MCThreads ------------------------------
(* Small instances of Threads for TLC. *)
EXTENDS Threads

CONSTANTS idle, main, a, b, defunct

\* main (middle) starts a (high), which exits or is deleted, and b (its equal)
MCInitPrio == idle :> 2 @@ main :> 1 @@ a :> 0 @@ b :> 1
\* all but the idle thread share one priority and the processor by time slices
MCEqualPrio == [t \in Thread |-> IF t = idle THEN 1 ELSE 0]
MCOwner    == [t \in Thread \ {idle, main} |-> main]
=============================================================================
