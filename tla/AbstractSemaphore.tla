-------------------------- MODULE AbstractSemaphore --------------------------
(***************************************************************************)
(* What a semaphore promises: a take succeeds by consuming a token, or by  *)
(* being handed the one that a release would otherwise have added; nobody  *)
(* begins to wait while there are tokens; a take that fails consumes none; *)
(* and when the semaphore ends, everyone who waits fails.                  *)
(***************************************************************************)
EXTENDS Naturals

CONSTANTS Taker, InitValue, ResetValue

VARIABLES tokens, state, open
vars == <<tokens, state, open>>

Waiter == {t \in Taker : state[t] = "waiting"}

Init == tokens = InitValue /\ state = [t \in Taker |-> "idle"] /\ open = TRUE

Take(t) ==
    /\ open /\ state[t] = "idle" /\ tokens > 0
    /\ tokens' = tokens - 1
    /\ state' = [state EXCEPT ![t] = "got"]
    /\ UNCHANGED open

Wait(t) ==
    /\ open /\ state[t] = "idle" /\ tokens = 0
    /\ state' = [state EXCEPT ![t] = "waiting"]
    /\ UNCHANGED <<tokens, open>>

\* without waiting, by a time-out, or because the semaphore has ended
Fail(t) ==
    /\ state[t] = "waiting" \/ (open /\ state[t] = "idle" /\ tokens = 0)
    /\ state' = [state EXCEPT ![t] = "failed"]
    /\ UNCHANGED <<tokens, open>>

Release == open /\ Waiter = {} /\ tokens' = tokens + 1 /\ UNCHANGED <<state, open>>

\* a release while somebody waits
Grant(t) ==
    /\ open /\ state[t] = "waiting"
    /\ state' = [state EXCEPT ![t] = "got"]
    /\ UNCHANGED <<tokens, open>>

Return(t) ==
    /\ state[t] \in {"got", "failed"}
    /\ state' = [state EXCEPT ![t] = "idle"]
    /\ UNCHANGED <<tokens, open>>

\* RT_IPC_CMD_RESET
Reset(v) ==
    /\ open /\ tokens' = v
    /\ state' = [t \in Taker |-> IF t \in Waiter THEN "failed" ELSE state[t]]
    /\ UNCHANGED open

Close == open /\ open' = FALSE /\ UNCHANGED <<tokens, state>>

Open ==
    /\ ~open /\ open' = TRUE /\ Waiter = {}
    /\ tokens' = InitValue /\ UNCHANGED state

Next ==
    \/ \E t \in Taker : Take(t) \/ Wait(t) \/ Fail(t) \/ Grant(t) \/ Return(t)
    \/ Release \/ Close \/ Open
    \/ \E v \in ResetValue : Reset(v)

Spec == Init /\ [][Next]_vars
=============================================================================
