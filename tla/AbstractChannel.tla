-------------------------- MODULE AbstractChannel ---------------------------
(***************************************************************************)
(* What a mailbox and a message queue promise: what is sent is received    *)
(* once, by one receiver, in the order of sending, messages in Urgent      *)
(* before all others, and no more than Capacity messages are ever pending. *)
(***************************************************************************)
EXTENDS Sequences, Naturals

CONSTANTS Message, Urgent, Receiver, Capacity, Nothing

VARIABLES chan, inbox
vars == <<chan, inbox>>

Init == chan = << >> /\ inbox = [r \in Receiver |-> Nothing]

Send(m) == Len(chan) < Capacity /\ chan' = Append(chan, m) /\ UNCHANGED inbox

SendUrgent(m) == Len(chan) < Capacity /\ chan' = <<m>> \o chan /\ UNCHANGED inbox

Receive(r) ==
    /\ chan # << >> /\ inbox[r] = Nothing
    /\ inbox' = [inbox EXCEPT ![r] = Head(chan)]
    /\ chan' = Tail(chan)

Consume(r) ==
    /\ inbox[r] # Nothing
    /\ inbox' = [inbox EXCEPT ![r] = Nothing] /\ UNCHANGED chan

Clear == chan' = << >> /\ UNCHANGED inbox

Next ==
    \/ \E m \in Message \ Urgent : Send(m)
    \/ \E m \in Urgent : SendUrgent(m)
    \/ \E r \in Receiver : Receive(r) \/ Consume(r)
    \/ Clear

Spec == Init /\ [][Next]_vars
=============================================================================
