---------------------------- MODULE AbstractRing ----------------------------
(***************************************************************************)
(* What a ring of bytes promises: the bytes leave in the order in which    *)
(* they came, none is lost that is not refused or dropped, and when there  *)
(* is no room either the new ones are refused or the oldest ones make      *)
(* room, and no more of them than must.                                    *)
(***************************************************************************)
EXTENDS Rings

CONSTANT Capacity

\* content  the bytes, the oldest first
\* call     the last call, of kind "put", "force", "take" or "reset"
VARIABLES content, call

Init == content = << >> /\ call = Gives("reset", << >>)

\* what does not fit is refused
Put == call'.op = "put" /\ content' = Oldest(content \o call'.bytes, Capacity)

\* what does not fit makes room
Force == call'.op = "force" /\ content' = Newest(content \o call'.bytes, Capacity)

\* a call takes as many of the oldest bytes as it asks for, if there are
Take ==
    /\ call'.op = "take"
    /\ call'.bytes = Oldest(content, call'.length)
    /\ content = call'.bytes \o content'

Reset == call'.op = "reset" /\ content' = << >>

Next == Put \/ Force \/ Take \/ Reset

Spec == Init /\ [][Next]_<<content, call>>
=============================================================================
