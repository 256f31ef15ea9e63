-------------------------------- MODULE Lists --------------------------------
(***************************************************************************)
(* rtservice.h: the linked lists, as the sequences of what they link.      *)
(***************************************************************************)
EXTENDS Integers, SequencesExt

\* rt_list_remove on the list s: the one node of t goes
Without(s, t) ==
    IF t \in ToSet(s) THEN RemoveAt(s, CHOOSE i \in DOMAIN s : s[i] = t) ELSE s
=============================================================================
