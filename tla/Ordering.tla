------------------------------ MODULE Ordering -------------------------------
(***************************************************************************)
(* Sequences of things with numbers, as the queues, buffers and files on   *)
(* the way from the hook to the disk hold them.                            *)
(***************************************************************************)
EXTENDS Integers, Sequences

\* Ids strictly increase along the sequence.
Increasing(s) == \A i, j \in DOMAIN s : i < j => s[i].id < s[j].id

\* ... and none is beyond n, the last one given out.
Numbered(s, n) == Increasing(s) /\ \A i \in DOMAIN s : s[i].id <= n
=============================================================================
