---------------------------- MODULE MCCommitLog -----------------------------
(***************************************************************************)
(* Small instances of CommitLog.                                           *)
(***************************************************************************)
EXTENDS CommitLog

\* A buffer of 6 bytes takes two frames with the first, one with the second,
\* and none with the third.
MCSizes == {1, 3, 6}
=============================================================================
