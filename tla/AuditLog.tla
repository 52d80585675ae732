------------------------------ MODULE AuditLog ------------------------------
(***************************************************************************)
(* What the pipeline promises of its commit log, without saying how: the   *)
(* log only grows, and it lists some of the parsable events that reached   *)
(* the hook, each at most once and in the order of their arrival.          *)
(***************************************************************************)
EXTENDS Ordering

VARIABLES
  seen,  \* how many events have arrived; the n-th has id n
  log    \* the events in the log, oldest first

auditVars == <<seen, log>>

AuditInit == seen = 0 /\ log = << >>

Arrival == seen' = seen + 1 /\ UNCHANGED log

\* One or more events are appended.
Extend ==
  /\ Len(log) < Len(log')
  /\ SubSeq(log', 1, Len(log)) = log
  /\ Numbered(log', seen)
  /\ \A i \in DOMAIN log' : log'[i].kind # "bad"
  /\ UNCHANGED seen

AuditNext == Arrival \/ Extend

AuditSpec == AuditInit /\ [][AuditNext]_auditVars
=============================================================================
