---------------------------- MODULE MCSourceSync ----------------------------
(* SourceSync for TLC: how often each event of the environment happens.     *)
EXTENDS SourceSync

\* Two drops, the second during the recovery from the first, two rescans, a
\* restart, and every way in which a pass, an open, a scan or a write can fail.
EventBudget ==
  [e \in Events |-> IF e \in {"drop", "rescan"} THEN 2 ELSE 1]
=============================================================================
