---------------------------- MODULE MCFileTurns ----------------------------
(* FileTurns for TLC: a registry of up to two sources, which are added,     *)
(* removed and purged, and read.                                            *)
EXTENDS FileTurns

Sources == {"s1", "s2"}
MCValues == {v : v \in SUBSET Sources}

MCOps ==
  {[v \in MCValues |-> v], [v \in MCValues |-> {}]} \cup
  {[v \in MCValues |-> v \cup {s}] : s \in Sources} \cup
  {[v \in MCValues |-> v \ {s}] : s \in Sources}
=============================================================================
