----------------------------- MODULE AtomicFile -----------------------------
(***************************************************************************)
(* What src/src/app-data.js promises about the JSON files of a daemon: a   *)
(* read, a write or an update of one either takes place in one step, on    *)
(* what all the calls before it made of the file, or fails and leaves the  *)
(* file alone; a daemon that stops leaves the calls it owes unanswered,    *)
(* and the file whole.  SourceRegistry takes each change of sources.json   *)
(* as one step on this promise; FileTurns implements it.                   *)
(***************************************************************************)
EXTENDS Naturals

CONSTANTS
  N,       \* how many calls are made, numbered as they are made
  Values,  \* what the file may hold
  Ops      \* what a call makes of the file, by what it holds: a read keeps it,
           \* a write replaces it, an update does one or the other

Calls == 1..N

VARIABLES
  value,  \* what the file holds
  call    \* per call: whether it has ended, what it asks for and its answer

vars == <<value, call>>

Pending(c) == call[c].at = "asked"

Init ==
  /\ value \in Values
  /\ call \in [Calls -> [at : {"new"}, op : Ops, answer : {value}]]

Ask(c) ==
  /\ call[c].at = "new" /\ \A d \in 1..(c - 1) : call[d].at # "new"
  /\ call' = [call EXCEPT ![c].at = "asked"]
  /\ UNCHANGED value

Take(c) ==
  /\ Pending(c)
  /\ value' = call[c].op[value]
  /\ call' = [call EXCEPT ![c].at = "done", ![c].answer = value']

Fail(c) ==
  /\ Pending(c) /\ call' = [call EXCEPT ![c].at = "failed"]
  /\ UNCHANGED value

Crash ==
  /\ call' = [c \in Calls |-> IF Pending(c) THEN [call[c] EXCEPT !.at = "lost"]
                              ELSE call[c]]
  /\ UNCHANGED value

Next == Crash \/ \E c \in Calls : Ask(c) \/ Take(c) \/ Fail(c)

Spec == Init /\ [][Next]_vars
=============================================================================
