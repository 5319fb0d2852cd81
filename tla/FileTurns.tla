----------------------------- MODULE FileTurns -----------------------------
(***************************************************************************)
(* How src/src/app-data.js keeps that promise: each call on a path takes   *)
(* its turn after the one before it, reads the file, and writes what it    *)
(* made of it through a temp file and a rename.  One process; two daemons  *)
(* on one directory have turns of their own.                               *)
(***************************************************************************)
EXTENDS Naturals

CONSTANTS N, Values, Ops,
  Torn  \* a temp file that was not written to its end

Calls == 1..N

ASSUME ConstantsAssumption ==
  N \in Nat /\ Ops \subseteq [Values -> Values] /\ Torn \notin Values

VARIABLES
  file,   \* what the file holds
  temp,   \* what its temp file holds
  call,   \* per call: how far it is, what it asks for, what it read, answered
  after,  \* per call: the call its turn comes after, or None
  last    \* fileTurns: the last call that asked for a turn, or None

vars == <<file, temp, call, after, last>>

None == 0
Running == {"read", "writing", "written"}
Pending(c) == call[c].at \in {"asked"} \cup Running
Ended(c) == call[c].at \in {"done", "failed", "lost"}

Init ==
  /\ file \in Values /\ temp = Torn
  /\ call \in [Calls -> [at : {"new"}, op : Ops, got : {file},
                         answer : {file}]]
  /\ after = [c \in Calls |-> None] /\ last = None

\* Mutant: the call does not wait for the one before it.
AskAtOnce(c) ==
  /\ call[c].at = "new" /\ \A d \in 1..(c - 1) : call[d].at # "new"
  /\ call' = [call EXCEPT ![c].at = "asked"]
  /\ last' = c
  /\ UNCHANGED <<file, temp, after>>

\* takeTurn: after the call before it, and the last from now on.
Ask(c) ==
  /\ call[c].at = "new" /\ \A d \in 1..(c - 1) : call[d].at # "new"
  /\ call' = [call EXCEPT ![c].at = "asked"]
  /\ after' = [after EXCEPT ![c] = last] /\ last' = c
  /\ UNCHANGED <<file, temp>>

\* `forget`: the last call has ended.
Forget ==
  /\ last # None /\ Ended(last) /\ last' = None
  /\ UNCHANGED <<file, temp, call, after>>

\* Mutant: the failure of a call stops the ones after it.
TurnUnlessFailed(c) == after[c] # None => call[after[c]].at = "done"

\* Its turn has come: the one before it has ended, either way.
Turn(c) == after[c] # None => Ended(after[c])

\* readJsonFileWithRetry.
Reads(c) ==
  /\ call[c].at = "asked" /\ Turn(c)
  /\ call' = [call EXCEPT ![c].at = "read", ![c].got = file]
  /\ UNCHANGED <<file, temp, after, last>>

\* What the call makes of it: nothing, for a read and for a `mutate` that
\* returns undefined, which is all there is to it.
Answers(c) ==
  /\ call[c].at = "read" /\ call[c].op[call[c].got] = call[c].got
  /\ call' = [call EXCEPT ![c].at = "done", ![c].answer = call[c].got]
  /\ UNCHANGED <<file, temp, after, last>>

\* writeNow begins to write the temp file.
Writes(c) ==
  /\ call[c].at = "read" /\ call[c].op[call[c].got] # call[c].got
  /\ call' = [call EXCEPT ![c].at = "writing"] /\ temp' = Torn
  /\ UNCHANGED <<file, after, last>>

Written(c) ==
  /\ call[c].at = "writing"
  /\ call' = [call EXCEPT ![c].at = "written"]
  /\ temp' = call[c].op[call[c].got]
  /\ UNCHANGED <<file, after, last>>

Renames(c) ==
  /\ call[c].at = "written" /\ file' = temp
  /\ call' = [call EXCEPT ![c].at = "done", ![c].answer = temp]
  /\ UNCHANGED <<temp, after, last>>

\* A read, write or rename throws.
Fails(c) ==
  /\ Pending(c) /\ Turn(c)
  /\ call' = [call EXCEPT ![c].at = "failed"]
  /\ UNCHANGED <<file, temp, after, last>>

\* The daemon stops; the next one has no turns to wait for.
Crash ==
  /\ call' = [c \in Calls |-> IF Pending(c) THEN [call[c] EXCEPT !.at = "lost"]
                              ELSE call[c]]
  /\ last' = None
  /\ UNCHANGED <<file, temp, after>>

Steps(c) ==
  Reads(c) \/ Answers(c) \/ Writes(c) \/ Written(c) \/ Renames(c) \/ Fails(c)

Next == Forget \/ Crash \/ \E c \in Calls : Ask(c) \/ Steps(c)

Spec == Init /\ [][Next]_vars

\* A turn that has come is taken, and the file system answers.
FairSpec == Spec /\ \A c \in Calls : WF_vars(Steps(c))

-----------------------------------------------------------------------------
(* Properties.                                                             *)

Stage(at) == IF at \in Running THEN "asked" ELSE at

Promise == INSTANCE AtomicFile WITH
  value <- file,
  call <- [c \in Calls |-> [at |-> Stage(call[c].at), op |-> call[c].op,
                            answer |-> call[c].answer]]

\* However calls overlap, fail or are cut off, each of them is one step on the
\* file: no change is lost, no half-written file is read, and what it answers
\* is what it made of the file (updateJsonFile, writeNow).
ImplementsAtomicFile == Promise!Spec

\* Every call ends, also after one before it has failed (takeTurn).
CallsEnd == \A c \in Calls : Pending(c) ~> Ended(c)
=============================================================================
