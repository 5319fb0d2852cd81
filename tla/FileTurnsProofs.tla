-------------------------- MODULE FileTurnsProofs --------------------------
(* That the turns of FileTurns keep the promise of AtomicFile, for any     *)
(* number of calls, any content and whatever the calls make of it.         *)
EXTENDS FileTurns, TLAPS

States == {"new", "asked", "done", "failed", "lost"} \cup Running

TypeOK ==
  /\ file \in Values /\ temp \in Values \cup {Torn}
  /\ call \in [Calls -> [at : States, op : Ops, got : Values,
                         answer : Values]]
  /\ after \in [Calls -> 0..N] /\ last \in 0..N

\* Calls are made in the order of their numbers.
InOrder ==
  \A c, d \in Calls : d < c /\ call[d].at = "new" => call[c].at = "new"

\* A call waits for the one before it that was still owed an answer.
Chain ==
  \A c \in Calls : Pending(c) =>
    /\ after[c] < c
    /\ \A d \in Calls : after[c] < d /\ d < c => ~Pending(d)

\* None has ended that was made after one that has not.
Fifo == \A c, d \in Calls : d < c /\ Pending(d) => ~Ended(c)

\* fileTurns knows the last call that has not ended.
LastKnown ==
  /\ \A d \in Calls : Pending(d) => d <= last
  /\ last # None => call[last].at # "new"

\* Whoever is in its turn has read the file as it still is.
OwnTurn ==
  \A c \in Calls : call[c].at \in Running =>
    /\ Turn(c) /\ call[c].got = file
    /\ call[c].at = "written" => temp = call[c].op[call[c].got]

IInv == TypeOK /\ InOrder /\ Chain /\ Fifo /\ LastKnown /\ OwnTurn

-----------------------------------------------------------------------------

\* Who has the turn waits for nobody: those before it have all ended.
LEMMA FirstInTurn ==
  ASSUME IInv, NEW c \in Calls, Pending(c), Turn(c)
  PROVE  \A d \in Calls : d < c => ~Pending(d)
<1> SUFFICES ASSUME NEW d \in Calls, d < c, Pending(d) PROVE FALSE
  OBVIOUS
<1>1. after[c] \in 0..N /\ N \in Nat
  BY ConstantsAssumption DEF IInv, TypeOK
<1>2. ~(after[c] < d)
  BY DEF IInv, Chain
<1>3. after[c] \in Calls /\ Ended(after[c])
  BY <1>1, <1>2, ConstantsAssumption DEF Turn, None, Calls
<1>4. CASE d = after[c]
  BY <1>3, <1>4 DEF Pending, Ended, Running
<1>5. CASE d < after[c]
  BY <1>3, <1>5 DEF IInv, Fifo
<1> QED
  BY <1>1, <1>2, <1>4, <1>5, ConstantsAssumption DEF Calls

\* Nobody has the turn beside it.
LEMMA OneTurn ==
  ASSUME IInv, NEW c \in Calls, Pending(c), Turn(c),
         NEW d \in Calls, Pending(d), Turn(d)
  PROVE  c = d
<1>1. ~(d < c)
  BY FirstInTurn
<1>2. ~(c < d)
  BY FirstInTurn
<1> QED
  BY <1>1, <1>2, ConstantsAssumption DEF Calls

\* The invariant holds at the start.
LEMMA InitInv == Init => IInv
<1> SUFFICES ASSUME Init PROVE IInv
  OBVIOUS
<1>1. TypeOK
  BY ConstantsAssumption DEF Init, TypeOK, States, None, Calls
<1>2. \A c \in Calls : call[c].at = "new"
  BY DEF Init
<1>3. InOrder /\ Chain /\ Fifo /\ LastKnown /\ OwnTurn
  BY <1>2 DEF InOrder, Chain, Fifo, LastKnown, OwnTurn, Pending, Ended,
              Running, Init
<1> QED
  BY <1>1, <1>3 DEF IInv

\* Asking for a turn keeps it.
LEMMA AskInv ==
  ASSUME IInv, NEW c \in Calls, Ask(c)
  PROVE  IInv'
<1> USE ConstantsAssumption DEF IInv
<1>1. /\ call' = [call EXCEPT ![c].at = "asked"]
      /\ after' = [after EXCEPT ![c] = last] /\ last' = c
      /\ UNCHANGED <<file, temp>> /\ call[c].at = "new"
      /\ \A d \in 1..(c - 1) : call[d].at # "new"
  BY DEF Ask
<1>2. TypeOK'
  <2>1. call' \in [Calls -> [at : States, op : Ops, got : Values,
                             answer : Values]]
    <3>1. [call[c] EXCEPT !.at = "asked"] \in
            [at : States, op : Ops, got : Values, answer : Values]
      BY DEF TypeOK, States
    <3> QED
      BY <1>1, <3>1 DEF TypeOK
  <2>2. after' \in [Calls -> 0..N] /\ last' \in 0..N
    BY <1>1 DEF TypeOK, Calls
  <2> QED
    BY <1>1, <2>1, <2>2 DEF TypeOK
<1>3. \A d \in Calls : d # c => call'[d] = call[d] /\ after'[d] = after[d]
  BY <1>1 DEF TypeOK
<1>4. /\ call'[c].at = "asked" /\ after'[c] = last
      /\ call'[c].op = call[c].op /\ call'[c].got = call[c].got
  BY <1>1 DEF TypeOK
<1>5. \A d \in Calls : c < d => call[d].at = "new"
  BY <1>1 DEF InOrder
<1>6. last < c
  <2>1. last \in 0..N
    BY DEF TypeOK
  <2>2. CASE last = None
    BY <2>2 DEF None, Calls
  <2>3. CASE last # None
    BY <1>1, <1>5, <2>1, <2>3 DEF LastKnown, None, Calls
  <2> QED
    BY <2>2, <2>3
<1>7. InOrder'
  BY <1>1, <1>3, <1>4, <1>5 DEF InOrder, Calls
<1>8. Chain'
  <2> SUFFICES ASSUME NEW e \in Calls, Pending(e)'
               PROVE  /\ (after[e] < e)'
                      /\ \A d \in Calls : (after[e] < d)' /\ d < e
                                          => ~Pending(d)'
    BY DEF Chain
  <2>1. CASE e = c
    <3>1. \A d \in Calls : last < d => ~Pending(d)
      BY DEF LastKnown, TypeOK, Calls
    <3> QED
      BY <1>3, <1>4, <1>6, <2>1, <3>1 DEF Pending, Running, Calls
  <2>2. CASE e # c
    <3>1. Pending(e) /\ e < c
      BY <1>3, <1>5, <2>2 DEF Pending, Running, Calls
    <3> QED
      BY <1>3, <2>2, <3>1 DEF Chain, Pending, Running, Calls
  <2> QED
    BY <2>1, <2>2
<1>9. Fifo'
  BY <1>3, <1>4, <1>5 DEF Fifo, Pending, Ended, Running, Calls
<1>10. LastKnown'
  BY <1>1, <1>3, <1>4, <1>5 DEF LastKnown, Pending, Running, Calls
<1>11. OwnTurn'
  <2> SUFFICES ASSUME NEW e \in Calls, call'[e].at \in Running
               PROVE  /\ Turn(e)' /\ call'[e].got = file'
                      /\ call'[e].at = "written"
                         => temp' = call'[e].op[call'[e].got]
    BY DEF OwnTurn
  <2>1. e # c /\ call'[e] = call[e] /\ after'[e] = after[e]
    BY <1>3, <1>4 DEF Running
  <2>2. Turn(e) /\ call[e].got = file
        /\ (call[e].at = "written" => temp = call[e].op[call[e].got])
    BY <2>1 DEF OwnTurn
  <2>3. after[e] # None => after[e] \in Calls /\ after[e] # c
    BY <1>1, <2>2 DEF Turn, Ended, None, TypeOK, Calls
  <2>4. Turn(e)'
    BY <1>3, <2>1, <2>2, <2>3 DEF Turn, Ended
  <2> QED
    BY <1>1, <2>1, <2>2, <2>4
<1> QED
  BY <1>2, <1>7, <1>8, <1>9, <1>10, <1>11

\* A step of the call in its turn, to another stage or to its end, keeps it,
\* given what it leaves in the file and the temp file.
LEMMA MoveInv ==
  ASSUME IInv, TypeOK', NEW c \in Calls, Pending(c), Turn(c),
         \A d \in Calls : d # c => call'[d] = call[d],
         after' = after, last' = last,
         call'[c].at \in States \ {"new", "asked"},
         call'[c].at \in Running =>
           /\ call'[c].got = file'
           /\ call'[c].at = "written" => temp' = call'[c].op[call'[c].got]
  PROVE  IInv'
<1> USE ConstantsAssumption DEF IInv
<1>1. \A d \in Calls : Pending(d)' => Pending(d)
  BY DEF Pending
<1>2. \A d \in Calls : Ended(d) => Ended(d)'
  BY DEF Ended, Pending, Running
<1>3. \A d \in Calls : (call[d].at = "new")' <=> call[d].at = "new"
  BY DEF Pending, Running
<1>4. InOrder'
  BY <1>3 DEF InOrder
<1>5. Chain'
  BY <1>1 DEF Chain
<1>6. Fifo'
  <2> SUFFICES ASSUME NEW e \in Calls, NEW d \in Calls, d < e, Pending(d)',
                      Ended(e)'
               PROVE  FALSE
    BY DEF Fifo
  <2>1. CASE e = c
    BY <1>1, <2>1, FirstInTurn
  <2>2. CASE e # c
    BY <1>1, <2>2 DEF Fifo, Ended
  <2> QED
    BY <2>1, <2>2
<1>7. LastKnown'
  BY <1>1, <1>3 DEF LastKnown, TypeOK, Calls, None
<1>8. OwnTurn'
  <2> SUFFICES ASSUME NEW e \in Calls, call'[e].at \in Running
               PROVE  /\ Turn(e)' /\ call'[e].got = file'
                      /\ call'[e].at = "written"
                         => temp' = call'[e].op[call'[e].got]
    BY DEF OwnTurn
  <2>1. e = c
    <3> SUFFICES ASSUME e # c PROVE FALSE
      OBVIOUS
    <3>1. Pending(e) /\ Turn(e)
      BY DEF OwnTurn, Pending
    <3> QED
      BY <3>1, OneTurn
  <2>2. Turn(c)'
    <3>1. after[c] # None => after[c] \in Calls
      BY DEF TypeOK, None, Calls
    <3> QED
      BY <1>2, <3>1 DEF Turn
  <2> QED
    BY <2>1, <2>2
<1> QED
  BY <1>4, <1>5, <1>6, <1>7, <1>8

\* The same, for each step of a call.
LEMMA StepsInv ==
  ASSUME IInv, NEW c \in Calls, Steps(c)
  PROVE  IInv'
<1> USE ConstantsAssumption
<1>0. /\ TypeOK /\ call[c] \in [at : States, op : Ops, got : Values,
                                answer : Values]
      /\ call[c].at \in Running => Turn(c) /\ call[c].got = file
      /\ call[c].at = "written" => temp = call[c].op[call[c].got]
      /\ call[c].op \in [Values -> Values]
  BY DEF IInv, TypeOK, OwnTurn, Running
<1>1. CASE Reads(c)
  BY <1>0, <1>1, MoveInv DEF Reads, TypeOK, Pending, States, Running
<1>2. CASE Answers(c)
  BY <1>0, <1>2, MoveInv DEF Answers, TypeOK, Pending, States, Running
<1>3. CASE Writes(c)
  BY <1>0, <1>3, MoveInv DEF Writes, TypeOK, Pending, States, Running
<1>4. CASE Written(c)
  BY <1>0, <1>4, MoveInv DEF Written, TypeOK, Pending, States, Running
<1>5. CASE Renames(c)
  <2>1. temp \in Values
    BY <1>0, <1>5 DEF Renames
  <2>2. TypeOK'
    BY <1>0, <1>5, <2>1 DEF Renames, TypeOK, States
  <2> QED
    BY <1>0, <1>5, <2>2, MoveInv DEF Renames, TypeOK, Pending, States, Running
<1>6. CASE Fails(c)
  BY <1>0, <1>6, MoveInv DEF Fails, TypeOK, Pending, States, Running
<1> QED
  BY <1>1, <1>2, <1>3, <1>4, <1>5, <1>6 DEF Steps

\* A stopping daemon leaves nobody waiting; neither does an ended last call.
LEMMA CrashInv == IInv /\ Crash => IInv'
<1> SUFFICES ASSUME IInv, Crash PROVE IInv'
  OBVIOUS
<1> USE ConstantsAssumption DEF IInv
<1>1. /\ call' = [c \in Calls |-> IF Pending(c)
                    THEN [call[c] EXCEPT !.at = "lost"] ELSE call[c]]
      /\ last' = None /\ UNCHANGED <<file, temp, after>>
  BY DEF Crash
<1>2. TypeOK'
  BY <1>1 DEF TypeOK, States, None
<1>3. \A c \in Calls : /\ ~Pending(c)' /\ call'[c].at \notin Running
                       /\ (call'[c].at = "new" <=> call[c].at = "new")
  BY <1>1 DEF TypeOK, Pending, Running
<1> QED
  BY <1>1, <1>2, <1>3 DEF InOrder, Chain, Fifo, LastKnown, OwnTurn

\* Forgetting the last write, once it has ended, leaves every turn as it was.
LEMMA ForgetInv == IInv /\ Forget => IInv'
<1> SUFFICES ASSUME IInv, Forget PROVE IInv'
  OBVIOUS
<1> USE ConstantsAssumption DEF IInv
<1>1. /\ last # None /\ Ended(last) /\ last' = None
      /\ UNCHANGED <<file, temp, call, after>>
  BY DEF Forget
<1>2. last \in Calls
  BY <1>1 DEF TypeOK, Calls, None
<1>3. \A d \in Calls : ~Pending(d)
  <2> SUFFICES ASSUME NEW d \in Calls, Pending(d) PROVE FALSE
    OBVIOUS
  <2>1. d < last \/ d = last
    BY <1>2 DEF LastKnown, Calls
  <2> QED
    BY <1>1, <1>2, <2>1 DEF Fifo, Pending, Ended, Running
<1>4. TypeOK' /\ InOrder' /\ Chain' /\ Fifo' /\ OwnTurn'
  BY <1>1 DEF TypeOK, InOrder, Chain, Fifo, OwnTurn, Pending, Ended, Turn,
              None, Running
<1>5. LastKnown'
  BY <1>1, <1>3 DEF LastKnown, Pending
<1> QED
  BY <1>4, <1>5

\* Every step keeps the invariant.
LEMMA NextInv == IInv /\ [Next]_vars => IInv'
<1> SUFFICES ASSUME IInv, [Next]_vars PROVE IInv'
  OBVIOUS
<1>1. CASE UNCHANGED vars
  BY <1>1 DEF vars, IInv, TypeOK, InOrder, Chain, Fifo, LastKnown, OwnTurn,
              Pending, Ended, Turn
<1>2. CASE Next
  BY <1>2, AskInv, StepsInv, CrashInv, ForgetInv DEF Next
<1> QED
  BY <1>1, <1>2

\* While calls overlap, at most one is between its read and its rename, and
\* the file is still as that one read it (OwnTurn, with its strengthening).
THEOREM InTurn == Spec => []IInv
  BY InitInv, NextInv, PTL DEF Spec

-----------------------------------------------------------------------------

\* What AtomicFile sees of a call.
Seen(c) == [at |-> Stage(call[c].at), op |-> call[c].op,
            answer |-> call[c].answer]

\* A step of a call is the one step of AtomicFile, its failure, or none.
LEMMA StepsRefine ==
  ASSUME IInv, NEW c \in Calls, Steps(c)
  PROVE  [Promise!Next]_<<file, [d \in Calls |-> Seen(d)]>>
<1> USE ConstantsAssumption
<1> DEFINE seen == [d \in Calls |-> Seen(d)]
<1>0. /\ TypeOK /\ call[c] \in [at : States, op : Ops, got : Values,
                                answer : Values]
      /\ call[c].at \in Running => Turn(c) /\ call[c].got = file
      /\ call[c].at = "written" => temp = call[c].op[call[c].got]
      /\ call \in [Calls -> [at : States, op : Ops, got : Values,
                             answer : Values]]
  BY DEF IInv, TypeOK, OwnTurn, Running
<1>1. ASSUME Reads(c) \/ Writes(c) \/ Written(c)
      PROVE  UNCHANGED <<file, seen>>
  <2>1. /\ file' = file /\ \A d \in Calls : d # c => call'[d] = call[d]
        /\ call'[c].op = call[c].op /\ call'[c].answer = call[c].answer
        /\ Stage(call'[c].at) = Stage(call[c].at)
    BY <1>0, <1>1 DEF Reads, Writes, Written, Stage, Running
  <2>2. \A d \in Calls : Seen(d)' = Seen(d)
    BY <2>1 DEF Seen
  <2> QED
    BY <2>1, <2>2
<1>2. ASSUME Answers(c) \/ Renames(c) PROVE Promise!Take(c)
  <2>1. /\ Stage(call[c].at) = "asked" /\ Stage(call'[c].at) = "done"
        /\ file' = call[c].op[file] /\ call'[c].answer = file'
        /\ call'[c].op = call[c].op
        /\ \A d \in Calls : d # c => call'[d] = call[d]
    BY <1>0, <1>2 DEF Answers, Renames, Stage, Running
  <2>2. seen' = [seen EXCEPT ![c].at = "done", ![c].answer = file']
    BY <2>1 DEF Seen
  <2> QED
    BY <2>1, <2>2 DEF Promise!Take, Promise!Pending, Seen
<1>3. ASSUME Fails(c) PROVE Promise!Fail(c)
  <2>1. /\ Stage(call[c].at) = "asked" /\ Stage(call'[c].at) = "failed"
        /\ file' = file /\ call'[c].answer = call[c].answer
        /\ call'[c].op = call[c].op
        /\ \A d \in Calls : d # c => call'[d] = call[d]
    BY <1>0, <1>3 DEF Fails, Stage, Running, Pending
  <2>2. seen' = [seen EXCEPT ![c].at = "failed"]
    BY <2>1 DEF Seen
  <2> QED
    BY <2>1, <2>2 DEF Promise!Fail, Promise!Pending, Seen
<1> QED
  BY <1>1, <1>2, <1>3 DEF Steps, Promise!Next, Promise!Calls, Calls, Seen

\* So is every other step.
LEMMA NextRefines ==
  IInv /\ [Next]_vars => [Promise!Next]_<<file, [d \in Calls |-> Seen(d)]>>
<1> SUFFICES ASSUME IInv, [Next]_vars
             PROVE  [Promise!Next]_<<file, [d \in Calls |-> Seen(d)]>>
  OBVIOUS
<1> USE ConstantsAssumption
<1> DEFINE seen == [d \in Calls |-> Seen(d)]
<1>0. call \in [Calls -> [at : States, op : Ops, got : Values,
                          answer : Values]]
  BY DEF IInv, TypeOK
<1>1. ASSUME NEW c \in Calls, Ask(c) PROVE Promise!Ask(c)
  <2>1. /\ call[c].at = "new" /\ Stage(call[c].at) = "new"
        /\ Stage(call'[c].at) = "asked" /\ file' = file
        /\ call'[c].op = call[c].op /\ call'[c].answer = call[c].answer
        /\ \A d \in Calls : d # c => call'[d] = call[d]
        /\ \A d \in 1..(c - 1) : d \in Calls /\ call[d].at # "new"
    BY <1>0, <1>1 DEF Ask, Stage, Running, Calls
  <2>2. seen' = [seen EXCEPT ![c].at = "asked"]
    BY <2>1 DEF Seen
  <2>3. \A d \in 1..(c - 1) : seen[d].at # "new"
    BY <2>1 DEF Seen, Stage
  <2> QED
    BY <2>1, <2>2, <2>3 DEF Promise!Ask, Seen
<1>2. ASSUME Crash PROVE Promise!Crash
  <2>1. \A c \in Calls : Seen(c)' =
          IF Stage(call[c].at) = "asked" THEN [Seen(c) EXCEPT !.at = "lost"]
          ELSE Seen(c)
    BY <1>0, <1>2 DEF Crash, Seen, Stage, Pending, Running
  <2>2. seen' = [c \in Calls |-> IF seen[c].at = "asked"
                                 THEN [seen[c] EXCEPT !.at = "lost"]
                                 ELSE seen[c]]
    BY <2>1 DEF Seen
  <2> QED
    BY <1>2, <2>2 DEF Crash, Promise!Crash, Promise!Pending, Promise!Calls,
                      Calls, Seen
<1>3. ASSUME Forget \/ UNCHANGED vars PROVE UNCHANGED <<file, seen>>
  BY <1>3 DEF Forget, vars, Seen
<1> QED
  BY <1>1, <1>2, <1>3, StepsRefine DEF Next, Promise!Next, Promise!Calls, Calls

\* Every behaviour of the turns is one of the promise: each call that ends
\* well was one step on the file, on what the others had made of it, and no
\* other changed it, however they overlapped, failed or were cut off.
THEOREM TurnsAreAtomic == Spec => ImplementsAtomicFile
<1>1. Init => Promise!Init
  BY DEF Init, Promise!Init, Promise!Calls, Calls, Stage, Running
<1>2. IInv /\ [Next]_vars => [Promise!Next]_Promise!vars
  BY NextRefines DEF Seen, Promise!vars
<1> QED
  BY <1>1, <1>2, InTurn, PTL DEF Spec, ImplementsAtomicFile, Promise!Spec
=============================================================================
