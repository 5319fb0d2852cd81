---------------------------- MODULE ClientProofs ----------------------------
(***************************************************************************)
(* What the two halves of a client keep.  StatusView, for every number of  *)
(* passes and polls that overlap, every bound on the changes to the        *)
(* database and every budget of faults: its types, that one pass of        *)
(* drainRefresh is under way at a time, and that no change to the database *)
(* is missed.  ImportFlow, for every set of phrases and keys: that what is *)
(* registered can be derived, and that a waiver is offered exactly where   *)
(* it helps.                                                               *)
(*                                                                         *)
(* None is inductive.  OnePass rests on refreshInFlight: DrainInv says     *)
(* that it tells of the pass of drainRefresh that is under way, so that    *)
(* the next one begins after it and only that pass clears it.  The         *)
(* versions of the database stay in their range because each wipe is paid  *)
(* for when the rescan is asked for (VersionInv).  NoChangeMissed needs    *)
(* that no reading is ahead of the database and that a timer finds no pass *)
(* of drainRefresh under way (SeenInv), and that until something fails or  *)
(* is asked for no other passes run, so that none ends after a newer one   *)
(* (CalmInv).  Of an import, the form has to offer what the answer to the  *)
(* phrase it names allows (OfferInv); the rest is about the checks alone.  *)
(***************************************************************************)
EXTENDS StatusView, ImportFlow, FiniteSetTheorems, TLAPS

-----------------------------------------------------------------------------
(* The inductive invariant.                                                *)

\* The wipes that are still to come.
One(b) == IF b THEN 1 ELSE 0
ToWipe ==
  One(state.rescan = "wiping") + One(request["rescan"].at = "action") + left
VersionInv ==
  ToWipe <= Budget /\ version + ToWipe <= MaxVersion + Budget

\* refreshInFlight tells of the one pass of drainRefresh.
Draining(p) == pass[p] # Off /\ pass[p].kind = "drain"
DrainInv ==
  /\ \A p \in Passes : Draining(p) => refresh.inFlight
  /\ \A p, q \in Passes : Draining(p) /\ Draining(q) => p = q

\* A pass that writes has read.
ReadInv == \A p \in Passes : pass[p].at = "balance" => pass[p].read # Null

\* No reading is ahead of the database, a timer waits for a pass that has yet
\* to begin, and what nobody has read has a pass on its way.
ReadingsInv ==
  newest <= version /\ \A p \in Passes : pass[p].read <= version
SeenInv ==
  /\ ReadingsInv /\ ~(refresh.timer /\ refresh.inFlight)
  /\ Open => \/ newest = version \/ refresh.timer
             \/ refresh.inFlight /\ refresh.pending
             \/ \E p \in Passes : Sees(p)

\* Before any fault and any request, the only pass is drainRefresh's, and it
\* has read no less than what is shown.
CalmInv ==
  left = Budget =>
    /\ state.rescan = "no" /\ (Open => balance = newest)
    /\ \A p \in Passes :
         /\ pass[p] # Off => pass[p].kind = "drain"
         /\ pass[p].at = "balance" => newest <= pass[p].read

IInv == TypeOK /\ VersionInv /\ DrainInv /\ ReadInv /\ SeenInv /\ CalmInv

\* TypeOK by its parts.
States == [status : {"synced", "syncing", "connecting", "gone"},
           rescan : {"no", "wiping", "scanning", "finishing"}]
Refreshes == [pending : BOOLEAN, timer : BOOLEAN, inFlight : BOOLEAN]
PassSet == [at : {"off", "outputs", "balance"},
            kind : {"drain", "scan", "sync"}, read : Versions \cup {Null}]
Clients == [kind : {"gui", "tui"}, view : Views]
Requests == [at : {"idle", "action", "asked", "answered"}, answer : Views]

SnapshotTypes ==
  /\ version \in Versions /\ balance \in Versions /\ newest \in Versions
  /\ state \in States /\ pass \in [Passes -> PassSet]
RefreshTypes ==
  /\ refresh \in Refreshes
  /\ refresh.pending /\ Open => refresh.timer \/ refresh.inFlight
ClientTypes ==
  client \in Clients /\ request \in [Ticks \cup Flows -> Requests]

\* They make up TypeOK,
LEMMA TypeParts ==
  TypeOK <=> SnapshotTypes /\ RefreshTypes /\ ClientTypes /\ left \in 0..Budget
BY DEF TypeOK, SnapshotTypes, RefreshTypes, ClientTypes, States, Refreshes,
   PassSet, Clients, Requests

\* before a step and after it.
LEMMA TypePartsNext ==
  TypeOK' <=>
    SnapshotTypes' /\ RefreshTypes' /\ ClientTypes' /\ left' \in 0..Budget
BY DEF TypeOK, SnapshotTypes, RefreshTypes, ClientTypes, States, Refreshes,
   PassSet, Clients, Requests, Open

-----------------------------------------------------------------------------
(* Versions.                                                               *)

\* A step costs an event or none.
LEMMA LeftStep ==
  ASSUME left \in 0..Budget, left' = left \/ Spend
  PROVE  left' \in 0..Budget /\ left' <= left
BY ConstantsAssumption DEF Spend

\* Every wipe has been asked for, and every change is within its bound.
LEMMA VersionStep ==
  ASSUME IInv, [Next]_vars
  PROVE  VersionInv' /\ version' \in Versions /\ left' \in 0..Budget
<1>0. /\ version \in Nat /\ left \in Nat /\ left <= Budget
      /\ ToWipe <= Budget /\ version + ToWipe <= MaxVersion + Budget
      /\ state \in States /\ request \in [Ticks \cup Flows -> Requests]
      /\ MaxVersion \in Nat /\ Budget \in Nat
      /\ "rescan" \in Ticks \cup Flows /\ "rescan" \notin Ticks
  BY TypeParts, ConstantsAssumption
     DEF IInv, VersionInv, SnapshotTypes, ClientTypes, Versions, Flows
<1>1. ASSUME UNCHANGED version,
             state'.rescan = "wiping" => state.rescan = "wiping",
             UNCHANGED left \/ Spend,
             request'["rescan"].at = "action" =>
               request["rescan"].at = "action"
      PROVE  VersionInv' /\ version' \in Versions /\ left' \in 0..Budget
  BY <1>0, <1>1 DEF VersionInv, ToWipe, One, Versions, Spend
<1>2. CASE Drain
  BY <1>1, <1>2 DEF Drain
<1>3. ASSUME NEW p \in Passes, PassSteps(p)
      PROVE  VersionInv' /\ version' \in Versions /\ left' \in 0..Budget
  <2>1. state'.rescan = "wiping" => state.rescan = "wiping"
    BY <1>0, <1>3 DEF PassSteps, ReadsOutputs, WritesSnapshot, PassEnds, States
  <2>2. UNCHANGED <<version, request>> /\ (UNCHANGED left \/ Spend)
    BY <1>3 DEF PassSteps, ReadsOutputs, WritesSnapshot
  <2> QED
    BY <1>1, <2>1, <2>2
<1>4. CASE Changes
  BY <1>0, <1>4 DEF Changes, VersionInv, ToWipe, One, Versions
<1>5. CASE Wipes
  BY <1>0, <1>5 DEF Wipes, VersionInv, ToWipe, One, Versions
<1>6. CASE ScanEnds \/ SyncFinished \/ Drops \/ Returns
  BY <1>0, <1>1, <1>6 DEF ScanEnds, SyncFinished, Drops, Returns, States
<1>7. ASSUME NEW q \in Ticks, Tick(q)
      PROVE  VersionInv' /\ version' \in Versions /\ left' \in 0..Budget
  <2>1. request'["rescan"] = request["rescan"]
    BY <1>0, <1>7 DEF Tick, Polls
  <2> QED
    BY <1>1, <1>7, <2>1 DEF Tick, Polls, Keep, wallet
<1>8. ASSUME NEW q \in Ticks \cup Flows, Arrives(q)
      PROVE  VersionInv' /\ version' \in Versions /\ left' \in 0..Budget
  <2>1. request'["rescan"] \in {request["rescan"], NoRequest}
    BY <1>0, <1>8 DEF Arrives
  <2> QED
    BY <1>1, <1>8, <2>1 DEF Arrives, wallet, NoRequest
<1>9. ASSUME NEW f \in Flows, LastPoll(f)
      PROVE  VersionInv' /\ version' \in Versions /\ left' \in 0..Budget
  <2>1. request'["rescan"].at \in {request["rescan"].at, "answered"}
    BY <1>0, <1>9 DEF LastPoll, Polls
  <2> QED
    BY <1>1, <1>9, <2>1 DEF LastPoll, Polls, Keep, wallet
<1>10. ASSUME NEW f \in Flows, ActionFails(f)
       PROVE  VersionInv' /\ version' \in Versions /\ left' \in 0..Budget
  <2>1. request'["rescan"].at \in {request["rescan"].at, "asked", "idle"}
    BY <1>0, <1>10 DEF ActionFails, Done, Set, Requests
  <2> QED
    BY <1>1, <1>10, <2>1 DEF ActionFails, wallet
<1>11. ASSUME NEW f \in Flows, Asks(f)
       PROVE  VersionInv' /\ version' \in Versions /\ left' \in 0..Budget
  <2>1. /\ Spend /\ UNCHANGED <<version, state>>
        /\ ~Busy(f) /\ request' = [request EXCEPT ![f].at = "action"]
    BY <1>11 DEF Asks, Keep, wallet, Set
  <2>2. CASE f = "rescan"
    <3>1. request["rescan"].at = "idle" /\ request'["rescan"].at = "action"
      BY <1>0, <2>1, <2>2 DEF Busy, Requests
    <3> QED
      BY <1>0, <2>1, <3>1 DEF VersionInv, ToWipe, One, Versions, Spend
  <2>3. CASE f # "rescan"
    <3>1. request'["rescan"] = request["rescan"]
      BY <1>0, <2>1, <2>3
    <3> QED
      BY <1>1, <2>1, <3>1
  <2> QED
    BY <2>2, <2>3
<1>12. CASE Rescans
  <2>1. /\ request["rescan"].at = "action"
        /\ request'["rescan"].at \in {"asked", "idle"}
    BY <1>0, <1>12 DEF Rescans, Done, Set, Requests
  <2>2. UNCHANGED <<version, left>>
    BY <1>12 DEF Rescans
  <2> QED
    BY <1>0, <2>1, <2>2 DEF VersionInv, ToWipe, One, Versions
<1>13. CASE Removes
  <2>1. request'["rescan"] = request["rescan"]
    BY <1>0, <1>13 DEF Removes, Done, Set
  <2> QED
    BY <1>0, <1>1, <1>13, <2>1 DEF Removes, States
<1>14. CASE UNCHANGED vars
  BY <1>1, <1>14 DEF vars, wallet
<1> QED
  BY <1>2, <1>3, <1>4, <1>5, <1>6, <1>7, <1>8, <1>9, <1>10, <1>11, <1>12,
     <1>13, <1>14 DEF Next, Flow

-----------------------------------------------------------------------------
(* The snapshot and its passes.                                            *)

\* A refresh that is asked for has a timer, or a pass that sees to it.
LEMMA RequestedTypes ==
  ASSUME NEW r \in Refreshes
  PROVE  /\ Requested(r) \in Refreshes /\ Requested(r).inFlight = r.inFlight
         /\ Open => Requested(r).timer \/ Requested(r).inFlight
BY DEF Requested, Refreshes

\* What begins is a pass of its kind, in the place of none.
LEMMA BeginPass ==
  ASSUME pass \in [Passes -> PassSet], NEW kind \in {"drain", "scan", "sync"},
         Begin(kind)
  PROVE  /\ pass' \in [Passes -> PassSet]
         /\ \E p \in Passes :
              /\ pass[p] = Off /\ pass'[p].kind = kind
              /\ pass'[p].at = "outputs"
              /\ \A q \in Passes : q # p => pass'[q] = pass[q]
BY DEF Begin, PassSet, Passes

\* A pass that ends is off, hands over what is pending, and clears
\* refreshInFlight if it is drainRefresh's own.
LEMMA PassEndsStep ==
  ASSUME SnapshotTypes, RefreshTypes, NEW p \in Passes, PassEnds(p)
  PROVE  /\ state' \in States /\ state'.status = state.status
         /\ pass' = [pass EXCEPT ![p] = Off] /\ pass' \in [Passes -> PassSet]
         /\ refresh' \in Refreshes
         /\ refresh'.pending /\ Open => refresh'.timer \/ refresh'.inFlight
         /\ refresh'.inFlight <=> refresh.inFlight /\ pass[p].kind # "drain"
<1>1. state' \in States /\ state'.status = state.status
  BY DEF PassEnds, SnapshotTypes, States
<1>2. pass' = [pass EXCEPT ![p] = Off] /\ pass' \in [Passes -> PassSet]
  BY DEF PassEnds, SnapshotTypes, PassSet, Off
<1> DEFINE done == [refresh EXCEPT !.inFlight = FALSE]
<1>0. refresh' = IF pass[p].kind # "drain" THEN refresh
                 ELSE IF refresh.pending /\ Open THEN Requested(done)
                 ELSE done
  BY Zenon DEF PassEnds
<1>3. done \in Refreshes /\ done.pending = refresh.pending /\ ~done.inFlight
  BY DEF RefreshTypes, Refreshes
<1>4. CASE pass[p].kind # "drain"
  <2>1. refresh' = refresh
    BY <1>0, <1>4
  <2> QED
    BY <1>1, <1>2, <1>4, <2>1 DEF RefreshTypes
<1>5. CASE pass[p].kind = "drain" /\ refresh.pending /\ Open
  <2>1. refresh' = Requested(done)
    BY <1>0, <1>5
  <2> HIDE DEF done
  <2> QED
    BY <1>1, <1>2, <1>3, <1>5, <2>1, RequestedTypes
<1>6. CASE pass[p].kind = "drain" /\ ~(refresh.pending /\ Open)
  <2>1. refresh' = done
    BY <1>0, <1>6
  <2> HIDE DEF done
  <2> QED
    BY <1>1, <1>2, <1>3, <1>6, <2>1
<1> QED
  BY <1>4, <1>5, <1>6

\* Types of the snapshot, and whose pass refreshInFlight tells of.
SnapshotInv == SnapshotTypes /\ RefreshTypes /\ DrainInv /\ ReadInv

\* Every step keeps both.
LEMMA SnapshotStep ==
  ASSUME IInv, [Next]_vars
  PROVE  SnapshotInv'
<1>0. /\ SnapshotTypes /\ RefreshTypes /\ DrainInv /\ ReadInv
      /\ version' \in Versions /\ refresh \in Refreshes
      /\ pass \in [Passes -> PassSet] /\ state \in States
  BY TypeParts, VersionStep DEF IInv, RefreshTypes, SnapshotTypes
<1>1. CASE UNCHANGED wallet
  BY <1>0, <1>1 DEF wallet, SnapshotInv, SnapshotTypes, RefreshTypes, DrainInv,
     ReadInv, Draining, Open
<1>2. CASE Drain
  <2>1. CASE refresh.inFlight
    BY <1>0, <1>2, <2>1 DEF Drain, SnapshotInv, SnapshotTypes, RefreshTypes,
       DrainInv, ReadInv, Draining, Open, Refreshes
  <2>2. CASE ~refresh.inFlight
    <3>1. /\ Begin("drain")
          /\ refresh' = [pending |-> FALSE, timer |-> FALSE, inFlight |-> TRUE]
          /\ UNCHANGED <<version, state, balance, newest>>
      BY <1>2, <2>2 DEF Drain
    <3>2. \A p \in Passes : ~Draining(p)
      BY <1>0, <2>2 DEF DrainInv
    <3>3. DrainInv'
      <4>1. PICK p \in Passes : \A q \in Passes : q # p => pass'[q] = pass[q]
        BY <1>0, <3>1, BeginPass
      <4>2. \A q \in Passes : Draining(q)' => q = p
        BY <3>2, <4>1 DEF Draining
      <4> QED
        BY <3>1, <4>2 DEF DrainInv
    <3>4. ReadInv'
      BY <1>0, <3>1, BeginPass DEF ReadInv
    <3> QED
      BY <1>0, <3>1, <3>3, <3>4, BeginPass DEF SnapshotInv, SnapshotTypes,
         RefreshTypes, Refreshes
  <2> QED
    BY <2>1, <2>2
<1>3. ASSUME NEW p \in Passes, ReadsOutputs(p) PROVE SnapshotInv'
  <2>1. pass' \in [Passes -> PassSet]
    BY <1>0, <1>3 DEF ReadsOutputs, PassSet, SnapshotTypes
  <2>2. \A q \in Passes : Draining(q)' => Draining(q)
    BY <1>0, <1>3 DEF ReadsOutputs, Draining, PassSet, Off
  <2>3. ReadInv'
    BY <1>0, <1>3 DEF ReadsOutputs, ReadInv, PassSet, SnapshotTypes, Versions,
       Null
  <2> QED
    BY <1>0, <1>3, <2>1, <2>2, <2>3
       DEF ReadsOutputs, SnapshotInv, SnapshotTypes,
       RefreshTypes, DrainInv, Open
<1>4. ASSUME NEW p \in Passes, WritesSnapshot(p) PROVE SnapshotInv'
  <2>1. PassEnds(p) /\ pass[p].at = "balance" /\ version' = version
    BY <1>4 DEF WritesSnapshot
  <2>2. /\ state' \in States /\ state'.status = state.status
        /\ pass' = [pass EXCEPT ![p] = Off] /\ pass' \in [Passes -> PassSet]
        /\ refresh' \in Refreshes
        /\ refresh'.pending /\ Open => refresh'.timer \/ refresh'.inFlight
        /\ refresh'.inFlight <=> refresh.inFlight /\ pass[p].kind # "drain"
    BY <1>0, <2>1, PassEndsStep
  <2>3. RefreshTypes'
    BY <2>2 DEF RefreshTypes, Open
  <2>4. pass[p] # Off
    BY <2>1 DEF Off
  <2>5. \A q \in Passes : Draining(q)' => Draining(q) /\ q # p
    BY <1>0, <2>2 DEF Draining
  <2>6. DrainInv'
    BY <1>0, <2>2, <2>4, <2>5 DEF DrainInv, Draining
  <2>7. newest' \in Versions /\ balance' \in Versions
    <3>1. pass[p].read \in Versions
      BY <1>0, <2>1 DEF ReadInv, PassSet
    <3> QED
      BY <1>0, <1>4, <3>1 DEF WritesSnapshot, SnapshotTypes
  <2>8. ReadInv'
    BY <1>0, <2>2 DEF ReadInv, Off
  <2> QED
    BY <1>0, <2>1, <2>2, <2>3, <2>6, <2>7, <2>8 DEF SnapshotInv, SnapshotTypes
<1>5. CASE Changes
  <2>1. /\ refresh' = Requested(refresh)
        /\ UNCHANGED <<state, balance, pass, newest>>
    BY <1>5 DEF Changes
  <2>2. /\ refresh' \in Refreshes /\ refresh'.inFlight = refresh.inFlight
        /\ Open => refresh'.timer \/ refresh'.inFlight
    BY <1>0, <2>1, RequestedTypes
  <2> QED
    BY <1>0, <2>1, <2>2 DEF SnapshotInv, SnapshotTypes, RefreshTypes, DrainInv,
       ReadInv, Draining, Open
<1>6. CASE Wipes
  BY <1>0, <1>6 DEF Wipes, SnapshotInv, SnapshotTypes, RefreshTypes, DrainInv,
     ReadInv, Draining, Open, States
<1>7. CASE ScanEnds \/ SyncFinished
  <2>1. PICK kind \in {"scan", "sync"} : Begin(kind)
    BY <1>7 DEF ScanEnds, SyncFinished
  <2>2. /\ UNCHANGED <<version, balance, refresh, newest>>
        /\ state' \in States /\ state'.status # "gone" /\ Open
    BY <1>0, <1>7 DEF ScanEnds, SyncFinished, States, Open
  <2>3. PICK p \in Passes :
          /\ pass[p] = Off /\ pass'[p].kind = kind
          /\ pass'[p].at = "outputs"
          /\ \A q \in Passes : q # p => pass'[q] = pass[q]
    BY <1>0, <2>1, BeginPass
  <2>4. \A q \in Passes : Draining(q)' => Draining(q)
    BY <2>1, <2>3 DEF Draining
  <2>5. pass' \in [Passes -> PassSet]
    BY <1>0, <2>1, BeginPass
  <2>6. ReadInv'
    BY <1>0, <2>3 DEF ReadInv
  <2> QED
    BY <1>0, <2>2, <2>4, <2>5, <2>6
       DEF SnapshotInv, SnapshotTypes, RefreshTypes,
       DrainInv, Open
<1>8. CASE Drops \/ Returns
  BY <1>0, <1>8 DEF Drops, Returns, SnapshotInv, SnapshotTypes, RefreshTypes,
     DrainInv, ReadInv, Draining, Open, States
<1>9. CASE Rescans
  BY <1>0, <1>9 DEF Rescans, SnapshotInv, SnapshotTypes, RefreshTypes,
     DrainInv, ReadInv, Draining, Open, States
<1>10. CASE Removes
  BY <1>0, <1>10 DEF Removes, SnapshotInv, SnapshotTypes, RefreshTypes,
     DrainInv, ReadInv, Draining, Open, States, Refreshes
<1>11. CASE \/ \E q \in Ticks : Tick(q)
            \/ \E q \in Ticks \cup Flows : Arrives(q)
            \/ \E f \in Flows : Asks(f) \/ LastPoll(f) \/ ActionFails(f)
            \/ UNCHANGED vars
  BY <1>1, <1>11 DEF Tick, Arrives, Asks, LastPoll, ActionFails, Keep, vars,
     wallet
<1> QED
  BY <1>2, <1>3, <1>4, <1>5, <1>6, <1>7, <1>8, <1>9, <1>10, <1>11
     DEF Next, PassSteps, Flow

-----------------------------------------------------------------------------
(* No change is missed.                                                    *)

\* A step costs an event or none.
LEMMA StepSpends ==
  ASSUME [Next]_vars
  PROVE  left' = left \/ Spend
<1>1. CASE Drain \/ Changes \/ Wipes \/ ScanEnds \/ SyncFinished \/ Drops
           \/ Returns \/ UNCHANGED vars
  BY <1>1 DEF Drain, Changes, Wipes, ScanEnds, SyncFinished, Drops, Returns,
     vars
<1>2. ASSUME NEW p \in Passes, PassSteps(p)
      PROVE  left' = left \/ Spend
  BY <1>2 DEF PassSteps, ReadsOutputs, WritesSnapshot
<1>3. CASE \/ \E q \in Ticks : Tick(q)
           \/ \E q \in Ticks \cup Flows : Arrives(q)
           \/ \E f \in Flows : Asks(f) \/ LastPoll(f) \/ Flow(f)
                               \/ ActionFails(f)
  BY <1>3 DEF Tick, Arrives, Asks, LastPoll, Flow, Rescans, Removes,
     ActionFails, Polls
<1> QED
  BY <1>1, <1>2, <1>3 DEF Next

\* What a change asks for is a timer, or a second round of the pass under way.
LEMMA RequestedSeen ==
  ASSUME NEW r \in Refreshes, Open, ~(r.timer /\ r.inFlight)
  PROVE  /\ \/ Requested(r).timer
            \/ Requested(r).inFlight /\ Requested(r).pending
         /\ ~(Requested(r).timer /\ Requested(r).inFlight)
BY DEF Requested, Refreshes

\* What a pass leaves pending when it ends has a timer from then on.
LEMMA PassEndsSeen ==
  ASSUME refresh \in Refreshes, ~(refresh.timer /\ refresh.inFlight),
         NEW p \in Passes, PassEnds(p)
  PROVE  /\ ~(refresh'.timer /\ refresh'.inFlight)
         /\ Open /\ (\/ refresh.timer
                     \/ refresh.inFlight /\ refresh.pending)
              => \/ refresh'.timer
                 \/ refresh'.inFlight /\ refresh'.pending
<1> DEFINE done == [refresh EXCEPT !.inFlight = FALSE]
<1>1. refresh' = IF pass[p].kind # "drain" THEN refresh
                 ELSE IF refresh.pending /\ Open THEN Requested(done)
                 ELSE done
  BY Zenon DEF PassEnds
<1>2. /\ done \in Refreshes /\ ~done.inFlight
      /\ done.pending = refresh.pending /\ done.timer = refresh.timer
  BY DEF Refreshes
<1>3. CASE refresh' = refresh
  BY <1>3
<1> HIDE DEF done
<1>4. CASE refresh' = Requested(done) /\ Open
  BY <1>2, <1>4, RequestedSeen
<1>5. CASE refresh' = done /\ ~(refresh.pending /\ Open)
  BY <1>2, <1>5
<1> QED
  BY <1>1, <1>3, <1>4, <1>5

\* Every step keeps a pass on its way for what nobody has read.
LEMMA SeenStep ==
  ASSUME IInv, [Next]_vars
  PROVE  SeenInv'
<1>0. /\ SeenInv /\ SnapshotTypes /\ RefreshTypes /\ refresh \in Refreshes
      /\ version \in Nat /\ newest \in Nat /\ newest <= version
      /\ pass \in [Passes -> PassSet] /\ state \in States
  BY TypeParts, ConstantsAssumption
     DEF IInv, RefreshTypes, SnapshotTypes, Versions, SeenInv, ReadingsInv
<1> USE DEF SeenInv, ReadingsInv, Sees
<1>1. CASE UNCHANGED wallet
  BY <1>0, <1>1 DEF wallet, Open
<1>2. CASE Drain
  <2>1. /\ Begin("drain") /\ UNCHANGED <<version, newest>>
        /\ refresh' = [pending |-> FALSE, timer |-> FALSE, inFlight |-> TRUE]
    BY <1>0, <1>2 DEF Drain
  <2>2. PICK p \in Passes :
          /\ pass' = [pass EXCEPT ![p] = [at |-> "outputs", kind |-> "drain",
                                          read |-> Null]]
    BY <2>1 DEF Begin
  <2>3. Sees(p)' /\ ReadingsInv'
    BY <1>0, <2>1, <2>2 DEF Null
  <2> QED
    BY <2>1, <2>3
<1>3. ASSUME NEW p \in Passes, ReadsOutputs(p) PROVE SeenInv'
  <2>1. pass' = [pass EXCEPT ![p].at = "balance", ![p].read = version]
    BY <1>3 DEF ReadsOutputs
  <2>2. Sees(p)' /\ ReadingsInv'
    BY <1>0, <1>3, <2>1 DEF ReadsOutputs, PassSet
  <2> QED
    BY <1>0, <1>3, <2>2 DEF ReadsOutputs
<1>4. ASSUME NEW p \in Passes, WritesSnapshot(p) PROVE SeenInv'
  <2>1. /\ PassEnds(p) /\ pass[p].at = "balance" /\ version' = version
        /\ newest' = IF Open /\ newest < pass[p].read THEN pass[p].read
                                                      ELSE newest
    BY <1>4 DEF WritesSnapshot
  <2>2. pass' = [pass EXCEPT ![p] = Off] /\ state'.status = state.status
    BY <1>0, <2>1, PassEndsStep
  <2>3. pass[p].read \in Nat /\ pass[p].read <= version
    BY <1>0, <2>1, ConstantsAssumption DEF IInv, ReadInv, PassSet, Versions
  <2>4. ReadingsInv'
    BY <1>0, <2>1, <2>2, <2>3 DEF Off, Null
  <2>5. ~(refresh'.timer /\ refresh'.inFlight)
    BY <1>0, <2>1, PassEndsSeen
  <2>6. ASSUME Open
        PROVE  \/ newest' = version' \/ refresh'.timer
               \/ refresh'.inFlight /\ refresh'.pending
               \/ \E q \in Passes : Sees(q)'
    <3>1. CASE newest = version \/ pass[p].read = version
      BY <1>0, <2>1, <2>3, <2>6, <3>1
    <3>2. CASE refresh.timer \/ (refresh.inFlight /\ refresh.pending)
      BY <1>0, <2>1, <2>6, <3>2, PassEndsSeen
    <3>3. ASSUME NEW q \in Passes, q # p, Sees(q)
          PROVE  Sees(q)'
      BY <1>0, <2>1, <2>2, <3>3
    <3> QED
      BY <1>0, <2>1, <2>6, <3>1, <3>2, <3>3
  <2> QED
    BY <2>2, <2>4, <2>5, <2>6 DEF Open
<1>5. CASE Changes
  <2>1. /\ refresh' = Requested(refresh) /\ version' = version + 1 /\ Open
        /\ UNCHANGED <<state, pass, newest>>
    BY <1>5 DEF Changes
  <2>2. /\ refresh'.timer \/ (refresh'.inFlight /\ refresh'.pending)
        /\ ~(refresh'.timer /\ refresh'.inFlight)
    BY <1>0, <2>1, RequestedSeen
  <2>3. ReadingsInv'
    BY <1>0, <2>1, ConstantsAssumption DEF PassSet, Versions, Null
  <2> QED
    BY <2>2, <2>3
<1>6. CASE Wipes
  <2>1. /\ version' = version + 1 /\ newest' = version'
        /\ UNCHANGED <<refresh, pass>>
    BY <1>6 DEF Wipes
  <2>2. ReadingsInv'
    BY <1>0, <2>1, ConstantsAssumption DEF PassSet, Versions, Null
  <2> QED
    BY <1>0, <2>1, <2>2
<1>7. CASE ScanEnds \/ SyncFinished
  <2>1. PICK kind \in {"scan", "sync"} : Begin(kind)
    BY <1>7 DEF ScanEnds, SyncFinished
  <2>2. UNCHANGED <<version, refresh, newest>> /\ Open
    BY <1>7 DEF ScanEnds, SyncFinished
  <2>3. PICK p \in Passes :
          /\ pass' = [pass EXCEPT ![p] = [at |-> "outputs", kind |-> kind,
                                          read |-> Null]]
    BY <2>1 DEF Begin
  <2>4. Sees(p)' /\ ReadingsInv'
    BY <1>0, <2>2, <2>3 DEF Null
  <2> QED
    BY <1>0, <2>2, <2>4
<1>8. CASE Drops \/ Returns \/ Rescans
  BY <1>0, <1>8 DEF Drops, Returns, Rescans, Open, States
<1>9. CASE Removes
  BY <1>0, <1>9 DEF Removes, Open, States, Refreshes
<1>10. CASE \/ \E q \in Ticks : Tick(q)
            \/ \E q \in Ticks \cup Flows : Arrives(q)
            \/ \E f \in Flows : Asks(f) \/ LastPoll(f) \/ ActionFails(f)
            \/ UNCHANGED vars
  BY <1>1, <1>10 DEF Tick, Arrives, Asks, LastPoll, ActionFails, Keep, vars,
     wallet
<1> QED
  BY <1>2, <1>3, <1>4, <1>5, <1>6, <1>7, <1>8, <1>9, <1>10
     DEF Next, PassSteps, Flow

\* As long as nothing fails and nobody asks for anything, the passes end in
\* the order in which they read.
LEMMA CalmStep ==
  ASSUME IInv, [Next]_vars
  PROVE  CalmInv'
<1> SUFFICES ASSUME left' = Budget PROVE CalmInv'
  BY DEF CalmInv
<1>0. /\ left = Budget /\ ~Spend /\ left' = left
      /\ state.rescan = "no" /\ (Open => balance = newest)
      /\ request["rescan"].at # "action"
      /\ \A p \in Passes :
           /\ pass[p] # Off => pass[p].kind = "drain"
           /\ pass[p].at = "balance" => newest <= pass[p].read
  <2>1. left \in 0..Budget /\ Budget \in Nat
    BY TypeParts, ConstantsAssumption DEF IInv
  <2>2. left' = left /\ ~Spend
    BY <2>1, StepSpends DEF Spend
  <2> QED
    BY <2>1, <2>2 DEF IInv, CalmInv, VersionInv, ToWipe, One
<1>1. /\ SnapshotTypes /\ RefreshTypes /\ DrainInv /\ ReadingsInv
      /\ version \in Nat /\ newest \in Nat /\ newest <= version
      /\ pass \in [Passes -> PassSet] /\ state \in States
  BY TypeParts, ConstantsAssumption
     DEF IInv, SnapshotTypes, Versions, SeenInv, ReadingsInv
<1> USE DEF CalmInv
<1>2. CASE UNCHANGED wallet
  BY <1>0, <1>2 DEF wallet, Open
<1>3. CASE Drain
  <2>1. UNCHANGED <<state, balance, newest>>
    BY <1>3 DEF Drain
  <2>2. CASE UNCHANGED pass
    BY <1>0, <2>1, <2>2 DEF Open
  <2>3. CASE Begin("drain")
    <3>1. PICK p \in Passes :
            /\ pass' = [pass EXCEPT ![p] = [at |-> "outputs",
                                            kind |-> "drain", read |-> Null]]
      BY <2>3 DEF Begin
    <3>2. \A q \in Passes :
            \/ pass'[q].kind = "drain" /\ pass'[q].at = "outputs"
            \/ pass'[q] = pass[q]
      BY <1>1, <3>1
    <3> QED
      BY <1>0, <2>1, <3>2 DEF Open
  <2> QED
    BY <1>3, <2>2, <2>3 DEF Drain
<1>4. ASSUME NEW p \in Passes, ReadsOutputs(p) PROVE CalmInv'
  <2>1. /\ pass' = [pass EXCEPT ![p].at = "balance", ![p].read = version]
        /\ pass[p].at = "outputs" /\ UNCHANGED <<state, balance, newest>>
    BY <1>4 DEF ReadsOutputs
  <2>2. pass[p] # Off
    BY <2>1 DEF Off
  <2>3. /\ pass'[p].kind = pass[p].kind /\ pass'[p].read = version
        /\ \A q \in Passes : q # p => pass'[q] = pass[q]
    BY <1>1, <2>1 DEF PassSet
  <2> QED
    BY <1>0, <1>1, <2>1, <2>2, <2>3 DEF Open
<1>5. ASSUME NEW p \in Passes, WritesSnapshot(p) PROVE CalmInv'
  <2>1. /\ PassEnds(p) /\ pass[p].at = "balance"
        /\ newest' = IF Open /\ newest < pass[p].read THEN pass[p].read
                                                      ELSE newest
        /\ balance' = IF Open THEN pass[p].read ELSE balance
    BY <1>0, <1>5 DEF WritesSnapshot
  <2>2. /\ pass' = [pass EXCEPT ![p] = Off] /\ state'.status = state.status
        /\ state'.rescan = "no"
    BY <1>0, <1>1, <2>1, PassEndsStep DEF PassEnds, States
  <2>3. pass[p].read \in Nat /\ newest <= pass[p].read
    BY <1>0, <1>1, <2>1, ConstantsAssumption
       DEF IInv, ReadInv, PassSet, Versions
  <2>4. pass[p] # Off
    BY <2>1 DEF Off
  <2>5. \A q \in Passes : q # p => pass'[q] = Off
    BY <1>0, <1>1, <2>2, <2>4 DEF DrainInv, Draining
  <2>6. pass'[p] = Off
    BY <1>1, <2>2
  <2> QED
    BY <1>1, <2>1, <2>2, <2>3, <2>5, <2>6 DEF Off, Open
<1>6. CASE Changes
  BY <1>0, <1>6 DEF Changes, Open
<1>7. CASE Wipes \/ ScanEnds \/ SyncFinished \/ Drops \/ Rescans
  BY <1>0, <1>7 DEF Wipes, ScanEnds, SyncFinished, Drops, Rescans
<1>8. CASE Returns
  BY <1>0, <1>1, <1>8 DEF Returns, Open, States
<1>9. CASE Removes
  BY <1>0, <1>1, <1>9 DEF Removes, Open, States
<1>10. CASE \/ \E q \in Ticks : Tick(q)
            \/ \E q \in Ticks \cup Flows : Arrives(q)
            \/ \E f \in Flows : Asks(f) \/ LastPoll(f) \/ ActionFails(f)
            \/ UNCHANGED vars
  BY <1>2, <1>10 DEF Tick, Arrives, Asks, LastPoll, ActionFails, Keep, vars,
     wallet
<1> QED
  BY <1>3, <1>4, <1>5, <1>6, <1>7, <1>8, <1>9, <1>10
     DEF Next, PassSteps, Flow

-----------------------------------------------------------------------------
(* The clients.                                                            *)

\* An answer is what the daemon would show, or that there is none.
LEMMA AnswerTypes ==
  ASSUME SnapshotTypes
  PROVE  Answer \in Views /\ Unreachable \in Views
BY DEF SnapshotTypes, States, Answer, Unreachable, Shown, Views

\* What a client shows and waits for is an answer of the daemon or none.
LEMMA ClientStep ==
  ASSUME IInv, [Next]_vars
  PROVE  ClientTypes'
<1>0. /\ ClientTypes /\ client \in Clients
      /\ request \in [Ticks \cup Flows -> Requests]
      /\ Answer \in Views /\ Unreachable \in Views
  BY TypeParts, AnswerTypes DEF IInv, ClientTypes
<1>1. CASE UNCHANGED <<client, request>>
  BY <1>0, <1>1 DEF ClientTypes
<1>2. ASSUME NEW q \in Ticks \cup Flows, Polls(q), UNCHANGED client
      PROVE  ClientTypes'
  BY <1>0, <1>2 DEF Polls, ClientTypes, Requests
<1>3. ASSUME NEW q \in Ticks \cup Flows, Arrives(q)
      PROVE  ClientTypes'
  <2>1. request' = [request EXCEPT ![q] = NoRequest]
    BY <1>3 DEF Arrives
  <2>2. client' \in {client, [client EXCEPT !.view = request[q].answer]}
    BY <1>3 DEF Arrives
  <2>3. NoRequest \in Requests /\ request[q].answer \in Views
    BY <1>0 DEF NoRequest, Requests
  <2> QED
    BY <1>0, <2>1, <2>2, <2>3 DEF ClientTypes, Clients
<1>4. ASSUME NEW f \in Flows,
             NEW at \in {"idle", "action", "asked"}, Set(f, at),
             UNCHANGED client
      PROVE  ClientTypes'
  BY <1>0, <1>4 DEF Set, ClientTypes, Requests
<1>5. ASSUME NEW f \in Flows, Asks(f)
      PROVE  ClientTypes'
  BY <1>4, <1>5 DEF Asks, Keep
<1>6. ASSUME NEW f \in Flows, ActionFails(f) \/ Flow(f)
      PROVE  ClientTypes'
  <2>1. UNCHANGED client /\ \E g \in Flows, ok \in BOOLEAN : Done(g, ok)
    BY <1>6 DEF ActionFails, Flow, Rescans, Removes, Flows, Open
  <2> QED
    BY <1>4, <2>1 DEF Done
<1>7. CASE \/ Drain \/ Changes \/ Wipes \/ ScanEnds \/ SyncFinished
           \/ Drops \/ Returns \/ (\E p \in Passes : PassSteps(p))
           \/ UNCHANGED vars
  BY <1>1, <1>7 DEF Drain, Changes, Wipes, ScanEnds, SyncFinished, Drops,
     Returns, PassSteps, ReadsOutputs, WritesSnapshot, vars
<1>8. ASSUME NEW q \in Ticks, Tick(q)
      PROVE  ClientTypes'
  BY <1>2, <1>8 DEF Tick, Keep
<1>9. ASSUME NEW f \in Flows, LastPoll(f)
      PROVE  ClientTypes'
  BY <1>2, <1>9 DEF LastPoll, Keep
<1> QED
  BY <1>3, <1>5, <1>6, <1>7, <1>8, <1>9 DEF Next

-----------------------------------------------------------------------------
\* The invariant holds at first,
LEMMA IInvInit ==
  ASSUME Init
  PROVE  IInv
<1>1. TypeOK
  BY ConstantsAssumption DEF Init, TypeOK, Versions, Views, Off, Shown,
     NoRequest, Unreachable, Open
<1>2. VersionInv
  BY ConstantsAssumption DEF Init, VersionInv, ToWipe, One, Flows, NoRequest
<1>3. DrainInv
  BY DEF Init, DrainInv, Draining
<1>4. ReadInv
  BY DEF Init, ReadInv, Off
<1>5. SeenInv /\ CalmInv
  BY DEF Init, SeenInv, ReadingsInv, CalmInv, Off, Null, Open
<1> QED
  BY <1>1, <1>2, <1>3, <1>4, <1>5 DEF IInv

\* every step keeps it,
LEMMA IInvStep ==
  ASSUME IInv, [Next]_vars
  PROVE  IInv'
BY VersionStep, SnapshotStep, ClientStep, SeenStep, CalmStep, TypePartsNext
   DEF IInv, SnapshotInv

\* and so it holds in every state.
THEOREM IInvHolds == Spec => []IInv
<1>1. Init => IInv
  BY IInvInit
<1>2. IInv /\ [Next]_vars => IInv'
  BY IInvStep
<1> QED
  BY <1>1, <1>2, PTL DEF Spec

\* TypeOK: the snapshot, the passes and the clients have the values the code
\* can give them, and what is pending has a timer or a pass that sees to it.
THEOREM TypeCorrect == Spec => []TypeOK
<1>1. IInv => TypeOK
  BY DEF IInv
<1> QED
  BY <1>1, IInvHolds, PTL

\* OnePass: however many changes, rescans and closes ask for a refresh, one
\* pass of drainRefresh is under way at a time, beside those of finishSync.
THEOREM OnePassHolds == Spec => []OnePass
<1>1. IInv => OnePass
  <2>1. SUFFICES ASSUME IInv PROVE OnePass
    OBVIOUS
  <2> DEFINE D == {p \in Passes : pass[p] # Off /\ pass[p].kind = "drain"}
  <2>2. OnePass <=> Cardinality(D) <= 1
    BY DEF OnePass
  <2>3. \A p, q \in D : p = q
    BY <2>1 DEF IInv, DrainInv, Draining
  <2> HIDE DEF D
  <2>4. CASE D = {}
    BY <2>2, <2>4, FS_EmptySet
  <2>5. ASSUME NEW p \in D PROVE OnePass
    <3>1. D = {p}
      BY <2>3, <2>5
    <3>2. Cardinality({p}) = 1
      BY FS_Singleton
    <3> QED
      BY <2>2, <3>1, <3>2
  <2> QED
    BY <2>4, <2>5
<1> QED
  BY <1>1, IInvHolds, PTL

\* NoChangeMissed: however changes, passes, scans and syncs interleave, a
\* change that is not in the newest reading has a pass on its way that will
\* read it, and before any fault or request what is shown is the newest
\* reading.
THEOREM NoChangeMissedHolds == Spec => []NoChangeMissed
<1>1. IInv => NoChangeMissed
  BY DEF IInv, SeenInv, CalmInv, NoChangeMissed
<1> QED
  BY <1>1, IInvHolds, PTL

-----------------------------------------------------------------------------
(* Importing: what a phrase is accepted for.                               *)

\* A phrase is accepted for what navcoin-js can derive from it, a checksum
\* that fails for navcoin-core only if it is waived.
LEMMA AcceptedDerives ==
  ASSUME NEW s \in Phrases, NEW t \in Types,
         NEW waive \in BOOLEAN
  PROVE  Refusal(s, t, waive) = Accepted <=>
           /\ Derives(s, t)
           /\ Waivable(t) => s.bip39 \/ waive
BY ImportAssumption DEF Types, Refusal, Accepted,
   Derives, Waivable, Refused, Words,
   Valid, Scheme, BIP39Words

\* What a secret is imported as, navcoin-js can derive from it.
LEMMA DerivationsDerive ==
  ASSUME NEW s \in Phrases \cup Keys \cup {NoSecret},
         NEW waive \in BOOLEAN, NEW t \in Derivations(s, waive)
  PROVE  Derives(s, t)
<1>1. CASE s \in Keys
  BY <1>1 DEF Derivations, Derives
<1>2. CASE s \notin Keys
  <2>1. t \in Eligible(s, waive) /\ ~(s.words < 12)
    BY <1>2 DEF Derivations
  <2>2. s # NoSecret
    BY <2>1 DEF NoSecret
  <2>3. t \in Types /\ Refusal(s, t, waive) = Accepted
    BY <2>1 DEF Eligible
  <2> QED
    BY <1>2, <2>2, <2>3, AcceptedDerives
<1> QED
  BY <1>1, <1>2

\* The reason for refusing a type can be waived if it is the checksum of
\* navcoin-core; and what ranks first can.
LEMMA RefusalWaivable ==
  ASSUME NEW s \in Phrases, NEW t \in Types, NEW waive \in BOOLEAN,
         s.words \in Nat
  PROVE  LET e == Refusal(s, t, waive)
         IN  /\ e.waivable \in BOOLEAN
             /\ e.waivable <=> /\ e # Accepted
                               /\ t = "navcoin-core" /\ s.words = 24
             /\ Rank(e, waive) \in 0..4
             /\ Rank(e, waive) = 0 <=> e.waivable
<1>1. LET e == Refusal(s, t, waive)
      IN  \/ e = Accepted
          \/ e = Refused("words", t, FALSE, FALSE)
          \/ e = Refused("words", t, FALSE, TRUE)
          \/ e = Refused("checksum", t, FALSE, FALSE)
             /\ t # "navcoin-core"
          \/ e = Refused("checksum", t, TRUE, FALSE)
             /\ t = "navcoin-core" /\ s.words = 24
  BY DEF Refusal, Waivable, Words, Refused
<1>2. t = "navcoin-core" /\ s.words = 24 =>
        LET e == Refusal(s, t, waive)
        IN  \/ e = Accepted
            \/ e = Refused("checksum", t, TRUE, FALSE)
  BY DEF Refusal, Waivable, Words, Refused,
     Scheme, BIP39Words
<1> DEFINE e == Refusal(s, t, waive)
<1>3. CASE e = Accepted
  BY <1>3 DEF Accepted, Rank
<1>4. CASE \E every \in BOOLEAN :
             e = Refused("words", t, FALSE, every)
  BY <1>2, <1>4 DEF Accepted, Refused, Rank
<1>5. CASE /\ e = Refused("checksum", t, FALSE, FALSE)
           /\ t # "navcoin-core"
  BY <1>5 DEF Accepted, Refused, Rank
<1>6. CASE /\ e = Refused("checksum", t, TRUE, FALSE)
           /\ t = "navcoin-core" /\ s.words = 24
  BY <1>6 DEF Accepted, Refused, Rank
<1> QED
  BY <1>1, <1>3, <1>4, <1>5, <1>6

\* One of the refusals ranks first.
LEMMA FirstRank ==
  ASSUME NEW E, E # {}, NEW waive,
         \A e \in E : Rank(e, waive) \in 0..4
  PROVE  \E e \in E : \A f \in E :
           Rank(e, waive) <= Rank(f, waive)
<1>1. ASSUME NEW n \in 0..4, \E e \in E : Rank(e, waive) = n,
             \A f \in E : Rank(f, waive) >= n
      PROVE  \E e \in E : \A f \in E :
               Rank(e, waive) <= Rank(f, waive)
  BY <1>1
<1>2. ASSUME NEW n \in 0..4, \A e \in E : Rank(e, waive) # n,
             \A f \in E : Rank(f, waive) >= n
      PROVE  \A f \in E : Rank(f, waive) >= n + 1
  BY <1>2
<1>3. \A f \in E : Rank(f, waive) >= 0 /\ Rank(f, waive) <= 4
  OBVIOUS
<1> QED
  BY <1>1, <1>2, <1>3

\* The reason that is reported for a phrase without a wallet can be waived if
\* and only if one of 24 words is what it fails for.
LEMMA ExplanationWaivable ==
  ASSUME NEW s \in Phrases, s.words \in Nat, NEW waive \in BOOLEAN,
         Eligible(s, waive) = {}
  PROVE  Explanation(s, waive).waivable <=> s.words = 24
<1> DEFINE E == {Refusal(s, t, waive) : t \in Types}
           e == Explanation(s, waive)
<1>1. \A t \in Types : Refusal(s, t, waive) # Accepted
  BY DEF Eligible
<1>2. "navcoin-core" \in Types
  BY DEF Types
<1>3. /\ \A f \in E : /\ Rank(f, waive) \in 0..4
                      /\ Rank(f, waive) = 0 <=> f.waivable
                      /\ f.waivable => s.words = 24
      /\ s.words = 24 => \E f \in E : f.waivable
  BY <1>1, <1>2, RefusalWaivable
<1>4. e = CHOOSE g \in E : \A f \in E :
            Rank(g, waive) <= Rank(f, waive)
  BY DEF Explanation
<1>5. E # {}
  BY <1>2
<1> HIDE DEF E, e
<1>6. e \in E /\ \A f \in E : Rank(e, waive) <= Rank(f, waive)
  BY <1>3, <1>4, <1>5, FirstRank
<1> QED
  BY <1>3, <1>6 DEF e

\* So whether it can be waived says whether waiving leads to a wallet.
LEMMA WaivingHelps ==
  ASSUME NEW s \in Phrases,
         Derivations(s, FALSE) = {}
  PROVE  CanWaive(s, FALSE) <=> Derivations(s, TRUE) # {}
<1>1. s \notin Keys /\ s.words \in Nat
  BY ImportAssumption
<1>2. CASE s.words < 12
  <2>1. ~CanWaive(s, FALSE)
    <3> SUFFICES ASSUME CanWaive(s, FALSE) PROVE FALSE
      OBVIOUS
    <3>1. s.words >= 12
      BY Zenon DEF CanWaive
    <3>2. ~(s.words >= 12)
      BY <1>1, <1>2
    <3> QED
      BY <3>1, <3>2
  <2>2. Derivations(s, TRUE) = {}
    BY <1>1, <1>2 DEF Derivations
  <2> QED
    BY <2>1, <2>2
<1>3. CASE ~(s.words < 12)
  <2>1. /\ \A waive \in BOOLEAN :
             Derivations(s, waive) = Eligible(s, waive)
        /\ s.words >= 12
    BY <1>1, <1>3 DEF Derivations
  <2>2. CanWaive(s, FALSE) <=> s.words = 24
    BY <1>1, <2>1, ExplanationWaivable DEF CanWaive
  <2>3. Eligible(s, TRUE) # {} <=> s.words = 24
    <3>1. \A t \in Types :
            ~ /\ Derives(s, t)
              /\ Waivable(t) => s.bip39 \/ FALSE
      BY <2>1, AcceptedDerives DEF Eligible
    <3>2. \A t \in Types :
            t \in Eligible(s, TRUE) <=> Derives(s, t)
      BY AcceptedDerives DEF Eligible
    <3>3. \A t \in Types :
            Derives(s, t) => t = "navcoin-core" /\ s.words = 24
      BY <3>1 DEF Derives, Waivable
    <3>4. "navcoin-core" \in Types
      BY DEF Types
    <3>5. s.words = 24 => Derives(s, "navcoin-core")
      BY DEF Derives
    <3>6. Eligible(s, TRUE) \subseteq Types
      BY DEF Eligible
    <3> QED
      BY <3>2, <3>3, <3>4, <3>5, <3>6
  <2> QED
    BY <2>1, <2>2, <2>3
<1> QED
  BY <1>2, <1>3

\* Once the checksum is waived, nothing more can be.
LEMMA WaivedOnce ==
  ASSUME NEW s
  PROVE  ~CanWaive(s, TRUE)
<1> SUFFICES ASSUME CanWaive(s, TRUE) PROVE FALSE
  OBVIOUS
<1>1. /\ s \in Phrases /\ s.words \in Nat /\ Eligible(s, TRUE) = {}
      /\ Explanation(s, TRUE).waivable
  BY ImportAssumption DEF CanWaive
<1>2. s.words = 24
  BY <1>1, ExplanationWaivable
<1>3. "navcoin-core" \in Types /\ Derives(s, "navcoin-core")
  BY <1>1, <1>2 DEF Types, Derives
<1>4. Refusal(s, "navcoin-core", TRUE) = Accepted
  BY <1>1, <1>3, AcceptedDerives
<1> QED
  BY <1>1, <1>3, <1>4 DEF Eligible

-----------------------------------------------------------------------------
(* Importing: the form and the registry.                                   *)

Secrets == Phrases \cup Keys \cup {NoSecret}
Forms == [client : {"cli", "tui", "gui"}, at : {"form", "sent", "asked"},
          secret : Secrets, waive : BOOLEAN, offered : BOOLEAN,
          refused : Secrets]

\* A waiver is offered for the phrase that was refused, if it can be given.
OfferInv ==
  \/ form.refused = NoSecret /\ ~form.offered
  \/ form.offered = CanWaive(form.refused, FALSE)

\* What is registered can be derived.
DerivesInv == \A s \in sources : Derives(s.secret, s.type)

ImportInv == form \in Forms /\ OfferInv /\ DerivesInv

\* What is left of a form is a form; the offer is what the answer made it.
LEMMA FailedForm ==
  ASSUME form \in Forms, NEW waivable \in BOOLEAN, NEW why \in Secrets
  PROVE  LET f == Failed(waivable, why)
         IN  /\ f \in Forms /\ f.offered = waivable /\ f.refused = why
BY DEF Failed, Forms

\* A new form offers nothing.
LEMMA BlankForm ==
  ASSUME NEW kind \in {"cli", "tui", "gui"}
  PROVE  LET f == Blank(kind)
         IN  /\ f \in Forms /\ f.refused = NoSecret /\ ~f.offered
             /\ f.client = kind
BY DEF Blank, Forms, Secrets

\* Every step keeps the form, the offer and the registry so.
LEMMA ImportStep ==
  ASSUME ImportInv, [ImportNext]_importVars
  PROVE  ImportInv'
<1>0. form \in Forms /\ OfferInv /\ DerivesInv
  BY DEF ImportInv
<1> USE DEF ImportInv
<1>1. ASSUME NEW s \in Phrases \cup Keys, Type(s)
      PROVE  ImportInv'
  <2>1. s \in Secrets /\ UNCHANGED sources
    BY <1>1 DEF Secrets, Type
  <2>2. CASE form.client = "gui"
    BY <1>0, <1>1, <2>1, <2>2 DEF Type, Forms, OfferInv, DerivesInv
  <2>3. CASE form.client # "gui"
    <3>0. \/ form' = [Blank("tui") EXCEPT !.secret = s, !.at = "sent"]
          \/ \E flag \in BOOLEAN :
               form' = [Blank("cli") EXCEPT
                          !.secret = s, !.at = "sent", !.waive = flag]
      BY <1>0, <1>1, <2>3 DEF Type, Forms
    <3>1. PICK kind \in {"cli", "tui"}, flag \in BOOLEAN :
            \/ form' = [Blank(kind) EXCEPT !.secret = s, !.at = "sent"]
            \/ form' = [Blank(kind) EXCEPT !.secret = s, !.at = "sent",
                                                  !.waive = flag]
      BY <3>0
    <3> DEFINE b == Blank(kind)
    <3>2. b \in Forms /\ b.refused = NoSecret /\ ~b.offered
      BY BlankForm
    <3>3. \/ form' = [b EXCEPT !.secret = s, !.at = "sent"]
          \/ form' = [b EXCEPT !.secret = s, !.at = "sent", !.waive = flag]
      BY <3>1
    <3> HIDE DEF b
    <3>4. /\ form' \in Forms /\ form'.refused = NoSecret
          /\ ~form'.offered
      BY <2>1, <3>2, <3>3 DEF Forms
    <3> QED
      BY <1>0, <2>1, <3>4 DEF OfferInv, DerivesInv
  <2> QED
    BY <2>2, <2>3
<1>2. CASE TickWaiver \/ Submit \/ Reply
  BY <1>0, <1>2 DEF TickWaiver, Submit, Reply, Forms, OfferInv,
     DerivesInv
<1>3. CASE Accept
  <2>1. form' \in {Blank(form.client),
                   Failed(FALSE, NoSecret)}
    BY <1>3 DEF Accept
  <2>2. /\ form' \in Forms /\ form'.refused = NoSecret
        /\ ~form'.offered
    <3>1. form.client \in {"cli", "tui", "gui"} /\ NoSecret \in Secrets
      BY <1>0 DEF Forms, Secrets
    <3> QED
      BY <1>0, <2>1, <3>1, BlankForm, FailedForm
  <2>3. \A s \in New(form.secret, form.waive) :
          Derives(s.secret, s.type)
    BY <1>0, DerivationsDerive DEF New, Forms, Secrets
  <2>4. sources' = sources \cup New(form.secret, form.waive)
    BY <1>3 DEF Accept
  <2> QED
    BY <1>0, <2>2, <2>3, <2>4 DEF OfferInv, DerivesInv
<1>4. CASE Refuse
  <2>1. CASE form' = Failed(FALSE, NoSecret)
    <3>1. /\ form' \in Forms /\ form'.refused = NoSecret
          /\ ~form'.offered
      BY <1>0, <2>1, FailedForm DEF Secrets
    <3> QED
      BY <1>0, <1>4, <3>1 DEF OfferInv, DerivesInv, Refuse
  <2>2. CASE form' = Failed(
                       CanWaive(form.secret, form.waive),
                       IF form.waive THEN NoSecret ELSE form.secret)
    <3> DEFINE can == CanWaive(form.secret, form.waive)
               why == IF form.waive THEN NoSecret ELSE form.secret
    <3>1. can \in BOOLEAN
      BY WaivedOnce, ExplanationWaivable DEF CanWaive
    <3>2. why \in Secrets
      BY <1>0 DEF Forms, Secrets
    <3>3. form.waive => ~can
      BY WaivedOnce, <1>0 DEF Forms
    <3>4. /\ form' \in Forms /\ form'.offered = can /\ form'.refused = why
      BY <1>0, <2>2, <3>1, <3>2, FailedForm
    <3>5. OfferInv'
      BY <1>0, <3>3, <3>4 DEF OfferInv, Forms
    <3> QED
      BY <1>0, <1>4, <3>4, <3>5 DEF DerivesInv, Refuse
  <2> QED
    BY <1>4, <2>1, <2>2 DEF Refuse
<1>5. CASE Remove
  BY <1>0, <1>5 DEF Remove, OfferInv, DerivesInv
<1>6. CASE UNCHANGED importVars
  BY <1>0, <1>6 DEF importVars, OfferInv, DerivesInv
<1> QED
  BY <1>1, <1>2, <1>3, <1>4, <1>5, <1>6 DEF ImportNext

\* So they are, in every state of a run with such phrases and keys.
LEMMA ImportInvHolds == ImportSpec => []ImportInv
<1>1. ImportInit => ImportInv
  BY BlankForm DEF ImportInit, ImportInv, OfferInv, DerivesInv
<1>2. ImportInv /\ [ImportNext]_importVars => ImportInv'
  BY ImportStep
<1> QED
  BY <1>1, <1>2, PTL DEF ImportSpec

\* ImportsWhatDerives: whatever is typed, ticked, lost and removed, what is
\* registered can be derived, and an accepted phrase is in for all it derives.
THEOREM ImportsWhatDerivesHolds ==
  ImportSpec => []ImportsWhatDerives
<1>1. ImportInv => ImportsWhatDerives
  <2> SUFFICES ASSUME ImportInv PROVE ImportsWhatDerives
    OBVIOUS
  <2>1. \A s \in sources : Derives(s.secret, s.type)
    BY DEF ImportInv, DerivesInv
  <2>2. ASSUME form.secret \in Phrases, form.secret.words >= 12,
               NEW t \in Types, Derives(form.secret, t),
               Waivable(t) => form.secret.bip39 \/ form.waive
        PROVE  [secret |-> form.secret, type |-> t]
                 \in sources \cup New(form.secret, form.waive)
    <3>1. /\ form.waive \in BOOLEAN /\ form.secret \notin Keys
          /\ form.secret.words \in Nat
      BY <2>2, ImportAssumption DEF ImportInv, Forms
    <3>2. t \in Eligible(form.secret, form.waive)
      BY <2>2, <3>1, AcceptedDerives DEF Eligible
    <3>3. t \in Derivations(form.secret, form.waive)
      BY <2>2, <3>1, <3>2 DEF Derivations
    <3> QED
      BY <3>3 DEF New
  <2> QED
    BY <2>1, <2>2 DEF ImportsWhatDerives
<1> QED
  BY <1>1, ImportInvHolds, PTL

\* OfferHelps: in every client, through any answers and edits, a waiver is
\* offered for a refused phrase if and only if it leads to a wallet.
THEOREM OfferHelpsHolds == ImportSpec => []OfferHelps
<1>1. ImportInv => OfferHelps
  <2> SUFFICES ASSUME ImportInv, form.refused \in Phrases,
                      Derivations(form.refused, FALSE) = {}
               PROVE  form.offered <=>
                        Derivations(form.refused, TRUE) # {}
    BY DEF OfferHelps
  <2>1. CASE form.refused = NoSecret /\ ~form.offered
    <3>1. Derivations(form.refused, TRUE) = {}
      BY <2>1, ImportAssumption DEF NoSecret, Derivations
    <3> QED
      BY <2>1, <3>1
  <2>2. CASE form.offered = CanWaive(form.refused, FALSE)
    BY <2>2, WaivingHelps
  <2> QED
    BY <2>1, <2>2 DEF ImportInv, OfferInv
<1> QED
  BY <1>1, ImportInvHolds, PTL
=============================================================================
