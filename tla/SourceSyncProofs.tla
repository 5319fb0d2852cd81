-------------------------- MODULE SourceSyncProofs --------------------------
(***************************************************************************)
(* What SourceSync keeps for every set of scan identities and every budget *)
(* of events: its types, its safety invariants, that a closed source       *)
(* starts nothing, when two statements the code does not keep hold after   *)
(* all, and that the source implements NodeLink's safety part.             *)
(*                                                                         *)
(* None of the invariants is inductive alone.  IInv below is: besides the  *)
(* invariants it says where an open can be while the wallet is loading and *)
(* while its first pass runs, that a pass and a live connection exclude    *)
(* each other, and that whatever statusOnConnect will restore was already  *)
(* true of the source.                                                     *)
(***************************************************************************)
EXTENDS SourceSync, TLAPS

USE DEF Statuses, NoStatus, Openings, Timers, RunStates

-----------------------------------------------------------------------------
(* The inductive invariant.                                                *)

\* The budget is only ever spent.
BudgetInv == \A e \in Events : left[e] <= Budget[e]

\* Before an open has finished its first pass nothing else can run; after an
\* open that failed there is neither a connection nor a way to one.
OpeningInv ==
  /\ opening = "loading" => status = "opening" /\ ~pass
  /\ opening = "connecting" => status = "connecting" /\ pass
  /\ opening \in {"loading", "connecting"} =>
       /\ ~connected /\ ~zombie /\ timer = "none"
       /\ \A r \in Runs : run[r] = "idle"
  /\ opening \in {"failed", "noDb"} =>
       error /\ ~connected /\ ~pass /\ timer = "none"

\* OneWayBack, and what goes with it: no pass runs over a live connection, a
\* closed source has no timer, and no way back is lost without an error.
LinkInv ==
  /\ pass => ~connected
  /\ opening = "open" /\ ~closing /\ ~connected /\ ~error =>
       timer # "none" \/ pass
  /\ closing => timer = "none"
  /\ OneWayBack

\* 'connected' is shown, or waits to be shown, only for a scan that is
\* waiting for the connection or running on it; an open source that has
\* nothing else to show has such a scan.
StatusInv ==
  ~closing =>
    /\ statusOnConnect # NoStatus => ~connected
    /\ opening = "open" /\ ~connected /\ statusOnConnect = NoStatus =>
         \E r \in Runs : run[r] = "waiting"
    /\ statusOnConnect = "connected" => \E r \in Runs : run[r] = "waiting"
    /\ status = "connected" =>
         connected /\ \E r \in Runs : run[r] \in {"waiting", "scanning"}

\* Everything that says or will say 'synced' was preceded by a whole scan.
Trusted ==
  /\ recorded \/ status = "synced" \/ statusOnConnect = "synced" => whole
  /\ \A r \in Runs : run[r] = "saving" => whole
  /\ ~marking

TrustInv ==
  Unspent("rescan") /\ Unspent("navSync") /\ Unspent("lookupFail") => Trusted

\* 'synced' is neither shown nor kept for after an outage while a scan runs, as
\* long as no rescan has been asked for.
Gated ==
  /\ \A r \in Runs : run[r] # "zapping"
  /\ status = "synced" \/ statusOnConnect = "synced" =>
       \A r \in Runs : ~Scanning(r)

GateInv ==
  /\ opening \in {"loading", "connecting"} => statusOnConnect = NoStatus
  /\ Unspent("rescan") /\ ~closing => Gated

\* Without a drop no aborted scan is left behind, and 'syncing' stands for the
\* scan that runs; without a sync of navcoin-js's own none waits to be saved.
Reporting ==
  /\ ~zombie /\ statusOnConnect # "syncing"
  /\ status = "syncing" => \E r \in Runs : run[r] = "scanning"

ReportInv ==
  /\ Unspent("drop") /\ ~closing => Reporting
  /\ Unspent("navSync") => ~marking

IInv ==
  /\ TypeOK /\ BudgetInv /\ OpeningInv /\ OneScan /\ ScanHasConnection
  /\ LinkInv /\ StatusInv /\ TrustInv /\ FirstScanOwed /\ GateInv
  /\ ReportInv

-----------------------------------------------------------------------------
(* The budget.                                                             *)

\* Spending takes one off that event and nothing off the others.
LEMMA SpendOne ==
  ASSUME NEW e \in Events, left \in [Events -> Nat], Spend(e)
  PROVE  /\ left' \in [Events -> Nat]
         /\ left'[e] < left[e]
         /\ \A f \in Events : f # e => left'[f] = left[f]
  BY DEF Spend

\* A step spends one event or leaves the budget alone.
LEMMA StepSpends ==
  [Next]_vars => left' = left \/ \E e \in Events : Spend(e)
<1> SUFFICES ASSUME [Next]_vars
             PROVE  left' = left \/ \E e \in Events : Spend(e)
  OBVIOUS
<1> USE DEF Events
<1>1. CASE \/ WalletLoaded \/ NodeAnswers \/ LateAnswer \/ PassFails
           \/ PassStops \/ ReconnectTimer \/ ScanProgress \/ ZombieStops
           \/ Close \/ UNCHANGED vars
  BY <1>1 DEF WalletLoaded, NodeAnswers, LateAnswer, PassFails, PassStops,
     ReconnectTimer, ScanProgress, ZombieStops, Close, vars
<1>2. CASE \/ LoadFails \/ PassThrows \/ Drop \/ RequestRescan
           \/ NavcoinSyncFinished \/ NavcoinSyncSaved \/ Restart
  BY <1>2 DEF LoadFails, PassThrows, Drop, RequestRescan,
     NavcoinSyncFinished, NavcoinSyncSaved, MarkSynced, Restart
<1>3. ASSUME NEW r \in Runs, NEW clean \in BOOLEAN,
             \/ Zapped(r) \/ WaitEnds(r) \/ RunFails(r) \/ SyncSaved(r)
             \/ ScanCompletes(r, clean)
      PROVE  left' = left \/ \E e \in Events : Spend(e)
  BY <1>3 DEF Zapped, WaitEnds, RunFails, SyncSaved, MarkSynced,
     ScanCompletes
<1> QED
  BY <1>1, <1>2, <1>3 DEF Next

\* So the budget keeps its type and its bound.
LEMMA BudgetStep ==
  left \in [Events -> Nat] /\ BudgetInv /\ [Next]_vars =>
    left' \in [Events -> Nat] /\ BudgetInv'
<1> SUFFICES ASSUME left \in [Events -> Nat], BudgetInv, [Next]_vars
             PROVE  left' \in [Events -> Nat] /\ BudgetInv'
  OBVIOUS
<1>1. CASE left' = left
  BY <1>1 DEF BudgetInv
<1>2. ASSUME NEW e \in Events, Spend(e)
      PROVE  left' \in [Events -> Nat] /\ BudgetInv'
  BY <1>2, SpendOne, ConstantsAssumption DEF BudgetInv
<1> QED
  BY <1>1, <1>2, StepSpends

\* An event that has not happened after a step had not happened before it,
\* and is not the one the step spends.
LEMMA UnspentBefore ==
  ASSUME left \in [Events -> Nat], BudgetInv, [Next]_vars,
         NEW e \in Events, Unspent(e)'
  PROVE  Unspent(e) /\ ~Spend(e)
<1>1. left'[e] = Budget[e] /\ left[e] <= Budget[e]
  BY DEF Unspent, BudgetInv
<1>2. ~Spend(e)
  BY <1>1, SpendOne, ConstantsAssumption
<1>3. left'[e] = left[e]
  BY <1>2, StepSpends, SpendOne
<1> QED
  BY <1>1, <1>2, <1>3 DEF Unspent

-----------------------------------------------------------------------------
(* Types.                                                                  *)

\* The fields of the state object that are not Booleans keep their types.
LEMMA FieldTypesStep ==
  FieldTypes /\ [Next]_vars => FieldTypes'
<1> SUFFICES ASSUME FieldTypes, [Next]_vars PROVE FieldTypes'
  OBVIOUS
<1> USE DEF FieldTypes, linkVars
<1>1. CASE WalletLoaded
  BY <1>1 DEF WalletLoaded, SetError, ConnectionStatus
<1>2. CASE LoadFails
  BY <1>2 DEF LoadFails, SetError
<1>3. CASE NodeAnswers
  BY <1>3 DEF NodeAnswers, FinishOpen, StatusOnAnswer, ConnectionStatus
<1>4. CASE LateAnswer
  BY <1>4 DEF LateAnswer, StatusOnAnswer, ConnectionStatus
<1>5. CASE PassFails
  BY <1>5 DEF PassFails, FinishOpen, ScheduleReconnect, ConnectionStatus
<1>6. CASE PassThrows
  BY <1>6 DEF PassThrows, SetError
<1>7. CASE PassStops
  BY <1>7 DEF PassStops
<1>8. CASE Drop
  BY <1>8 DEF Drop, ScheduleReconnect, ConnectionStatus
<1>9. CASE ReconnectTimer
  BY <1>9 DEF ReconnectTimer, ConnectionStatus
<1>10. ASSUME NEW r \in Runs, RunFails(r) PROVE FieldTypes'
  BY <1>10 DEF RunFails, SetError
<1>11. ASSUME NEW r \in Runs, NEW clean \in BOOLEAN, ScanCompletes(r, clean)
       PROVE  FieldTypes'
  BY <1>11 DEF ScanCompletes
<1>12. CASE ScanProgress
  BY <1>12 DEF ScanProgress
<1>13. CASE NavcoinSyncFinished
  BY <1>13 DEF NavcoinSyncFinished
<1>14. CASE Close
  BY <1>14 DEF Close
<1>15. CASE Restart
  BY <1>15 DEF Restart
<1>16. CASE RequestRescan \/ ZombieStops \/ NavcoinSyncSaved \/ UNCHANGED vars
  BY <1>16 DEF RequestRescan, ZombieStops, NavcoinSyncSaved, vars
<1>17. ASSUME NEW r \in Runs, Zapped(r) \/ WaitEnds(r) \/ SyncSaved(r)
       PROVE  FieldTypes'
  BY <1>17 DEF Zapped, WaitEnds, SyncSaved
<1> QED
  BY <1>1, <1>2, <1>3, <1>4, <1>5, <1>6, <1>7, <1>8, <1>9, <1>10, <1>11,
     <1>12, <1>13, <1>14, <1>15, <1>16, <1>17 DEF Next

\* The Booleans stay Booleans.
LEMMA FlagTypesStep ==
  FlagTypes /\ [Next]_vars => FlagTypes'
<1> SUFFICES ASSUME FlagTypes, [Next]_vars PROVE FlagTypes'
  OBVIOUS
<1> USE DEF FlagTypes, diskVars, linkVars, scanVars
<1>1. CASE WalletLoaded
  BY <1>1 DEF WalletLoaded, SetError
<1>2. CASE LoadFails
  BY <1>2 DEF LoadFails, SetError
<1>3. CASE NodeAnswers
  BY <1>3 DEF NodeAnswers, FinishOpen, BeginScan
<1>4. CASE LateAnswer
  BY <1>4 DEF LateAnswer
<1>5. CASE PassFails
  BY <1>5 DEF PassFails, FinishOpen, BeginScan
<1>6. CASE PassThrows
  BY <1>6 DEF PassThrows, SetError
<1>7. CASE Drop
  BY <1>7 DEF Drop
<1>8. CASE ReconnectTimer
  BY <1>8 DEF ReconnectTimer
<1>9. CASE RequestRescan
  BY <1>9 DEF RequestRescan
<1>10. ASSUME NEW r \in Runs, Zapped(r) PROVE FlagTypes'
  BY <1>10 DEF Zapped, EndRun, BeginScan
<1>11. ASSUME NEW r \in Runs, WaitEnds(r) PROVE FlagTypes'
  BY <1>11 DEF WaitEnds, EndRun, BeginScan
<1>12. ASSUME NEW r \in Runs, RunFails(r) PROVE FlagTypes'
  BY <1>12 DEF RunFails, EndRun, SetError
<1>13. ASSUME NEW r \in Runs, SyncSaved(r) PROVE FlagTypes'
  BY <1>13 DEF SyncSaved, EndRun, MarkSynced
<1>14. ASSUME NEW r \in Runs, NEW clean \in BOOLEAN, ScanCompletes(r, clean)
       PROVE  FlagTypes'
  BY <1>14 DEF ScanCompletes
<1>15. CASE NavcoinSyncFinished
  BY <1>15 DEF NavcoinSyncFinished
<1>16. CASE NavcoinSyncSaved
  BY <1>16 DEF NavcoinSyncSaved, MarkSynced
<1>17. CASE Close
  BY <1>17 DEF Close, EndRun
<1>18. CASE Restart
  BY <1>18 DEF Restart
<1>19. CASE PassStops \/ ScanProgress \/ ZombieStops \/ UNCHANGED vars
  BY <1>19 DEF PassStops, ScanProgress, ZombieStops, vars
<1> QED
  BY <1>1, <1>2, <1>3, <1>4, <1>5, <1>6, <1>7, <1>8, <1>9, <1>10, <1>11,
     <1>12, <1>13, <1>14, <1>15, <1>16, <1>17, <1>18, <1>19 DEF Next

\* A controller belongs to a run or to none, and every run has a state.
LEMMA ScanTypesStep ==
  ScanTypes /\ [Next]_vars => ScanTypes'
<1> SUFFICES ASSUME ScanTypes, [Next]_vars PROVE ScanTypes'
  OBVIOUS
<1> USE DEF ScanTypes, scanVars
<1>1. CASE NodeAnswers
  BY <1>1 DEF NodeAnswers, FinishOpen, BeginScan
<1>2. CASE PassFails
  BY <1>2 DEF PassFails, FinishOpen, BeginScan
<1>3. CASE Drop
  BY <1>3 DEF Drop
<1>4. CASE RequestRescan
  BY <1>4 DEF RequestRescan
<1>5. ASSUME NEW r \in Runs, Zapped(r) PROVE ScanTypes'
  BY <1>5 DEF Zapped, EndRun, BeginScan
<1>6. ASSUME NEW r \in Runs, WaitEnds(r) PROVE ScanTypes'
  BY <1>6 DEF WaitEnds, EndRun, BeginScan
<1>7. ASSUME NEW r \in Runs, RunFails(r) PROVE ScanTypes'
  BY <1>7 DEF RunFails, EndRun
<1>8. ASSUME NEW r \in Runs, SyncSaved(r) PROVE ScanTypes'
  BY <1>8 DEF SyncSaved, EndRun
<1>9. ASSUME NEW r \in Runs, NEW clean \in BOOLEAN, ScanCompletes(r, clean)
       PROVE  ScanTypes'
  BY <1>9 DEF ScanCompletes
<1>10. CASE Close
  BY <1>10 DEF Close, EndRun
<1>11. CASE Restart
  BY <1>11 DEF Restart
<1>12. CASE WalletLoaded \/ LoadFails \/ LateAnswer \/ PassThrows \/ PassStops
          \/ ReconnectTimer \/ ScanProgress \/ ZombieStops \/
          NavcoinSyncFinished \/ NavcoinSyncSaved \/ UNCHANGED vars
  BY <1>12 DEF WalletLoaded, LoadFails, LateAnswer, PassThrows, PassStops,
     ReconnectTimer, ScanProgress, ZombieStops, NavcoinSyncFinished,
     NavcoinSyncSaved, vars
<1> QED
  BY <1>1, <1>2, <1>3, <1>4, <1>5, <1>6, <1>7, <1>8, <1>9, <1>10, <1>11,
     <1>12 DEF Next

-----------------------------------------------------------------------------
(* Scans.                                                                  *)

\* The end of the one run there is leaves none.
LEMMA EndRunEndsAll ==
  ASSUME TypeOK, OneScan, NEW r \in Runs, run[r] # "idle", EndRun(r)
  PROVE  OneScan' /\ \A q \in Runs : run'[q] = "idle"
<1>1. run' \in [Runs -> RunStates] /\ \A q \in Runs : run'[q] = "idle"
  BY DEF TypeOK, ScanTypes, OneScan, EndRun
<1>2. ~rescanInFlight' /\ scanAbort' = NoRun
  BY DEF TypeOK, ScanTypes, OneScan, EndRun
<1> QED
  BY <1>1, <1>2, ConstantsAssumption DEF OneScan

\* A drop sends the scan that runs back to waiting, and no other.
LEMMA DropAborts ==
  ASSUME TypeOK, OneScan, ScanHasConnection, Drop
  PROVE  OneScan' /\ ScanHasConnection'
<1> USE DEF TypeOK, ScanTypes, OneScan, ScanHasConnection, Drop
<1>1. CASE scanAbort = NoRun
  <2>1. UNCHANGED <<run, scanAbort, rescanInFlight, closing>>
    BY <1>1
  <2>2. \A r \in Runs : run[r] # "scanning"
    BY <1>1, ConstantsAssumption
  <2> QED
    BY <2>1, <2>2
<1>2. CASE scanAbort # NoRun
  <2>1. /\ scanAbort \in Runs /\ run[scanAbort] = "scanning"
        /\ run' = [run EXCEPT ![scanAbort] = "waiting"]
        /\ scanAbort' = NoRun /\ rescanInFlight' = rescanInFlight
    BY <1>2
  <2>2. \A r \in Runs : run'[r] = IF r = scanAbort THEN "waiting" ELSE "idle"
    BY <2>1
  <2> QED
    BY <2>1, <2>2, ConstantsAssumption
<1> QED
  BY <1>1, <1>2

\* Closing aborts the scan that runs and ends its run.
LEMMA CloseAborts ==
  ASSUME TypeOK, OneScan, ScanHasConnection, Close
  PROVE  OneScan' /\ ScanHasConnection'
<1>1. CASE scanAbort = NoRun
  <2>1. UNCHANGED <<run, scanAbort, rescanInFlight>>
    BY <1>1 DEF Close, scanVars
  <2>2. \A r \in Runs : run[r] # "scanning"
    BY <1>1, ConstantsAssumption DEF OneScan
  <2> QED
    BY <2>1, <2>2 DEF OneScan, ScanHasConnection
<1>2. CASE scanAbort # NoRun
  BY <1>2, EndRunEndsAll DEF Close, TypeOK, ScanTypes, OneScan,
     ScanHasConnection
<1> QED
  BY <1>1, <1>2

\* A scan that completes hands its run over to the saving of its result.
LEMMA CompletesAlone ==
  ASSUME TypeOK, OneScan, NEW r \in Runs, NEW clean \in BOOLEAN,
         ScanCompletes(r, clean)
  PROVE  /\ OneScan' /\ rescanInFlight
         /\ \A q \in Runs : run'[q] = IF q = r THEN "saving" ELSE "idle"
<1>1. /\ run' \in [Runs -> RunStates]
      /\ \A q \in Runs : run'[q] = IF q = r THEN "saving" ELSE "idle"
  BY DEF TypeOK, ScanTypes, OneScan, ScanCompletes
<1>2. scanAbort' = NoRun /\ rescanInFlight' /\ rescanInFlight
  BY DEF TypeOK, ScanTypes, OneScan, ScanCompletes
<1> QED
  BY <1>1, <1>2, ConstantsAssumption DEF OneScan

\* A run starts only where none is: an open starts its own before anything
\* else can, and a rescan looks at rescanInFlight first.
LEMMA OneScanStep ==
  TypeOK /\ OpeningInv /\ OneScan /\ ScanHasConnection /\ [Next]_vars =>
  OneScan'
<1> SUFFICES ASSUME TypeOK, OpeningInv, OneScan, ScanHasConnection,
             [Next]_vars PROVE OneScan'
  OBVIOUS
<1> USE DEF TypeOK, ScanTypes, OpeningInv, OneScan, scanVars
<1>1. CASE NodeAnswers
  BY <1>1 DEF NodeAnswers, FinishOpen, BeginScan
<1>2. CASE PassFails
  BY <1>2 DEF PassFails, FinishOpen, BeginScan
<1>3. CASE Drop
  BY <1>3, DropAborts
<1>4. CASE RequestRescan
  BY <1>4 DEF RequestRescan
<1>5. ASSUME NEW r \in Runs, Zapped(r) PROVE OneScan'
  BY <1>5 DEF Zapped, EndRun, BeginScan
<1>6. ASSUME NEW r \in Runs, WaitEnds(r) PROVE OneScan'
  BY <1>6 DEF WaitEnds, EndRun, BeginScan
<1>7. ASSUME NEW r \in Runs, RunFails(r) PROVE OneScan'
  BY <1>7, EndRunEndsAll DEF RunFails
<1>8. ASSUME NEW r \in Runs, SyncSaved(r) PROVE OneScan'
  BY <1>8, EndRunEndsAll DEF SyncSaved
<1>9. ASSUME NEW r \in Runs, NEW clean \in BOOLEAN, ScanCompletes(r, clean)
       PROVE  OneScan'
  BY <1>9, CompletesAlone
<1>10. CASE Close
  BY <1>10, CloseAborts
<1>11. CASE Restart
  BY <1>11, ConstantsAssumption DEF Restart
<1>12. CASE WalletLoaded \/ LoadFails \/ LateAnswer \/ PassThrows \/ PassStops
          \/ ReconnectTimer \/ ScanProgress \/ ZombieStops \/
          NavcoinSyncFinished \/ NavcoinSyncSaved \/ UNCHANGED vars
  BY <1>12 DEF WalletLoaded, LoadFails, LateAnswer, PassThrows, PassStops,
     ReconnectTimer, ScanProgress, ZombieStops, NavcoinSyncFinished,
     NavcoinSyncSaved, vars
<1> QED
  BY <1>1, <1>2, <1>3, <1>4, <1>5, <1>6, <1>7, <1>8, <1>9, <1>10, <1>11,
     <1>12 DEF Next

\* A scan begins on a connection and loses it only by being aborted.
LEMMA ScanHasConnectionStep ==
  TypeOK /\ OneScan /\ ScanHasConnection /\ [Next]_vars =>
  ScanHasConnection'
<1> SUFFICES ASSUME TypeOK, OneScan, ScanHasConnection, [Next]_vars PROVE
             ScanHasConnection'
  OBVIOUS
<1> USE DEF TypeOK, ScanTypes, FlagTypes, ScanHasConnection, linkVars,
          scanVars
<1>1. CASE NodeAnswers
  BY <1>1 DEF NodeAnswers, FinishOpen, BeginScan
<1>2. CASE LateAnswer
  BY <1>2 DEF LateAnswer
<1>3. CASE PassFails
  BY <1>3 DEF PassFails, FinishOpen, BeginScan
<1>4. CASE Drop
  BY <1>4, DropAborts
<1>5. CASE RequestRescan
  BY <1>5 DEF RequestRescan
<1>6. ASSUME NEW r \in Runs, Zapped(r) PROVE ScanHasConnection'
  BY <1>6 DEF Zapped, EndRun, BeginScan
<1>7. ASSUME NEW r \in Runs, WaitEnds(r) PROVE ScanHasConnection'
  BY <1>7 DEF WaitEnds, EndRun, BeginScan
<1>8. ASSUME NEW r \in Runs, RunFails(r) PROVE ScanHasConnection'
  BY <1>8 DEF RunFails, EndRun
<1>9. ASSUME NEW r \in Runs, SyncSaved(r) PROVE ScanHasConnection'
  BY <1>9 DEF SyncSaved, EndRun
<1>10. ASSUME NEW r \in Runs, NEW clean \in BOOLEAN, ScanCompletes(r, clean)
       PROVE  ScanHasConnection'
  BY <1>10 DEF ScanCompletes
<1>11. CASE Close
  BY <1>11, CloseAborts
<1>12. CASE Restart
  BY <1>12 DEF Restart
<1>13. CASE WalletLoaded \/ LoadFails \/ PassThrows \/ PassStops \/
          ReconnectTimer \/ ScanProgress \/ ZombieStops \/ NavcoinSyncFinished
          \/ NavcoinSyncSaved \/ UNCHANGED vars
  BY <1>13 DEF WalletLoaded, LoadFails, PassThrows, PassStops, ReconnectTimer,
     ScanProgress, ZombieStops, NavcoinSyncFinished, NavcoinSyncSaved, vars
<1> QED
  BY <1>1, <1>2, <1>3, <1>4, <1>5, <1>6, <1>7, <1>8, <1>9, <1>10, <1>11,
     <1>12, <1>13 DEF Next

-----------------------------------------------------------------------------
(* The connection.                                                         *)

\* Where an open is decides what else there can be.
LEMMA OpeningInvStep ==
  TypeOK /\ OpeningInv /\ LinkInv /\ OneScan /\ [Next]_vars => OpeningInv'
<1> SUFFICES ASSUME TypeOK, OpeningInv, LinkInv, OneScan, [Next]_vars PROVE
             OpeningInv'
  OBVIOUS
<1> USE DEF TypeOK, FieldTypes, FlagTypes, ScanTypes, OpeningInv, LinkInv,
          OneScan, diskVars, linkVars, scanVars
<1>1. CASE WalletLoaded
  BY <1>1 DEF WalletLoaded, SetError, ConnectionStatus
<1>2. CASE LoadFails
  BY <1>2 DEF LoadFails, SetError
<1>3. CASE NodeAnswers
  BY <1>3 DEF NodeAnswers, FinishOpen, BeginScan, ConnectionStatus
<1>4. CASE LateAnswer
  BY <1>4 DEF LateAnswer, ConnectionStatus
<1>5. CASE PassFails
  BY <1>5 DEF PassFails, FinishOpen, BeginScan, ScheduleReconnect,
     ConnectionStatus
<1>6. CASE PassThrows
  BY <1>6 DEF PassThrows, SetError
<1>7. CASE PassStops
  BY <1>7 DEF PassStops
<1>8. CASE Drop
  BY <1>8 DEF Drop, ScheduleReconnect, ConnectionStatus, HasWallet
<1>9. CASE ReconnectTimer
  BY <1>9 DEF ReconnectTimer, ConnectionStatus, HasWallet
<1>10. CASE RequestRescan
  BY <1>10 DEF RequestRescan, HasWallet, ScanBusyStates
<1>11. ASSUME NEW r \in Runs, RunFails(r) PROVE OpeningInv'
  BY <1>11 DEF RunFails, EndRun, SetError
<1>12. ASSUME NEW r \in Runs, NEW clean \in BOOLEAN, ScanCompletes(r, clean)
       PROVE  OpeningInv'
  BY <1>12 DEF ScanCompletes
<1>13. CASE ScanProgress
  BY <1>13 DEF ScanProgress
<1>14. CASE ZombieStops
  BY <1>14 DEF ZombieStops
<1>15. CASE NavcoinSyncFinished
  BY <1>15 DEF NavcoinSyncFinished, HasWallet
<1>16. CASE Close
  BY <1>16 DEF Close, EndRun
<1>17. CASE Restart
  BY <1>17 DEF Restart
<1>18. CASE NavcoinSyncSaved \/ UNCHANGED vars
  BY <1>18 DEF NavcoinSyncSaved, vars
<1>19. ASSUME NEW r \in Runs, Zapped(r) \/ WaitEnds(r) \/ SyncSaved(r)
       PROVE  OpeningInv'
  BY <1>19 DEF Zapped, WaitEnds, SyncSaved, EndRun, BeginScan
<1> QED
  BY <1>1, <1>2, <1>3, <1>4, <1>5, <1>6, <1>7, <1>8, <1>9, <1>10, <1>11,
     <1>12, <1>13, <1>14, <1>15, <1>16, <1>17, <1>18, <1>19 DEF Next

\* Every step that ends a pass or a connection, and does not throw, leaves the
\* source with exactly one way back.
LEMMA LinkInvStep ==
  TypeOK /\ BudgetInv /\ OpeningInv /\ LinkInv /\ [Next]_vars => LinkInv'
<1> SUFFICES ASSUME TypeOK, BudgetInv, OpeningInv, LinkInv, [Next]_vars PROVE
             LinkInv'
  OBVIOUS
<1>a. Unspent("connectThrow")' =>
        Unspent("connectThrow") /\ ~Spend("connectThrow")
  BY UnspentBefore DEF TypeOK, Events
<1> USE <1>a DEF TypeOK, FieldTypes, FlagTypes, OpeningInv, LinkInv,
          OneWayBack, linkVars
<1>1. CASE WalletLoaded
  BY <1>1 DEF WalletLoaded
<1>2. CASE LoadFails
  BY <1>2 DEF LoadFails, SetError
<1>3. CASE NodeAnswers
  BY <1>3 DEF NodeAnswers, FinishOpen
<1>4. CASE LateAnswer
  BY <1>4 DEF LateAnswer
<1>5. CASE PassFails
  BY <1>5 DEF PassFails, FinishOpen, ScheduleReconnect
<1>6. CASE PassThrows
  BY <1>6 DEF PassThrows, SetError
<1>7. CASE PassStops
  BY <1>7 DEF PassStops
<1>8. CASE Drop
  BY <1>8 DEF Drop, ScheduleReconnect, HasWallet
<1>9. CASE ReconnectTimer
  BY <1>9 DEF ReconnectTimer, HasWallet
<1>10. CASE Close
  BY <1>10 DEF Close
<1>11. CASE Restart
  BY <1>11 DEF Restart
<1>12. CASE RequestRescan \/ ScanProgress \/ ZombieStops \/
          NavcoinSyncFinished \/ NavcoinSyncSaved \/ UNCHANGED vars
  BY <1>12 DEF RequestRescan, ScanProgress, ZombieStops, NavcoinSyncFinished,
     NavcoinSyncSaved, vars
<1>13. ASSUME NEW r \in Runs, NEW clean \in BOOLEAN, Zapped(r) \/ WaitEnds(r)
            \/ RunFails(r) \/ SyncSaved(r) \/ ScanCompletes(r, clean)
       PROVE  LinkInv'
  BY <1>13 DEF Zapped, WaitEnds, RunFails, SetError, SyncSaved, ScanCompletes
<1> QED
  BY <1>1, <1>2, <1>3, <1>4, <1>5, <1>6, <1>7, <1>8, <1>9, <1>10, <1>11,
     <1>12, <1>13 DEF Next

-----------------------------------------------------------------------------
(* What the source shows.                                                  *)

\* A source that shows 'connected' when it drops has a scan that waits for
\* the next connection, perhaps one that this drop sends back to waiting.
LEMMA DropKeepsStatusInv ==
  ASSUME TypeOK, OneScan, ScanHasConnection, StatusInv, Drop
  PROVE  StatusInv'
<1> USE DEF Drop, TypeOK, FieldTypes, FlagTypes, ScanTypes, OneScan,
            StatusInv, HasWallet
<1>1. /\ status' = ConnectionStatus("connecting")
      /\ ~connected' /\ ~closing /\ ~closing'
  OBVIOUS
<1>2. statusOnConnect = NoStatus /\ statusOnConnect' = status
  OBVIOUS
<1>3. ASSUME status = "connected" PROVE \E r \in Runs : run'[r] = "waiting"
  <2>1. PICK r \in Runs : run[r] \in {"waiting", "scanning"}
    BY <1>3
  <2>2. CASE run[r] = "scanning"
    BY <2>2, ConstantsAssumption
  <2>3. CASE run[r] = "waiting"
    BY <2>3
  <2> QED
    BY <2>1, <2>2, <2>3
<1> QED
  BY <1>1, <1>2, <1>3 DEF ConnectionStatus

\* 'connected' comes with a scan and goes with it.
LEMMA StatusInvStep ==
  TypeOK /\ OpeningInv /\ OneScan /\ ScanHasConnection /\ LinkInv /\
  StatusInv /\ [Next]_vars => StatusInv'
<1> SUFFICES ASSUME TypeOK, OpeningInv, OneScan, ScanHasConnection, LinkInv,
             StatusInv, [Next]_vars PROVE StatusInv'
  OBVIOUS
<1> USE DEF TypeOK, FieldTypes, FlagTypes, ScanTypes, OpeningInv, OneScan,
          ScanHasConnection, LinkInv, StatusInv, linkVars, scanVars
<1>1. CASE WalletLoaded
  BY <1>1 DEF WalletLoaded, SetError, ConnectionStatus
<1>2. CASE LoadFails
  BY <1>2 DEF LoadFails, SetError
<1>3. CASE NodeAnswers
  BY <1>3 DEF NodeAnswers, FinishOpen, BeginScan, StatusOnAnswer,
     ConnectionStatus
<1>4. CASE LateAnswer
  BY <1>4 DEF LateAnswer, StatusOnAnswer, ConnectionStatus
<1>5. CASE PassFails
  BY <1>5 DEF PassFails, FinishOpen, BeginScan, ScheduleReconnect,
     ConnectionStatus
<1>6. CASE PassThrows
  BY <1>6 DEF PassThrows, SetError
<1>7. CASE PassStops
  BY <1>7 DEF PassStops
<1>8. CASE Drop
  BY <1>8, DropKeepsStatusInv
<1>9. CASE ReconnectTimer
  BY <1>9 DEF ReconnectTimer, ConnectionStatus, HasWallet
<1>10. CASE RequestRescan
  BY <1>10 DEF RequestRescan, HasWallet, ScanBusyStates
<1>11. ASSUME NEW r \in Runs, Zapped(r) PROVE StatusInv'
  BY <1>11 DEF Zapped, EndRun, BeginScan
<1>12. ASSUME NEW r \in Runs, WaitEnds(r) PROVE StatusInv'
  BY <1>12 DEF WaitEnds, EndRun, BeginScan
<1>13. ASSUME NEW r \in Runs, RunFails(r) PROVE StatusInv'
  BY <1>13 DEF RunFails, EndRun, SetError
<1>14. ASSUME NEW r \in Runs, SyncSaved(r) PROVE StatusInv'
  BY <1>14 DEF SyncSaved, EndRun
<1>15. ASSUME NEW r \in Runs, NEW clean \in BOOLEAN, ScanCompletes(r, clean)
       PROVE  StatusInv'
  BY <1>15 DEF ScanCompletes
<1>16. CASE ScanProgress
  BY <1>16 DEF ScanProgress
<1>17. CASE NavcoinSyncFinished
  BY <1>17 DEF NavcoinSyncFinished, HasWallet
<1>18. CASE Close
  BY <1>18 DEF Close, EndRun
<1>19. CASE Restart
  BY <1>19 DEF Restart
<1>20. CASE ZombieStops \/ NavcoinSyncSaved \/ UNCHANGED vars
  BY <1>20 DEF ZombieStops, NavcoinSyncSaved, vars
<1> QED
  BY <1>1, <1>2, <1>3, <1>4, <1>5, <1>6, <1>7, <1>8, <1>9, <1>10, <1>11,
     <1>12, <1>13, <1>14, <1>15, <1>16, <1>17, <1>18, <1>19, <1>20 DEF Next

-----------------------------------------------------------------------------
(* What 'synced' stands for.                                               *)

\* 'synced' is set by a scan that completes, or restored, and recorded after
\* it; only a rescan undoes what a whole scan found.
LEMMA TrustedStep ==
  TypeOK /\ OneScan /\ Trusted /\ ~Spend("rescan") /\ ~Spend("navSync") /\
  ~Spend("lookupFail") /\ [Next]_vars => Trusted'
<1> SUFFICES ASSUME TypeOK, OneScan, Trusted, ~Spend("rescan"),
             ~Spend("navSync"), ~Spend("lookupFail"), [Next]_vars PROVE
             Trusted'
  OBVIOUS
<1> USE DEF TypeOK, FieldTypes, FlagTypes, ScanTypes, Trusted, diskVars,
          linkVars, scanVars
<1>1. CASE WalletLoaded
  BY <1>1 DEF WalletLoaded, SetError, ConnectionStatus
<1>2. CASE LoadFails
  BY <1>2 DEF LoadFails, SetError
<1>3. CASE NodeAnswers
  BY <1>3 DEF NodeAnswers, FinishOpen, BeginScan, StatusOnAnswer,
     ConnectionStatus
<1>4. CASE LateAnswer
  BY <1>4 DEF LateAnswer, StatusOnAnswer, ConnectionStatus
<1>5. CASE PassFails
  BY <1>5 DEF PassFails, FinishOpen, BeginScan, ConnectionStatus
<1>6. CASE PassThrows
  BY <1>6 DEF PassThrows, SetError
<1>7. CASE Drop
  BY <1>7 DEF Drop, ConnectionStatus
<1>8. CASE ReconnectTimer
  BY <1>8 DEF ReconnectTimer, ConnectionStatus
<1>9. CASE RequestRescan
  BY <1>9 DEF RequestRescan
<1>10. ASSUME NEW r \in Runs, Zapped(r) PROVE Trusted'
  BY <1>10 DEF Zapped, EndRun, BeginScan
<1>11. ASSUME NEW r \in Runs, WaitEnds(r) PROVE Trusted'
  BY <1>11 DEF WaitEnds, EndRun, BeginScan
<1>12. ASSUME NEW r \in Runs, RunFails(r) PROVE Trusted'
  BY <1>12 DEF RunFails, EndRun, SetError
<1>13. ASSUME NEW r \in Runs, SyncSaved(r) PROVE Trusted'
  BY <1>13 DEF SyncSaved, EndRun, MarkSynced
<1>14. ASSUME NEW r \in Runs, NEW clean \in BOOLEAN, ScanCompletes(r, clean)
       PROVE  Trusted'
  BY <1>14, CompletesAlone DEF ScanCompletes
<1>15. CASE ScanProgress
  BY <1>15 DEF ScanProgress
<1>16. CASE NavcoinSyncFinished
  BY <1>16 DEF NavcoinSyncFinished
<1>17. CASE NavcoinSyncSaved
  BY <1>17 DEF NavcoinSyncSaved, MarkSynced
<1>18. CASE Close
  BY <1>18 DEF Close, EndRun
<1>19. CASE Restart
  BY <1>19 DEF Restart
<1>20. CASE PassStops \/ ZombieStops \/ UNCHANGED vars
  BY <1>20 DEF PassStops, ZombieStops, vars
<1> QED
  BY <1>1, <1>2, <1>3, <1>4, <1>5, <1>6, <1>7, <1>8, <1>9, <1>10, <1>11,
     <1>12, <1>13, <1>14, <1>15, <1>16, <1>17, <1>18, <1>19, <1>20 DEF Next

\* So it stays trusted as long as no such event has happened.
LEMMA TrustInvStep ==
  TypeOK /\ BudgetInv /\ OneScan /\ TrustInv /\ [Next]_vars => TrustInv'
<1> SUFFICES ASSUME TypeOK, BudgetInv, OneScan, TrustInv, [Next]_vars,
                    Unspent("rescan")', Unspent("navSync")',
                    Unspent("lookupFail")'
             PROVE  Trusted'
  BY DEF TrustInv
<1>1. Unspent("rescan") /\ ~Spend("rescan")
  BY UnspentBefore DEF TypeOK, Events
<1>2. Unspent("navSync") /\ ~Spend("navSync")
  BY UnspentBefore DEF TypeOK, Events
<1>3. Unspent("lookupFail") /\ ~Spend("lookupFail")
  BY UnspentBefore DEF TypeOK, Events
<1> QED
  BY <1>1, <1>2, <1>3, TrustedStep DEF TrustInv

-----------------------------------------------------------------------------
(* The first scan.                                                         *)

\* An open begins it unless it is recorded, only a close or an error ends it
\* early, and its end is recorded unless that write fails.
LEMMA FirstScanOwedStep ==
  TypeOK /\ BudgetInv /\ FirstScanOwed /\ [Next]_vars => FirstScanOwed'
<1> SUFFICES ASSUME TypeOK, BudgetInv, FirstScanOwed, [Next]_vars,
                    opening' = "open", ~closing', ~error',
                    Unspent("writeFail")'
             PROVE  recorded' \/ rescanInFlight'
  BY DEF FirstScanOwed
<1>1. Unspent("writeFail") /\ ~Spend("writeFail")
  BY UnspentBefore DEF TypeOK, Events
<1>2. opening = "open" /\ ~closing /\ ~error => recorded \/ rescanInFlight
  BY <1>1 DEF FirstScanOwed
<1> USE DEF diskVars, linkVars, scanVars
<1>3. CASE NodeAnswers \/ PassFails
  BY <1>2, <1>3 DEF NodeAnswers, PassFails, FinishOpen
<1>4. CASE PassThrows \/ PassStops
  BY <1>2, <1>4 DEF PassThrows, PassStops, SetError
<1>5. CASE WalletLoaded \/ LoadFails \/ Restart
  BY <1>5 DEF WalletLoaded, LoadFails, SetError, Restart
<1>6. CASE LateAnswer \/ Drop \/ ReconnectTimer \/ RequestRescan
           \/ ScanProgress \/ ZombieStops \/ NavcoinSyncFinished
           \/ UNCHANGED vars
  BY <1>2, <1>6 DEF LateAnswer, Drop, ReconnectTimer, RequestRescan,
     ScanProgress, ZombieStops, NavcoinSyncFinished, vars
<1>7. CASE NavcoinSyncSaved
  BY <1>1, <1>2, <1>7 DEF NavcoinSyncSaved, MarkSynced
<1>8. CASE Close
  BY <1>8 DEF Close
<1>9. ASSUME NEW r \in Runs, Zapped(r) \/ WaitEnds(r)
      PROVE  recorded' \/ rescanInFlight'
  BY <1>2, <1>9 DEF Zapped, WaitEnds
<1>10. ASSUME NEW r \in Runs, RunFails(r)
       PROVE  recorded' \/ rescanInFlight'
  BY <1>10 DEF RunFails, SetError
<1>11. ASSUME NEW r \in Runs, SyncSaved(r)
       PROVE  recorded' \/ rescanInFlight'
  BY <1>1, <1>11 DEF SyncSaved, MarkSynced
<1>12. ASSUME NEW r \in Runs, NEW clean \in BOOLEAN, ScanCompletes(r, clean)
       PROVE  recorded' \/ rescanInFlight'
  BY <1>2, <1>12 DEF ScanCompletes
<1> QED
  BY <1>3, <1>4, <1>5, <1>6, <1>7, <1>8, <1>9, <1>10, <1>11, <1>12 DEF Next

-----------------------------------------------------------------------------
(* What a sweep waits for.                                                 *)

\* Only a drop keeps a status, and an open that is not done has had none.
LEMMA NothingKept ==
  ASSUME OpeningInv, GateInv, [Next]_vars,
         opening' \in {"loading", "connecting"}
  PROVE  statusOnConnect' = NoStatus
<1> USE DEF linkVars, OpeningInv, GateInv
<1>1. CASE WalletLoaded \/ LoadFails \/ Restart
  BY <1>1 DEF WalletLoaded, LoadFails, Restart
<1>2. CASE NodeAnswers \/ PassFails \/ PassThrows \/ PassStops
  BY <1>2 DEF NodeAnswers, PassFails, PassThrows, PassStops, FinishOpen
<1>3. CASE LateAnswer \/ Drop \/ ReconnectTimer
  BY <1>3 DEF LateAnswer, Drop, ReconnectTimer
<1>4. CASE \/ RequestRescan \/ ScanProgress \/ ZombieStops
           \/ NavcoinSyncFinished \/ NavcoinSyncSaved \/ Close
           \/ UNCHANGED vars
  BY <1>4 DEF RequestRescan, ScanProgress, ZombieStops, NavcoinSyncFinished,
     NavcoinSyncSaved, Close, vars
<1>5. ASSUME NEW r \in Runs,
             \/ Zapped(r) \/ WaitEnds(r) \/ RunFails(r) \/ SyncSaved(r)
             \/ \E clean \in BOOLEAN : ScanCompletes(r, clean)
      PROVE  statusOnConnect' = NoStatus
  BY <1>5 DEF Zapped, WaitEnds, RunFails, SyncSaved, ScanCompletes
<1> QED
  BY <1>1, <1>2, <1>3, <1>4, <1>5 DEF Next

\* A drop keeps the status of the scan it cuts off, which is not 'synced'.
LEMMA DropGated ==
  ASSUME TypeOK, OneScan, Gated, Drop
  PROVE  Gated'
<1> USE DEF Drop, TypeOK, ScanTypes, OneScan, Gated, Scanning
<1>1. status' # "synced"
  BY DEF ConnectionStatus
<1>2. CASE scanAbort = NoRun
  BY <1>1, <1>2, ConstantsAssumption
<1>3. CASE scanAbort # NoRun
  <2>1. run[scanAbort] = "scanning" /\ scanAbort \in Runs
    BY <1>3
  <2>2. status # "synced" /\ statusOnConnect # "synced"
    BY <2>1
  <2> QED
    BY <1>1, <1>3, <2>1, <2>2
<1> QED
  BY <1>2, <1>3

\* Whatever shows 'synced' ends a scan, restores what was kept, or asks first
\* whether a scan is in flight; and an open begins its scan without it.
LEMMA GateInvStep ==
  TypeOK /\ BudgetInv /\ OpeningInv /\ OneScan /\ GateInv /\ [Next]_vars =>
  GateInv'
<1> SUFFICES ASSUME TypeOK, BudgetInv, OpeningInv, OneScan, GateInv,
                    [Next]_vars, Unspent("rescan")', ~closing'
             PROVE  Gated'
  BY NothingKept DEF GateInv
<1>1. Unspent("rescan") /\ ~Spend("rescan")
  BY UnspentBefore DEF TypeOK, Events
<1>2. ~closing => Gated
  BY <1>1 DEF GateInv
<1> USE DEF linkVars, scanVars
<1>3. CASE (NodeAnswers \/ PassFails) /\ opening = "connecting"
  <2>1. /\ \A r \in Runs : run[r] = "idle"
        /\ statusOnConnect = NoStatus /\ ~closing /\ ~connected
    BY <1>3 DEF OpeningInv, GateInv, NodeAnswers, PassFails
  <2>2. CASE recorded
    BY <1>3, <2>1, <2>2 DEF NodeAnswers, PassFails, FinishOpen, Gated,
       Scanning
  <2>3. CASE ~recorded
    <3>1. status' # "synced" /\ statusOnConnect' = NoStatus
      BY <1>3, <2>1, <2>3 DEF NodeAnswers, PassFails, FinishOpen,
         StatusOnAnswer, ConnectionStatus
    <3>2. \A r \in Runs : run'[r] # "zapping"
      BY <1>3, <2>1, <2>3 DEF NodeAnswers, PassFails, FinishOpen, BeginScan,
         TypeOK, ScanTypes
    <3> QED
      BY <3>1, <3>2 DEF Gated, NoStatus
  <2> QED
    BY <2>2, <2>3
<1>4. CASE \/ (NodeAnswers \/ PassFails) /\ opening # "connecting"
           \/ LateAnswer
  BY <1>2, <1>4 DEF NodeAnswers, PassFails, LateAnswer, StatusOnAnswer,
     ConnectionStatus, NoStatus, Gated, Scanning
<1>5. CASE Drop
  BY <1>2, <1>5, DropGated DEF Drop, HasWallet
<1>6. CASE WalletLoaded \/ LoadFails \/ PassThrows \/ PassStops
           \/ ReconnectTimer \/ ScanProgress \/ ZombieStops
           \/ NavcoinSyncSaved \/ UNCHANGED vars
  BY <1>2, <1>6 DEF WalletLoaded, LoadFails, PassThrows, PassStops,
     ReconnectTimer, ScanProgress, ZombieStops, NavcoinSyncSaved, SetError,
     ConnectionStatus, vars, Gated, Scanning
<1>7. CASE NavcoinSyncFinished
  BY <1>2, <1>7 DEF NavcoinSyncFinished, HasWallet, OneScan, Gated, Scanning
<1>8. CASE Restart
  BY <1>8 DEF Restart, Gated, Scanning, NoStatus
<1>9. CASE RequestRescan \/ Close
  BY <1>1, <1>9 DEF RequestRescan, Close
<1>10. ASSUME NEW r \in Runs, Zapped(r) \/ WaitEnds(r)
       PROVE  Gated'
  BY <1>2, <1>10 DEF Zapped, WaitEnds, BeginScan, EndRun, TypeOK, ScanTypes,
     Gated, Scanning
<1>11. ASSUME NEW r \in Runs, RunFails(r) \/ SyncSaved(r)
       PROVE  Gated'
  BY <1>2, <1>11 DEF RunFails, SyncSaved, SetError, EndRun, TypeOK,
     ScanTypes, Gated, Scanning
<1>12. ASSUME NEW r \in Runs, NEW clean \in BOOLEAN, ScanCompletes(r, clean)
       PROVE  Gated'
  BY <1>2, <1>12 DEF ScanCompletes, OneScan, TypeOK, ScanTypes, Gated,
     Scanning
<1> QED
  BY <1>3, <1>4, <1>5, <1>6, <1>7, <1>8, <1>9, <1>10, <1>11, <1>12 DEF Next

-----------------------------------------------------------------------------
(* Who reports.                                                            *)

\* A scan's own progress is the only source of 'syncing' before any drop.
LEMMA ReportingStep ==
  ASSUME TypeOK, [Next]_vars, ~Spend("drop"), ~closing', ~closing => Reporting
  PROVE  Reporting'
<1> USE DEF linkVars, scanVars, Reporting, NoStatus
<1>1. CASE NodeAnswers \/ LateAnswer \/ PassFails
  BY <1>1 DEF NodeAnswers, LateAnswer, PassFails, FinishOpen, StatusOnAnswer,
     ConnectionStatus
<1>2. CASE WalletLoaded \/ LoadFails \/ PassThrows \/ PassStops
           \/ ReconnectTimer \/ Restart
  BY <1>2 DEF WalletLoaded, LoadFails, PassThrows, PassStops, ReconnectTimer,
     Restart, SetError, ConnectionStatus
<1>3. CASE RequestRescan
  BY <1>3 DEF RequestRescan, HasWallet, ScanBusyStates
<1>4. CASE ScanProgress \/ ZombieStops \/ NavcoinSyncFinished
           \/ NavcoinSyncSaved \/ UNCHANGED vars
  BY <1>4 DEF ScanProgress, ZombieStops, NavcoinSyncFinished,
     NavcoinSyncSaved, vars
<1>5. CASE Drop \/ Close
  BY <1>5 DEF Drop, Close
<1>6. ASSUME NEW r \in Runs, Zapped(r) \/ WaitEnds(r) \/ SyncSaved(r)
      PROVE  Reporting'
  BY <1>6 DEF Zapped, WaitEnds, SyncSaved, BeginScan, EndRun, TypeOK,
     ScanTypes
<1>7. ASSUME NEW r \in Runs,
             RunFails(r) \/ \E clean \in BOOLEAN : ScanCompletes(r, clean)
      PROVE  Reporting'
  BY <1>7 DEF RunFails, ScanCompletes, SetError
<1> QED
  BY <1>1, <1>2, <1>3, <1>4, <1>5, <1>6, <1>7 DEF Next

\* Only a sync that navcoin-js reports waits to be saved outside of a scan.
LEMMA MarkingStep ==
  ASSUME OneScan, [Next]_vars, ~Spend("navSync"), ~marking
  PROVE  ~marking'
<1>1. CASE \/ WalletLoaded \/ LoadFails \/ NodeAnswers \/ LateAnswer
           \/ PassFails \/ PassThrows \/ PassStops
  BY <1>1 DEF WalletLoaded, LoadFails, NodeAnswers, LateAnswer, PassFails,
     PassThrows, PassStops
<1>2. CASE \/ Drop \/ ReconnectTimer \/ RequestRescan \/ ScanProgress
           \/ ZombieStops \/ NavcoinSyncFinished \/ NavcoinSyncSaved
           \/ Close \/ Restart \/ UNCHANGED vars
  BY <1>2 DEF Drop, ReconnectTimer, RequestRescan, ScanProgress, ZombieStops,
     NavcoinSyncFinished, NavcoinSyncSaved, Close, Restart, vars
<1>3. ASSUME NEW r \in Runs,
             Zapped(r) \/ WaitEnds(r) \/ RunFails(r) \/ SyncSaved(r)
      PROVE  ~marking'
  BY <1>3 DEF Zapped, WaitEnds, RunFails, SyncSaved
<1>4. ASSUME NEW r \in Runs, NEW clean \in BOOLEAN, ScanCompletes(r, clean)
      PROVE  ~marking'
  BY <1>4 DEF ScanCompletes, OneScan
<1> QED
  BY <1>1, <1>2, <1>3, <1>4 DEF Next

\* Both, as long as no such event has happened.
LEMMA ReportInvStep ==
  TypeOK /\ BudgetInv /\ OneScan /\ ReportInv /\ [Next]_vars => ReportInv'
<1> SUFFICES ASSUME TypeOK, BudgetInv, OneScan, ReportInv, [Next]_vars
             PROVE  ReportInv'
  OBVIOUS
<1>1. ASSUME Unspent("drop")', ~closing' PROVE Reporting'
  <2>1. Unspent("drop") /\ ~Spend("drop")
    BY <1>1, UnspentBefore DEF TypeOK, Events
  <2> QED
    BY <1>1, <2>1, ReportingStep DEF ReportInv
<1>2. ASSUME Unspent("navSync")' PROVE ~marking'
  <2>1. Unspent("navSync") /\ ~Spend("navSync")
    BY <1>2, UnspentBefore DEF TypeOK, Events
  <2> QED
    BY <2>1, MarkingStep DEF ReportInv
<1> QED
  BY <1>1, <1>2 DEF ReportInv

-----------------------------------------------------------------------------
(* The invariant, and what follows from it.                                *)

\* A source whose wallet is about to be loaded satisfies it.
LEMMA InitIInv == Init => IInv
<1> SUFFICES ASSUME Init PROVE IInv
  OBVIOUS
<1> USE ConstantsAssumption DEF Init
<1>1. TypeOK
  BY DEF TypeOK, FieldTypes, FlagTypes, ScanTypes
<1>2. BudgetInv
  BY DEF BudgetInv
<1>3. OneScan /\ ScanHasConnection
  BY DEF OneScan, ScanHasConnection
<1>4. OpeningInv /\ LinkInv
  BY DEF OpeningInv, LinkInv, OneWayBack
<1>5. StatusInv /\ TrustInv /\ FirstScanOwed
  BY DEF StatusInv, TrustInv, Trusted, FirstScanOwed
<1>6. GateInv /\ ReportInv
  BY DEF GateInv, Gated, Scanning, ReportInv, Reporting
<1> QED
  BY <1>1, <1>2, <1>3, <1>4, <1>5, <1>6 DEF IInv

\* Every step keeps it.
LEMMA NextIInv == IInv /\ [Next]_vars => IInv'
<1> SUFFICES ASSUME IInv, [Next]_vars PROVE IInv'
  OBVIOUS
<1>1. TypeOK'
  BY FieldTypesStep, FlagTypesStep, ScanTypesStep, BudgetStep DEF IInv, TypeOK
<1>2. BudgetInv'
  BY BudgetStep DEF IInv, TypeOK
<1>3. OpeningInv' /\ LinkInv'
  BY OpeningInvStep, LinkInvStep DEF IInv
<1>4. OneScan' /\ ScanHasConnection'
  BY OneScanStep, ScanHasConnectionStep DEF IInv
<1>5. StatusInv' /\ TrustInv' /\ FirstScanOwed'
  BY StatusInvStep, TrustInvStep, FirstScanOwedStep DEF IInv
<1>6. GateInv' /\ ReportInv'
  BY GateInvStep, ReportInvStep DEF IInv
<1> QED
  BY <1>1, <1>2, <1>3, <1>4, <1>5, <1>6 DEF IInv

\* So it holds in every reachable state.
LEMMA Invariant == Spec => []IInv
  BY InitIInv, NextIInv, PTL DEF Spec

\* TypeOK: the state object's fields, and the continuations that wait, have
\* the values the code can give them.
THEOREM TypeCorrect == Spec => []TypeOK
<1>1. IInv => TypeOK
  BY DEF IInv
<1> QED
  BY <1>1, Invariant, PTL

\* OneScan: through any number of opens, rescans, drops, closes and failures
\* a source never has a second runScan, rescanInFlight never outlives or
\* misses the one it has, and scanAbort always aborts the scan that runs.
THEOREM OneScanHolds == Spec => []OneScan
<1>1. IInv => OneScan
  BY DEF IInv
<1> QED
  BY <1>1, Invariant, PTL

\* ScanHasConnection: only a scan whose connection never dropped, of a source
\* nobody closed, can come to its end and be believed.
THEOREM ScanHasConnectionHolds == Spec => []ScanHasConnection
<1>1. IInv => ScanHasConnection
  BY DEF IInv
<1> QED
  BY <1>1, Invariant, PTL

\* OneWayBack: an open source without a connection has a reconnect timer or a
\* pass over its nodes and never both, unless Connect() has thrown.
THEOREM OneWayBackHolds == Spec => []OneWayBack
<1>1. IInv => OneWayBack
  BY DEF IInv, LinkInv
<1> QED
  BY <1>1, Invariant, PTL

\* NotStuckAtConnected: 'connected' is only ever shown on behalf of a scan.
THEOREM NotStuckHolds == Spec => []NotStuckAtConnected
<1>1. IInv => NotStuckAtConnected
  BY DEF IInv, StatusInv, OneScan, NotStuckAtConnected
<1> QED
  BY <1>1, Invariant, PTL

\* FirstScanTrusted: with no rescan, no sync of navcoin-js's own and every
\* lookup answered, whatever a sweep accepts, or the next start will not scan,
\* has been scanned whole.
THEOREM FirstScanTrustedHolds == Spec => []FirstScanTrusted
<1>1. IInv => FirstScanTrusted
  BY DEF IInv, TrustInv, Trusted, FirstScanTrusted, Sweepable
<1> QED
  BY <1>1, Invariant, PTL

\* FirstScanOwed: an open source that nobody closed has its first scan
\* recorded or under way, or shows an error, unless that record could not be
\* written.
THEOREM FirstScanOwedHolds == Spec => []FirstScanOwed
<1>1. IInv => FirstScanOwed
  BY DEF IInv
<1> QED
  BY <1>1, Invariant, PTL

\* SweepAwaitsScan: until a rescan is asked for, a sweep is not accepted from a
\* source whose scan is waiting or running.
THEOREM SweepAwaitsScanHolds == Spec => []SweepAwaitsScan
<1>1. IInv => SweepAwaitsScan
  BY DEF IInv, GateInv, Gated, SweepAwaitsScan, Sweepable
<1> QED
  BY <1>1, Invariant, PTL

\* NotStuckAtSyncing, which the code does not keep (the counterexample is a
\* scan that a drop cut off and that reports late), is kept until a connection
\* drops: nothing else leaves a source at 'syncing'.
THEOREM OnlyDropsStickAtSyncing ==
  Spec => [](Unspent("drop") => NotStuckAtSyncing)
<1>1. IInv => (Unspent("drop") => NotStuckAtSyncing)
  BY DEF IInv, ReportInv, Reporting, NotStuckAtSyncing, OneScan
<1> QED
  BY <1>1, Invariant, PTL

\* What NotRecordedMidScan says of a step.
RecordsAtTheEnd ==
  \A r \in Runs : Scanning(r) /\ run'[r] = run[r] => recorded' = recorded

\* NotRecordedMidScan, which the code does not keep either, is kept as long as
\* navcoin-js has reported no sync of its own: no source is recorded as synced
\* by anything else while a scan of it runs.
THEOREM OnlyNavcoinRecordsMidScan ==
  Spec => [][Unspent("navSync") => RecordsAtTheEnd]_vars
<1>1. ASSUME IInv, Next, Unspent("navSync"), NEW r \in Runs, Scanning(r),
             run'[r] = run[r]
      PROVE  recorded' = recorded
  <2> USE <1>1 DEF diskVars
  <2>1. ~marking /\ \A q \in Runs : run[q] # "idle" => q = r
    BY DEF IInv, ReportInv, OneScan, Scanning
  <2>2. CASE \/ WalletLoaded \/ LoadFails \/ NodeAnswers \/ LateAnswer
             \/ PassFails \/ PassThrows \/ PassStops \/ Drop
    BY <2>2 DEF WalletLoaded, LoadFails, NodeAnswers, LateAnswer, PassFails,
       PassThrows, PassStops, Drop
  <2>3. CASE \/ ReconnectTimer \/ RequestRescan \/ ScanProgress
             \/ ZombieStops \/ NavcoinSyncFinished \/ Close \/ Restart
    BY <2>3 DEF ReconnectTimer, RequestRescan, ScanProgress, ZombieStops,
       NavcoinSyncFinished, Close, Restart
  <2>4. CASE NavcoinSyncSaved
    BY <2>1, <2>4 DEF NavcoinSyncSaved
  <2>5. ASSUME NEW q \in Runs,
               \/ Zapped(q) \/ WaitEnds(q) \/ RunFails(q)
               \/ \E clean \in BOOLEAN : ScanCompletes(q, clean)
        PROVE  recorded' = recorded
    BY <2>5 DEF Zapped, WaitEnds, RunFails, ScanCompletes
  <2>6. ASSUME NEW q \in Runs, SyncSaved(q) PROVE FALSE
    BY <2>1, <2>6 DEF SyncSaved, Scanning
  <2> QED
    BY <2>2, <2>3, <2>4, <2>5, <2>6 DEF Next
<1>2. IInv /\ [Next]_vars => [Unspent("navSync") => RecordsAtTheEnd]_vars
  BY <1>1 DEF RecordsAtTheEnd
<1> QED
  BY <1>2, Invariant, PTL DEF Spec

-----------------------------------------------------------------------------
(* A closed source.                                                        *)


\* What ClosedStaysQuiet says of a step.
StaysQuiet ==
  closing /\ closing' =>
    /\ timer' = "none"
    /\ pass' => pass
    /\ \A r \in Runs : run'[r] \in {run[r], "idle"}

\* Nothing that is still waiting in the event loop of a closed source starts
\* anything: each continuation looks at closing.
LEMMA QuietStep ==
  TypeOK /\ ScanHasConnection /\ LinkInv /\ [Next]_vars => StaysQuiet
<1> SUFFICES ASSUME TypeOK, ScanHasConnection, LinkInv, [Next]_vars PROVE
             StaysQuiet
  OBVIOUS
<1> USE DEF TypeOK, ScanTypes, FlagTypes, ScanHasConnection, LinkInv,
          StaysQuiet, linkVars, scanVars
<1>1. CASE WalletLoaded
  BY <1>1 DEF WalletLoaded
<1>2. CASE NodeAnswers
  BY <1>2 DEF NodeAnswers
<1>3. CASE PassFails
  BY <1>3 DEF PassFails
<1>4. CASE Drop
  BY <1>4 DEF Drop, HasWallet
<1>5. CASE ReconnectTimer
  BY <1>5 DEF ReconnectTimer, HasWallet
<1>6. CASE RequestRescan
  BY <1>6 DEF RequestRescan, HasWallet
<1>7. ASSUME NEW r \in Runs, Zapped(r) PROVE StaysQuiet
  BY <1>7 DEF Zapped, EndRun
<1>8. ASSUME NEW r \in Runs, WaitEnds(r) PROVE StaysQuiet
  BY <1>8 DEF WaitEnds, EndRun
<1>9. ASSUME NEW r \in Runs, RunFails(r) PROVE StaysQuiet
  BY <1>9 DEF RunFails, EndRun
<1>10. ASSUME NEW r \in Runs, SyncSaved(r) PROVE StaysQuiet
  BY <1>10 DEF SyncSaved, EndRun
<1>11. ASSUME NEW r \in Runs, NEW clean \in BOOLEAN, ScanCompletes(r, clean)
       PROVE  StaysQuiet
  BY <1>11 DEF ScanCompletes
<1>12. CASE Close
  BY <1>12 DEF Close, EndRun
<1>13. CASE Restart
  BY <1>13 DEF Restart
<1>14. CASE LoadFails \/ LateAnswer \/ PassThrows \/ PassStops \/ ScanProgress
          \/ ZombieStops \/ NavcoinSyncFinished \/ NavcoinSyncSaved \/
          UNCHANGED vars
  BY <1>14 DEF LoadFails, LateAnswer, PassThrows, PassStops, ScanProgress,
     ZombieStops, NavcoinSyncFinished, NavcoinSyncSaved, vars
<1> QED
  BY <1>1, <1>2, <1>3, <1>4, <1>5, <1>6, <1>7, <1>8, <1>9, <1>10, <1>11,
     <1>12, <1>13, <1>14 DEF Next

\* ClosedStaysQuiet: once closeSourceWallet has run, no timer is armed, no
\* pass begins and no runScan advances.
THEOREM ClosedStaysQuietHolds == Spec => ClosedStaysQuiet
<1>1. IInv /\ [Next]_vars => [StaysQuiet]_vars
  BY QuietStep DEF IInv
<1> QED
  BY <1>1, Invariant, PTL DEF Spec, ClosedStaysQuiet, StaysQuiet

-----------------------------------------------------------------------------
(* The source implements its connection.                                   *)

LinkStep == UNCHANGED LinkState \/ Link!Next

\* Every step is a step of NodeLink on LinkState, or leaves LinkState as it
\* is.
LEMMA LinkStepStep ==
  TypeOK /\ OpeningInv /\ LinkInv /\ [Next]_vars => LinkStep
<1> SUFFICES ASSUME TypeOK, OpeningInv, LinkInv, [Next]_vars PROVE LinkStep
  OBVIOUS
<1> USE DEF TypeOK, FieldTypes, FlagTypes, OpeningInv, LinkInv, OneWayBack,
          LinkState, LinkStep, Link!Next, Link!Try, Link!Answer, Link!Lose,
          Link!GiveUp, Link!Close, Link!Restart, linkVars
<1>1. CASE WalletLoaded
  BY <1>1 DEF WalletLoaded
<1>2. CASE LoadFails
  BY <1>2 DEF LoadFails, SetError
<1>3. CASE NodeAnswers
  BY <1>3 DEF NodeAnswers, FinishOpen
<1>4. CASE LateAnswer
  BY <1>4 DEF LateAnswer
<1>5. CASE PassFails
  BY <1>5 DEF PassFails, FinishOpen, ScheduleReconnect
<1>6. CASE PassThrows
  BY <1>6 DEF PassThrows, SetError
<1>7. CASE PassStops
  BY <1>7 DEF PassStops
<1>8. CASE Drop
  BY <1>8 DEF Drop, ScheduleReconnect, HasWallet
<1>9. CASE ReconnectTimer
  BY <1>9 DEF ReconnectTimer, HasWallet
<1>10. CASE Close
  BY <1>10 DEF Close
<1>11. CASE Restart
  BY <1>11 DEF Restart
<1>12. CASE RequestRescan \/ ScanProgress \/ ZombieStops \/
          NavcoinSyncFinished \/ NavcoinSyncSaved \/ UNCHANGED vars
  BY <1>12 DEF RequestRescan, ScanProgress, ZombieStops, NavcoinSyncFinished,
     NavcoinSyncSaved, vars
<1>13. ASSUME NEW r \in Runs, NEW clean \in BOOLEAN, Zapped(r) \/ WaitEnds(r)
            \/ RunFails(r) \/ SyncSaved(r) \/ ScanCompletes(r, clean)
       PROVE  LinkStep
  BY <1>13 DEF Zapped, WaitEnds, RunFails, SetError, SyncSaved, ScanCompletes
<1> QED
  BY <1>1, <1>2, <1>3, <1>4, <1>5, <1>6, <1>7, <1>8, <1>9, <1>10, <1>11,
     <1>12, <1>13 DEF Next

\* The safety part of ImplementsLink: seen as its connection alone, a source
\* is always loading, trying, waiting to try, connected, given up or gone, and
\* goes from one to the next only as NodeLink says.
THEOREM LinkRefined == Spec => Link!Spec
<1>1. Init => Link!Init
  BY DEF Init, Link!Init, LinkState
<1>2. IInv /\ [Next]_vars => [Link!Next]_LinkState
  BY LinkStepStep DEF IInv, LinkStep
<1> QED
  BY <1>1, <1>2, Invariant, PTL DEF Spec, Link!Spec
=============================================================================
