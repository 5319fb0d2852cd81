----------------------------- MODULE SourceSync -----------------------------
(***************************************************************************)
(* One imported source as src/src/wallet-manager.js runs it: opening its   *)
(* wallet, finding an electrum node and failing over when one drops, the   *)
(* scan that rebuilds the wallet from the chain, rescans on request, the   *)
(* connect-time sync of navcoin-js, closing, and a restart of the daemon.  *)
(*                                                                         *)
(* The daemon is one Node.js thread, so an action is one macro-task: an    *)
(* event, a timer or an answer, with every promise continuation that       *)
(* follows without waiting for another one.  Continuations that wait (for  *)
(* the database, the network or a file) are actions of their own.          *)
(*                                                                         *)
(* A wallet's nodes are one here: a pass over the list either gets an      *)
(* answer or does not.                                                     *)
(***************************************************************************)
EXTENDS Naturals, FiniteSets

CONSTANTS
  Runs,      \* identities of invocations of runScan
  NoRun,     \* scanAbort when no scan is running
  Budget     \* how often each event of the environment may happen

\* What the environment does: a live connection drops, the user asks for a
\* rescan, the daemon dies or is restarted, navcoin-js reports its own sync,
\* a lookup of a scan is answered by an error, a scan or a wipe throws, the
\* wallet does not load, Connect() throws, the registry cannot be written.
Events == {"drop", "rescan", "restart", "navSync", "lookupFail", "scanFail",
           "openFail", "connectThrow", "writeFail"}

ASSUME ConstantsAssumption ==
  /\ Runs # {} /\ NoRun \notin Runs
  /\ Budget \in [Events -> Nat]

VARIABLES
  (* on disk *)
  recorded,         \* sources.json has a lastSyncedAt for the source
  whole,            \* what the database holds is the result of a scan that
                    \* looked everything up (observed, not a field of the code)
  (* fields of the source's state object *)
  opening,          \* where the body of openSourceWallet is
  status,           \* syncStatus
  error,            \* error is set
  connected,
  statusOnConnect,
  timer,            \* reconnectTimer, with the nextNode it was armed with
  pass,             \* connectPromise is set: a pass over the nodes is running
  rescanInFlight,
  scanAbort,        \* whose AbortController state.scanAbort is
  closing,
  (* continuations waiting in the event loop *)
  run,              \* where each runScan is
  zombie,           \* an abandoned rescueScan has not stopped yet
  marking,          \* a finishSync of the sync_finished handler is waiting
  (* the environment *)
  left

diskVars == <<recorded, whole>>
linkVars == <<connected, statusOnConnect, timer, pass>>
scanVars == <<rescanInFlight, scanAbort, run, zombie>>
vars == <<diskVars, opening, status, error, linkVars, scanVars, closing,
          marking, left>>

Statuses == {"opening", "connecting", "connected", "syncing", "synced",
             "no-servers", "error"}
NoStatus == "none"
Openings == {"loading", "connecting", "open", "failed", "noDb"}
Timers == {"none", "next", "same"}
RunStates == {"idle", "zapping", "waiting", "scanning", "saving"}
ScanBusyStates == {"opening", "connecting", "connected", "syncing"}

HasWallet == opening # "noDb" /\ ~closing
Spend(e) == left[e] > 0 /\ left' = [left EXCEPT ![e] = @ - 1]

-----------------------------------------------------------------------------
Init ==
  /\ opening = "loading"
  /\ status = "opening"
  /\ error = FALSE
  /\ connected = FALSE
  /\ statusOnConnect = NoStatus
  /\ timer = "none"
  /\ pass = FALSE
  /\ rescanInFlight = FALSE
  /\ scanAbort = NoRun
  /\ closing = FALSE
  /\ run = [r \in Runs |-> "idle"]
  /\ zombie = FALSE
  /\ marking = FALSE
  /\ recorded = FALSE
  /\ whole = FALSE
  /\ left = Budget

-----------------------------------------------------------------------------
(* setConnectionStatus, scheduleReconnect and the effect of an error.      *)

ConnectionStatus(s) == IF status = "error" THEN "error" ELSE s

ScheduleReconnect(kind) ==
  timer' = IF closing \/ timer # "none" THEN timer ELSE kind

SetError ==
  /\ status' = "error"
  /\ error' = TRUE

\* runScan's loop head: scan at once when there is a connection, else poll
\* for one.
BeginScan(r) ==
  /\ run' = [run EXCEPT ![r] = IF connected' THEN "scanning" ELSE "waiting"]
  /\ scanAbort' = IF connected' THEN r ELSE scanAbort

\* The tail of openSourceWallet once its first pass over the nodes is done.
\* `shown` is the status the pass itself left.
FinishOpen(shown) ==
  /\ opening' = "open"
  /\ IF recorded
     THEN /\ status' = IF connected' THEN "synced" ELSE shown
          /\ statusOnConnect' = IF connected' THEN NoStatus ELSE "synced"
          /\ UNCHANGED <<rescanInFlight, run, scanAbort>>
     ELSE /\ status' = shown
          /\ statusOnConnect' = IF connected' THEN NoStatus
                                             ELSE statusOnConnect
          /\ rescanInFlight' = TRUE
          /\ \E r \in Runs : run[r] = "idle" /\ BeginScan(r)

-----------------------------------------------------------------------------
(* Opening the wallet and finding a node.                                  *)

\* Load, prune, configure, seed refresh; then connectSource starts a pass.
\* Closed meanwhile, the pass finds no wallet and the open ends in its catch.
WalletLoaded ==
  /\ opening = "loading"
  /\ IF closing
     THEN SetError /\ opening' = "failed" /\ UNCHANGED pass
     ELSE /\ opening' = "connecting"
          /\ pass' = TRUE
          /\ status' = ConnectionStatus("connecting")
          /\ UNCHANGED error
  /\ UNCHANGED <<diskVars, connected, statusOnConnect, timer, scanVars,
                 closing, marking, left>>

\* Load or what follows it throws; a db_load_error also drops the wallet.
LoadFails ==
  /\ opening = "loading"
  /\ Spend("openFail")
  /\ SetError
  /\ opening' \in IF closing THEN {"failed"} ELSE {"failed", "noDb"}
  /\ UNCHANGED <<diskVars, linkVars, scanVars, closing, marking>>

\* The 'connected' handler's status, shown once a node answers.
StatusOnAnswer ==
  ConnectionStatus(IF statusOnConnect = NoStatus THEN "connected"
                                                 ELSE statusOnConnect)

\* A node answers while a pass is running: the handler, the end of the pass
\* and, on the first one, the rest of openSourceWallet.  (Closing retires the
\* client, and nothing a retired client does reaches the wallet.)
NodeAnswers ==
  /\ pass /\ ~closing
  /\ connected' = TRUE
  /\ pass' = FALSE
  /\ IF opening = "connecting"
     THEN FinishOpen(StatusOnAnswer)
     ELSE /\ status' = StatusOnAnswer
          /\ statusOnConnect' = NoStatus
          /\ UNCHANGED <<opening, rescanInFlight, run, scanAbort>>
  /\ UNCHANGED <<diskVars, error, timer, zombie, closing, marking, left>>

\* The answer comes after the last attempt was given up, or to a Connect()
\* of navcoin-js's own: the handler alone.
LateAnswer ==
  /\ opening = "open" /\ ~pass /\ ~connected /\ ~closing
  /\ connected' = TRUE
  /\ status' = StatusOnAnswer
  /\ statusOnConnect' = NoStatus
  /\ UNCHANGED <<diskVars, opening, error, timer, pass, scanVars, closing,
                 marking, left>>

\* Mutant: a pass that failed does not schedule the next one.
PassFailsForGood ==
  /\ pass /\ ~closing
  /\ pass' = FALSE
  /\ UNCHANGED <<connected, timer>>
  /\ IF opening = "connecting"
     THEN FinishOpen(ConnectionStatus("no-servers"))
     ELSE /\ status' = ConnectionStatus("no-servers")
          /\ UNCHANGED <<opening, statusOnConnect, rescanInFlight, run,
                         scanAbort>>
  /\ UNCHANGED <<diskVars, error, zombie, closing, marking, left>>

\* Every node failed: 'no-servers' and another pass in ten seconds.
PassFails ==
  /\ pass /\ ~closing
  /\ pass' = FALSE
  /\ ScheduleReconnect("same")
  /\ UNCHANGED connected
  /\ IF opening = "connecting"
     THEN FinishOpen(ConnectionStatus("no-servers"))
     ELSE /\ status' = ConnectionStatus("no-servers")
          /\ UNCHANGED <<opening, statusOnConnect, rescanInFlight, run,
                         scanAbort>>
  /\ UNCHANGED <<diskVars, error, zombie, closing, marking, left>>

\* Connect() throws or rejects: the open's catch, or the timer's.
PassThrows ==
  /\ pass
  /\ Spend("connectThrow")
  /\ pass' = FALSE
  /\ opening' = IF opening = "connecting" THEN "failed" ELSE opening
  /\ IF closing /\ opening # "connecting" THEN UNCHANGED <<status, error>>
                                          ELSE SetError
  /\ UNCHANGED <<diskVars, connected, statusOnConnect, timer, scanVars,
                 closing, marking>>

\* shouldStop: the pass of a closed source ends without another attempt, and
\* the runScan an open would start returns at once.
PassStops ==
  /\ pass /\ closing
  /\ pass' = FALSE
  /\ opening' = IF opening = "connecting" THEN "open" ELSE opening
  /\ UNCHANGED <<diskVars, status, error, connected, statusOnConnect, timer,
                 scanVars, closing, marking, left>>

\* Mutant: the drop forgets what the source was doing.
DropForgetsStatus ==
  /\ connected /\ HasWallet
  /\ Spend("drop")
  /\ connected' = FALSE
  /\ status' = ConnectionStatus("connecting")
  /\ ScheduleReconnect("next")
  /\ IF scanAbort = NoRun
     THEN UNCHANGED <<run, scanAbort, zombie>>
     ELSE /\ run' = [run EXCEPT ![scanAbort] = "waiting"]
          /\ scanAbort' = NoRun
          /\ zombie' = TRUE
  /\ UNCHANGED <<diskVars, opening, error, statusOnConnect, pass,
                 rescanInFlight, closing, marking>>

\* A live connection goes away.  The scan running on it is aborted and goes
\* back to waiting; what it still has on the way makes it a zombie.
Drop ==
  /\ connected /\ HasWallet
  /\ Spend("drop")
  /\ connected' = FALSE
  /\ statusOnConnect' = IF statusOnConnect = NoStatus THEN status
                                                      ELSE statusOnConnect
  /\ status' = ConnectionStatus("connecting")
  /\ ScheduleReconnect("next")
  /\ IF scanAbort = NoRun
     THEN UNCHANGED <<run, scanAbort, zombie>>
     ELSE /\ run' = [run EXCEPT ![scanAbort] = "waiting"]
          /\ scanAbort' = NoRun
          /\ zombie' = TRUE
  /\ UNCHANGED <<diskVars, opening, error, pass, rescanInFlight, closing,
                 marking>>

\* Mutant: the timer that fired is not cleared.
ReconnectTimerStays ==
  /\ timer # "none"
  /\ UNCHANGED timer
  /\ IF closing \/ ~HasWallet \/ connected \/ pass
     THEN UNCHANGED <<pass, status>>
     ELSE /\ pass' = TRUE
          /\ status' = ConnectionStatus("connecting")
  /\ UNCHANGED <<diskVars, opening, error, connected, statusOnConnect,
                 scanVars, closing, marking, left>>

ReconnectTimer ==
  /\ timer # "none"
  /\ timer' = "none"
  /\ IF closing \/ ~HasWallet \/ connected \/ pass
     THEN UNCHANGED <<pass, status>>
     ELSE /\ pass' = TRUE
          /\ status' = ConnectionStatus("connecting")
  /\ UNCHANGED <<diskVars, opening, error, connected, statusOnConnect,
                 scanVars, closing, marking, left>>

-----------------------------------------------------------------------------
(* Scans.                                                                  *)

\* Mutant: a rescan does not ask whether a scan is in flight.
RequestRescanTwice ==
  /\ HasWallet
  /\ status \notin ScanBusyStates
  /\ Spend("rescan")
  /\ rescanInFlight' = TRUE
  /\ whole' = FALSE
  /\ \E r \in Runs : /\ run[r] = "idle"
                     /\ run' = [run EXCEPT ![r] = "zapping"]
  /\ UNCHANGED <<recorded, opening, status, error, linkVars, scanAbort,
                 zombie, closing, marking>>

\* This source's part of rescanAllSources, up to runFreshRescan's first wait:
\* the wipe of the database has begun.
RequestRescan ==
  /\ HasWallet
  /\ ~rescanInFlight
  /\ status \notin ScanBusyStates
  /\ Spend("rescan")
  /\ rescanInFlight' = TRUE
  /\ whole' = FALSE
  /\ \E r \in Runs : /\ run[r] = "idle"
                     /\ run' = [run EXCEPT ![r] = "zapping"]
  /\ UNCHANGED <<recorded, opening, status, error, linkVars, scanAbort,
                 zombie, closing, marking>>

\* A runScan returns or throws; what its caller's finally does.
EndRun(r) ==
  /\ run' = [run EXCEPT ![r] = "idle"]
  /\ scanAbort' = IF scanAbort = r THEN NoRun ELSE scanAbort
  /\ rescanInFlight' = FALSE

Zapped(r) ==
  /\ run[r] = "zapping"
  /\ IF closing
     THEN EndRun(r) /\ UNCHANGED connected
     ELSE UNCHANGED <<connected, rescanInFlight>> /\ BeginScan(r)
  /\ UNCHANGED <<diskVars, opening, status, error, statusOnConnect, timer,
                 pass, zombie, closing, marking, left>>

\* Mutant: the poll looks for a connection only, never at closing.
WaitEndsConnected(r) ==
  /\ run[r] = "waiting"
  /\ connected /\ ~closing
  /\ UNCHANGED <<connected, rescanInFlight>>
  /\ BeginScan(r)
  /\ UNCHANGED <<diskVars, opening, status, error, statusOnConnect, timer,
                 pass, zombie, closing, marking, left>>

\* waitForConnected's poll finds a connection, or that there will be none.
WaitEnds(r) ==
  /\ run[r] = "waiting"
  /\ connected \/ closing
  /\ IF closing
     THEN EndRun(r) /\ UNCHANGED connected
     ELSE UNCHANGED <<connected, rescanInFlight>> /\ BeginScan(r)
  /\ UNCHANGED <<diskVars, opening, status, error, statusOnConnect, timer,
                 pass, zombie, closing, marking, left>>

\* utxo_phase and scripthash_progress events of the running scan, or of one
\* abandoned that has not noticed yet.
ScanProgress ==
  /\ zombie \/ \E r \in Runs : run[r] = "scanning"
  /\ status' = "syncing"
  /\ UNCHANGED <<diskVars, opening, error, linkVars, scanVars, closing,
                 marking, left>>

ZombieStops ==
  /\ zombie
  /\ zombie' = FALSE
  /\ UNCHANGED <<diskVars, opening, status, error, linkVars, rescanInFlight,
                 scanAbort, run, closing, marking, left>>

\* Mutant: a scan that throws is taken for one that ended.
RunFailsFinished(r) ==
  /\ run[r] = "scanning"
  /\ Spend("scanFail")
  /\ run' = [run EXCEPT ![r] = "saving"]
  /\ scanAbort' = NoRun
  /\ status' = "synced"
  /\ UNCHANGED <<diskVars, opening, error, linkVars, rescanInFlight, zombie,
                 closing, marking>>

\* The wipe or the scan throws.
RunFails(r) ==
  /\ run[r] \in {"zapping", "scanning"}
  /\ Spend("scanFail")
  /\ EndRun(r)
  /\ IF closing THEN UNCHANGED <<status, error>> ELSE SetError
  /\ UNCHANGED <<diskVars, opening, linkVars, zombie, closing, marking>>

\* rescueScan returns true, whether or not every lookup was answered, and
\* finishSync begins.  Its own sync_finished event is heard first.
ScanCompletes(r, clean) ==
  /\ run[r] = "scanning"
  /\ IF clean THEN UNCHANGED left ELSE Spend("lookupFail")
  /\ whole' = (whole \/ clean)
  /\ run' = [run EXCEPT ![r] = "saving"]
  /\ scanAbort' = IF scanAbort = r THEN NoRun ELSE scanAbort
  /\ status' = "synced"
  /\ marking' = (marking \/ ~rescanInFlight)
  /\ UNCHANGED <<recorded, opening, error, linkVars, rescanInFlight, zombie,
                 closing>>

\* markSourceSynced; a registry that cannot be written is swallowed.
MarkSynced ==
  \/ recorded' = TRUE /\ UNCHANGED left
  \/ UNCHANGED recorded /\ Spend("writeFail")

\* Mutant: the finish of a scan is not written to the registry.
SyncSavedNowhere(r) ==
  /\ run[r] = "saving"
  /\ EndRun(r)
  /\ UNCHANGED <<diskVars, opening, status, error, linkVars, zombie, closing,
                 marking, left>>

SyncSaved(r) ==
  /\ run[r] = "saving"
  /\ MarkSynced
  /\ EndRun(r)
  /\ UNCHANGED <<whole, opening, status, error, linkVars, zombie, closing,
                 marking>>

\* Mutant: the handler does not ask whether a scan is in flight.
NavcoinSyncFinishedAnyway ==
  /\ connected /\ HasWallet
  /\ Spend("navSync")
  /\ status' = "synced"
  /\ marking' = TRUE
  /\ UNCHANGED <<diskVars, opening, error, linkVars, scanVars, closing>>

\* navcoin-js reports the sync it runs on every connect; the handler's
\* finishSync first waits for a refresh, then writes.
NavcoinSyncFinished ==
  /\ connected /\ HasWallet
  /\ Spend("navSync")
  /\ ~rescanInFlight
  /\ status' = "synced"
  /\ marking' = TRUE
  /\ UNCHANGED <<diskVars, opening, error, linkVars, scanVars, closing>>

NavcoinSyncSaved ==
  /\ marking
  /\ marking' = FALSE
  /\ MarkSynced
  /\ UNCHANGED <<whole, opening, status, error, linkVars, scanVars, closing>>

-----------------------------------------------------------------------------
(* The end of the state object: closeSourceWallet, or the whole process.   *)

\* An aborted scan ends its runScan: it was not interrupted by a drop.
Close ==
  /\ ~closing
  /\ closing' = TRUE
  /\ timer' = "none"
  /\ IF scanAbort = NoRun THEN UNCHANGED scanVars
                          ELSE EndRun(scanAbort) /\ zombie' = TRUE
  /\ UNCHANGED <<diskVars, opening, status, error, connected,
                 statusOnConnect, pass, marking, left>>

\* The daemon dies or stops and comes back: only what is on disk survives.
Restart ==
  /\ Spend("restart")
  /\ opening' = "loading"
  /\ status' = "opening"
  /\ error' = FALSE
  /\ connected' = FALSE
  /\ statusOnConnect' = NoStatus
  /\ timer' = "none"
  /\ pass' = FALSE
  /\ rescanInFlight' = FALSE
  /\ scanAbort' = NoRun
  /\ closing' = FALSE
  /\ run' = [r \in Runs |-> "idle"]
  /\ zombie' = FALSE
  /\ marking' = FALSE
  /\ UNCHANGED diskVars

Next ==
  \/ WalletLoaded \/ LoadFails
  \/ NodeAnswers \/ LateAnswer \/ PassFails \/ PassThrows \/ PassStops
  \/ Drop \/ ReconnectTimer
  \/ RequestRescan
  \/ \E r \in Runs :
       \/ Zapped(r) \/ WaitEnds(r) \/ RunFails(r) \/ SyncSaved(r)
       \/ \E clean \in BOOLEAN : ScanCompletes(r, clean)
  \/ ScanProgress \/ ZombieStops
  \/ NavcoinSyncFinished \/ NavcoinSyncSaved
  \/ Close \/ Restart

Spec == Init /\ [][Next]_vars

-----------------------------------------------------------------------------
(* Safety.                                                                 *)

\* Event e has not happened in this behaviour.
Unspent(e) == left[e] = Budget[e]

\* What a sweep accepts: sweepBlockReason is null.
Sweepable == ~closing /\ status = "synced" /\ ~error

Scanning(r) == run[r] \in {"zapping", "waiting", "scanning"}

\* Every variable has its type.
FieldTypes ==
  /\ opening \in Openings
  /\ status \in Statuses
  /\ statusOnConnect \in Statuses \cup {NoStatus}
  /\ timer \in Timers

FlagTypes ==
  /\ recorded \in BOOLEAN /\ whole \in BOOLEAN
  /\ error \in BOOLEAN /\ connected \in BOOLEAN /\ pass \in BOOLEAN
  /\ rescanInFlight \in BOOLEAN /\ closing \in BOOLEAN
  /\ zombie \in BOOLEAN /\ marking \in BOOLEAN

ScanTypes ==
  /\ scanAbort \in Runs \cup {NoRun}
  /\ run \in [Runs -> RunStates]

TypeOK ==
  FieldTypes /\ FlagTypes /\ ScanTypes /\ left \in [Events -> Nat]

\* At most one runScan exists per source, rescanInFlight is set exactly while
\* it does, and state.scanAbort is its controller exactly while rescueScan
\* runs: no second scan races the first one's reap, and no abort is lost.
OneScan ==
  /\ rescanInFlight <=> \E r \in Runs : run[r] # "idle"
  /\ \A r, q \in Runs : run[r] # "idle" /\ run[q] # "idle" => r = q
  /\ \A r \in Runs : scanAbort = r <=> run[r] = "scanning"

\* A scan that can still report itself finished has had its connection since
\* it started: one that a drop cut off, or whose source was closed, has been
\* abandoned.
ScanHasConnection ==
  \A r \in Runs : run[r] = "scanning" => connected /\ ~closing

\* However drops, late answers, failed passes and timers interleave, an open
\* source without a connection has exactly one way back to one: the
\* reconnect timer or a pass over the nodes.  (Unless Connect() itself threw:
\* nothing retries after that.)
OneWayBack ==
  /\ timer = "none" \/ ~pass
  /\ opening = "open" /\ ~closing /\ ~connected /\ Unspent("connectThrow")
       => timer # "none" \/ pass

\* 'connected' is never where a source stays: it is shown only while a scan
\* is due or running, through any number of drops (statusOnConnect).
NotStuckAtConnected ==
  status = "connected" /\ ~closing => rescanInFlight

\* As long as nobody asks for a rescan, navcoin-js reports no sync of its own
\* while no scan runs, and lookups are answered, a source that a sweep
\* accepts, or that the next start will not scan, has been scanned whole:
\* whatever drops, restarts, failed scans and failed writes came between.
FirstScanTrusted ==
  Unspent("rescan") /\ Unspent("navSync") /\ Unspent("lookupFail") =>
    (Sweepable \/ recorded => whole)

\* The first scan of an open source is not lost, through any number of drops:
\* until its end is recorded it is under way, or an error is shown.
FirstScanOwed ==
  opening = "open" /\ ~closing /\ ~error /\ Unspent("writeFail") =>
    recorded \/ rescanInFlight

\* Until somebody asks for a rescan, a sweep waits for a scan to end, whatever
\* drops have kept of the status, restored and aborted, and whatever
\* navcoin-js reports of its own syncs meanwhile (statusOnConnect,
\* rescanInFlight).
SweepAwaitsScan ==
  Unspent("rescan") /\ Sweepable => \A r \in Runs : ~Scanning(r)

\* A closed source starts nothing: no timer, no new pass over the nodes, and
\* every runScan still waiting can only return.
ClosedStaysQuiet ==
  [][closing /\ closing' =>
       /\ timer' = "none"
       /\ pass' => pass
       /\ \A r \in Runs : run'[r] \in {run[r], "idle"}]_vars

-----------------------------------------------------------------------------
(* What documents and comments say that the code does not keep.            *)

\* "Source has been fully scanned before" (the comment where an open skips
\* the scan): a source that shows synced with no scan running holds what a
\* whole scan found.
SkippedScanWasWhole ==
  Unspent("navSync") /\ Unspent("lookupFail") =>
    (Sweepable /\ ~rescanInFlight => whole)

\* "All sources to be fully synced" before a sweep: none is accepted while a
\* scan rebuilds it.
NotSweepableDuringScan ==
  Sweepable => \A r \in Runs : ~Scanning(r)

\* 'syncing', which blocks sweeps and rescans too, is shown only on behalf of a
\* scan, or of an aborted one that has not noticed yet.
NotStuckAtSyncing ==
  status = "syncing" /\ ~closing => rescanInFlight \/ zombie

\* "While one runs, only that scan's clean finish counts": the source is not
\* recorded as synced mid-scan.
NotRecordedMidScan ==
  [][\A r \in Runs :
       Scanning(r) /\ run'[r] = run[r] => recorded' = recorded]_vars

-----------------------------------------------------------------------------
(* Liveness.                                                               *)

\* What the daemon itself owes: its timers fire and its continuations run.
\* What the world owes: a pass that is tried again and again is answered in
\* the end, and so are the lookups of a scan that keeps its connection.
Fairness ==
  /\ WF_vars(WalletLoaded)
  /\ SF_vars(NodeAnswers)
  /\ WF_vars(PassStops)
  /\ WF_vars(ReconnectTimer)
  /\ WF_vars(NavcoinSyncSaved)
  /\ \A r \in Runs : /\ WF_vars(Zapped(r))
                     /\ WF_vars(WaitEnds(r))
                     /\ WF_vars(ScanCompletes(r, TRUE))
                     /\ WF_vars(SyncSaved(r))

FairSpec == Spec /\ Fairness

NothingThrew == Unspent("openFail") /\ Unspent("connectThrow")

\* The source seen as nothing but its connection: given up only with an
\* error to show for it.
LinkState ==
  IF closing THEN "gone"
  ELSE IF connected THEN "up"
  ELSE IF opening = "loading" THEN "loading"
  ELSE IF pass THEN "trying"
  ELSE IF timer # "none" THEN "waiting"
  ELSE IF error THEN "dead"
  ELSE "forgotten"

Link == INSTANCE NodeLink WITH link <- LinkState

\* The source implements NodeLink: whatever late answers, drops and timers
\* do, it is always connected, trying or about to try again, and a source
\* whose nodes answer in the end is connected again after every drop.
ImplementsLink == Link!FairSpec

\* A scan the user was told has started does end, through drops.
AcceptedScanEnds == rescanInFlight ~> ~rescanInFlight \/ ~NothingThrew

\* The first scan of a source is recorded in the end, through drops and
\* restarts, unless something failed outright.
FirstScanRecorded ==
  opening = "loading" ~>
    recorded \/ closing \/ error \/ ~Unspent("writeFail")

\* Everything a closed source left waiting in the event loop ends.
CloseDrains ==
  closing ~> \/ ~closing
             \/ ~pass /\ ~marking /\ \A r \in Runs : run[r] = "idle"

\* "Resolves once the source is connected, or will never be": a runScan does
\* not wait for a connection for ever.
WaitAlwaysEnds ==
  \A r \in Runs : run[r] = "waiting" ~> run[r] # "waiting"
=============================================================================
