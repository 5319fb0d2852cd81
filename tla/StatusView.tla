----------------------------- MODULE StatusView -----------------------------
(***************************************************************************)
(* What a user sees of a source: the snapshot of its addresses and balance *)
(* that src/src/wallet-manager.js rebuilds in passes over the wallet       *)
(* (requestRefresh and drainRefresh, and the pass of finishSync that goes  *)
(* around them), the /status answer of src/src/daemon.js, and the Status   *)
(* view and the terminal UI, which poll it on timers whose ticks overlap,  *)
(* and ask for rescans and removals.                                       *)
(*                                                                         *)
(* The outputs in the wallet's database are counted in versions, and a     *)
(* snapshot is the version it was read at; the addresses and their amounts *)
(* go the way of the balance.  A wiped database is a version like any      *)
(* other, and the zero balance that goes with it is its balance.           *)
(***************************************************************************)
EXTENDS Integers, FiniteSets

CONSTANTS
  N,           \* how many passes over the wallet may overlap
  Ticks,       \* identities of the polls that may overlap
  MaxVersion,  \* bounds the changes to the database
  Budget       \* how many faults and outside events may happen

Passes == 1..N
Flows == {"rescan", "remove"}
Null == -1

ASSUME ConstantsAssumption ==
  N \in Nat /\ MaxVersion \in Nat /\ Budget \in Nat /\ Ticks \cap Flows = {}

VARIABLES
  version,    \* the outputs in the database
  state,      \* walletState's entry: syncStatus and the rescan in flight
  balance,    \* state.balance and addresses: the version they were read at
  refresh,    \* refreshPending, refreshTimer and refreshInFlight
  pass,       \* the passes under way
  newest,     \* the newest reading a pass ended with (observed)
  client,     \* which client it is, and what it shows
  request,    \* its polls, and its rescan and removal
  left

wallet == <<version, state, balance, refresh, pass, newest>>
vars == <<wallet, client, request, left>>

Spend == left > 0 /\ left' = left - 1

Off == [at |-> "off", kind |-> "drain", read |-> Null]
Shown(status, b) == [status |-> status, balance |-> b]
Unreachable == Shown("unreachable", Null)
NoRequest == [at |-> "idle", answer |-> Unreachable]

\* A scanned source, with the pass of its open done and no client's poll yet.
Init ==
  /\ version = 0 /\ balance = 0
  /\ state = [status |-> "synced", rescan |-> "no"]
  /\ refresh = [pending |-> FALSE, timer |-> FALSE, inFlight |-> FALSE]
  /\ pass = [p \in Passes |-> Off]
  /\ newest = 0
  /\ \E kind \in {"gui", "tui"} :
       client = [kind |-> kind, view |-> Shown("loading", Null)]
  /\ request = [q \in Ticks \cup Flows |-> NoRequest]
  /\ left = Budget

Open == state.status # "gone"

-----------------------------------------------------------------------------
(* The snapshot.                                                           *)

\* Mutant: what lands during a pass counts as picked up by it.
RequestedOnce(r) ==
  IF Open /\ ~r.inFlight THEN [r EXCEPT !.pending = TRUE, !.timer = TRUE]
  ELSE r

\* requestRefresh: a pass that is under way or about to be will pick it up.
Requested(r) ==
  IF Open THEN [r EXCEPT !.pending = TRUE, !.timer = @ \/ ~r.inFlight]
  ELSE r

Begin(kind) == \E p \in Passes :
  /\ pass[p] = Off /\ \A q \in 1..(p - 1) : pass[q] # Off
  /\ pass' = [pass EXCEPT ![p] = [at |-> "outputs", kind |-> kind,
                                  read |-> Null]]

\* Mutant: drainRefresh does not await its pass.
DrainLoose ==
  /\ refresh.timer /\ Begin("drain")
  /\ refresh' = [pending |-> FALSE, timer |-> FALSE, inFlight |-> FALSE]
  /\ UNCHANGED <<version, state, balance, newest, client, request,
                 left>>

\* The timer: drainRefresh, which finds a pass under way or begins one.
Drain ==
  /\ refresh.timer
  /\ IF refresh.inFlight
     THEN refresh' = [refresh EXCEPT !.timer = FALSE] /\ UNCHANGED pass
     ELSE /\ Begin("drain")
          /\ refresh' = [pending |-> FALSE, timer |-> FALSE, inFlight |-> TRUE]
  /\ UNCHANGED <<version, state, balance, newest, client, request,
                 left>>

\* readUnspentOutputs.
ReadsOutputs(p) ==
  /\ pass[p].at = "outputs"
  /\ pass' = [pass EXCEPT ![p].at = "balance", ![p].read = version]
  /\ UNCHANGED <<version, state, balance, refresh, newest, client, request,
                 left>>

\* Mutant: no trailing pass.
PassEndsForgets(p) ==
  /\ pass' = [pass EXCEPT ![p] = Off]
  /\ refresh' = [refresh EXCEPT !.inFlight = @ /\ pass[p].kind # "drain"]
  /\ state' = IF pass[p].kind = "scan" THEN [state EXCEPT !.rescan = "no"]
              ELSE state

\* What follows a pass: the trailing pass, or the end of the scan whose
\* finish it was.
PassEnds(p) ==
  /\ pass' = [pass EXCEPT ![p] = Off]
  /\ LET done == [refresh EXCEPT !.inFlight = FALSE]
     IN  refresh' = IF pass[p].kind # "drain" THEN refresh
                    ELSE IF refresh.pending /\ Open THEN Requested(done)
                    ELSE done
  /\ state' = IF pass[p].kind = "scan" THEN [state EXCEPT !.rescan = "no"]
              ELSE state

\* The rest of refreshAddressesAndBalance: what it cannot read stays as it
\* was.  A pass over a closed source writes into an entry nobody asks for.
WritesSnapshot(p) ==
  /\ pass[p].at = "balance" /\ PassEnds(p)
  /\ newest' = IF Open /\ newest < pass[p].read THEN pass[p].read ELSE newest
  /\ \/ /\ balance' = IF Open THEN pass[p].read ELSE balance
        /\ UNCHANGED left
     \/ Spend /\ UNCHANGED balance
  /\ UNCHANGED <<version, client, request>>

-----------------------------------------------------------------------------
(* What changes it.                                                        *)

\* An output is added or spent, by a push or by a scan, and new_tx or
\* balance_changed asks for a refresh.
Changes ==
  /\ Open /\ version < MaxVersion /\ state.rescan # "wiping"
  /\ version' = version + 1 /\ refresh' = Requested(refresh)
  /\ UNCHANGED <<state, balance, pass, newest, client, request, left>>

\* runFreshRescan wipes the database and shows a balance of zero at once.
Wipes ==
  /\ Open /\ state.rescan = "wiping" /\ version' = version + 1
  /\ balance' = version' /\ newest' = version'
  /\ state' = [status |-> "syncing", rescan |-> "scanning"]
  /\ UNCHANGED <<refresh, pass, client, request, left>>

\* finishSync at the end of a scan.
ScanEnds ==
  /\ Open /\ state.rescan = "scanning" /\ Begin("scan")
  /\ state' = [status |-> "synced", rescan |-> "finishing"]
  /\ UNCHANGED <<version, balance, refresh, newest, client, request,
                 left>>

\* finishSync when navcoin-js reports its own sync.
SyncFinished ==
  /\ Open /\ state.rescan = "no" /\ Spend /\ Begin("sync")
  /\ state' = [state EXCEPT !.status = "synced"]
  /\ UNCHANGED <<version, balance, refresh, newest, client, request>>

\* The connection drops and comes back.
Drops ==
  /\ Open /\ state.rescan = "no" /\ state.status = "synced" /\ Spend
  /\ state' = [state EXCEPT !.status = "connecting"]
  /\ UNCHANGED <<version, balance, refresh, pass, newest, client,
                 request>>

Returns ==
  /\ state.status = "connecting"
  /\ state' = [state EXCEPT !.status = "synced"]
  /\ UNCHANGED <<version, balance, refresh, pass, newest, client,
                 request, left>>

-----------------------------------------------------------------------------
(* /status and the clients.                                                *)

\* A source that is gone is not in the list any more.
Answer == IF Open THEN Shown(state.status, balance) ELSE Shown("gone", Null)

Busy(f) == request[f].at # "idle"
Set(q, at) == request' = [request EXCEPT ![q].at = at]
Keep == UNCHANGED <<wallet, client>>

\* A poll: what the daemon answers is on its way from then on.
Polls(q) ==
  \/ UNCHANGED left /\ request' =
       [request EXCEPT ![q] = [at |-> "answered", answer |-> Answer]]
  \/ Spend /\ request' =
       [request EXCEPT ![q] = [at |-> "answered", answer |-> Unreachable]]

\* Mutant: the view stops polling when the daemon was unreachable once.
TickUnlessError(q) ==
  /\ request[q].at = "idle" /\ client.view # Unreachable
  /\ Polls(q) /\ Keep

\* setInterval, every one or two seconds, whatever is still under way.
Tick(q) == request[q].at = "idle" /\ Polls(q) /\ Keep

\* The poll at the end of a rescan or a removal.
LastPoll(f) == request[f].at = "asked" /\ Polls(f) /\ Keep

\* The view shows every answer; the terminal UI prints one that differs from
\* the last it printed, unless a command or a prompt is under way, and tells
\* in its header when there is none.
Arrives(q) ==
  /\ request[q].at = "answered"
  /\ client' = IF \/ client.kind = "gui"
                  \/ /\ request[q].answer # Unreachable
                     /\ ~\E f \in Flows : Busy(f)
               THEN [client EXCEPT !.view = request[q].answer] ELSE client
  /\ request' = [request EXCEPT ![q] = NoRequest]
  /\ UNCHANGED <<wallet, left>>

\* The rescan button, which the view enables from what it shows; `rescan`
\* and `remove` in the terminal UI, one command at a time; Yes on a card.
Asks(f) ==
  /\ ~Busy(f) /\ Spend /\ Set(f, "action") /\ Keep
  /\ IF client.kind = "tui" THEN ~\E g \in Flows : Busy(g)
     ELSE IF f = "rescan" THEN client.view.status = "synced"
     ELSE client.view.status \notin {"loading", "unreachable", "gone"}

\* triggerRescan, doRemove: the view polls once more before it is done.
Done(f, ok) == Set(f, IF client.kind = "gui" /\ ok THEN "asked" ELSE "idle")

\* rescanAllSources.
Rescans ==
  /\ request["rescan"].at = "action" /\ Done("rescan", TRUE)
  /\ state' = IF state = [status |-> "synced", rescan |-> "no"]
              THEN [state EXCEPT !.rescan = "wiping"] ELSE state
  /\ UNCHANGED <<version, balance, refresh, pass, newest, client, left>>

\* closeSourceWallet and removeSource: the timer is cleared, a pass that is
\* under way goes on.
Removes ==
  /\ request["remove"].at = "action" /\ Done("remove", Open)
  /\ state' = [state EXCEPT !.status = "gone", !.rescan = "no"]
  /\ refresh' = [refresh EXCEPT !.timer = FALSE]
  /\ UNCHANGED <<version, balance, pass, newest, client, left>>

ActionFails(f) ==
  /\ request[f].at = "action" /\ Spend /\ Done(f, FALSE)
  /\ UNCHANGED <<wallet, client>>

-----------------------------------------------------------------------------

PassSteps(p) == ReadsOutputs(p) \/ WritesSnapshot(p)
Flow(f) ==
  \/ f = "rescan" /\ Rescans
  \/ f = "remove" /\ Removes

Next ==
  \/ Drain \/ \E p \in Passes : PassSteps(p)
  \/ Changes \/ Wipes \/ ScanEnds \/ SyncFinished \/ Drops \/ Returns
  \/ \E q \in Ticks : Tick(q)
  \/ \E q \in Ticks \cup Flows : Arrives(q)
  \/ \E f \in Flows : Asks(f) \/ LastPoll(f) \/ Flow(f) \/ ActionFails(f)

Spec == Init /\ [][Next]_vars

\* Timers fire, the passes go on, scans end, the connection returns, and the
\* client's polls and requests are made and answered, in any order and not
\* each of them; nothing has to change, be asked for or fail.
FairSpec ==
  /\ Spec
  /\ WF_vars(Drain) /\ WF_vars(Returns) /\ WF_vars(Wipes \/ ScanEnds)
  /\ WF_vars(\E p \in Passes : PassSteps(p))
  /\ WF_vars(\E q \in Ticks : Tick(q))
  /\ WF_vars(\E q \in Ticks \cup Flows : Arrives(q))
  /\ WF_vars(\E f \in Flows : Flow(f) \/ LastPoll(f))

-----------------------------------------------------------------------------
(* Properties.                                                             *)

Versions == 0..(MaxVersion + Budget)
Views == [status : {"synced", "syncing", "connecting", "gone", "loading",
                    "unreachable"}, balance : Versions \cup {Null}]

\* The type of the state; refreshInFlight tells of a pass of drainRefresh,
\* and what is pending has a pass or a timer that will see to it.
TypeOK ==
  /\ version \in Versions /\ balance \in Versions
  /\ state \in [status : {"synced", "syncing", "connecting", "gone"},
                rescan : {"no", "wiping", "scanning", "finishing"}]
  /\ refresh \in [pending : BOOLEAN, timer : BOOLEAN, inFlight : BOOLEAN]
  /\ pass \in [Passes -> [at : {"off", "outputs", "balance"},
                          kind : {"drain", "scan", "sync"},
                          read : Versions \cup {Null}]]
  /\ client \in [kind : {"gui", "tui"}, view : Views]
  /\ request \in [Ticks \cup Flows ->
       [at : {"idle", "action", "asked", "answered"}, answer : Views]]
  /\ newest \in Versions /\ left \in 0..Budget
  /\ refresh.pending /\ Open => refresh.timer \/ refresh.inFlight

\* However many transactions a scan finds, one coalesced pass for them is under
\* way at a time; the passes of finishSync run beside it and are not counted
\* (requestRefresh, drainRefresh).
OnePass ==
  Cardinality({p \in Passes : pass[p] # Off /\ pass[p].kind = "drain"}) <= 1

\* A change that is not in the newest reading has a pass on its way that will
\* see it: one that has still to read, one that read after the change, a
\* trailing one, or one that a timer begins.  The snapshot shown may be an
\* older reading once anything failed, was rescanned or removed, or went around
\* the coalescing (refreshPending, refreshTimer).
Sees(p) == pass[p].at = "outputs" \/ (pass[p].at = "balance"
                                      /\ pass[p].read = version)
NoChangeMissed ==
  Open => /\ \/ newest = version \/ refresh.timer
             \/ refresh.inFlight /\ refresh.pending
             \/ \E p \in Passes : Sees(p)
          /\ left = Budget => balance = newest

\* Once nothing changes any more, the newest reading is that of the database,
\* also for what landed during a pass or was wiped.  Where nothing failed and
\* nobody rescanned or removed, no connection dropped and navcoin-js reported
\* no sync of its own, it is the one that is shown; otherwise an older reading
\* may be (refreshPending, finishSync).
ChangesShown ==
  <>[](Open => newest = version /\ (left = Budget => balance = version))

\* The client shows what the daemon would answer, however the polls of its
\* timer and those after a rescan or removal overlapped and in whatever order
\* they were answered, and also after an error (refresh, setInterval).
ViewSettles == <>[](client.view = Answer)
=============================================================================
