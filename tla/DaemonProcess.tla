--------------------------- MODULE DaemonProcess ----------------------------
(***************************************************************************)
(* Starting, replacing and stopping the daemon: main, performShutdown and  *)
(* the server's events in src/src/daemon.js, the cookie and daemon.json of *)
(* src/src/app-data.js, and everyone who starts one: `ntr start`, the      *)
(* terminal UI, `ntr-daemon`, and ensure_daemon of the GUI's Tauri shell,  *)
(* which probes, stops and replaces a daemon of another version.           *)
(*                                                                         *)
(* Launches are numbered in the order they begin, and a daemon has the     *)
(* number of the launch that spawns it; 0 is one that runs from the start. *)
(* N bounds both.  A request and its answer are one step.  A daemon that   *)
(* reported no version counts as one of another version.                   *)
(***************************************************************************)
EXTENDS Integers, FiniteSets

CONSTANTS
  N,              \* how many launches, and so daemons, there are
  Versions, GUI,  \* versions of the program, and the one the GUI is from
  Budget          \* how many stops and kills come from outside

None == -1
Launches == 1..N
Daemons == 0..N

ASSUME ConstantsAssumption ==
  GUI \in Versions /\ N \in Nat /\ Budget \in Nat

VARIABLES
  cookie,    \* auth.cookie: who created the present one
  file,      \* daemon.json
  daemon,    \* each daemon process
  launch,    \* each launch
  left

vars == <<cookie, file, daemon, launch, left>>

Spend == left > 0 /\ left' = left - 1

NoDaemon == [at |-> "none", version |-> GUI, cookie |-> None,
             recorded |-> FALSE]
NoLaunch == [at |-> "idle", kind |-> "cli", version |-> GUI,
             stopped |-> None, ok |-> FALSE]

File(status, pid) == [status |-> status, pid |-> pid]

\* The first start ever, or a daemon of some version that still runs.
Init ==
  /\ \/ /\ cookie = None /\ file = File("initialized", None)
        /\ daemon = [d \in Daemons |-> NoDaemon]
     \/ /\ cookie = 0 /\ file = File("running", 0)
        /\ \E v \in Versions : daemon = [d \in Daemons |->
             IF d # 0 THEN NoDaemon
             ELSE [at |-> "up", version |-> v, cookie |-> 0,
                   recorded |-> TRUE]]
  /\ launch = [l \in Launches |-> NoLaunch]
  /\ left = Budget

Alive(d) == daemon[d].at \notin {"none", "gone"}
HasWallets(d) == daemon[d].at \in {"up", "failing", "closing"}
Holder == {d \in Daemons : daemon[d].at = "up"}

\* A request with the cookie on file is answered; any other gets a 401.
Accepts(d) == d \in Holder /\ cookie # None /\ daemon[d].cookie = cookie
Answered == \E d \in Daemons : Accepts(d)

-----------------------------------------------------------------------------
(* ensureAuthCookie, which every launch but the GUI's and every daemon     *)
(* runs: look for the file, and create it.                                 *)

Look(r, next) == [r EXCEPT !.at = IF cookie = None THEN "creating" ELSE next]

-----------------------------------------------------------------------------
(* The daemon.                                                             *)

SetDaemon(d, r) == daemon' = [daemon EXCEPT ![d] = r]

\* process.exit and the default action of a signal.
Gone(d) == [NoDaemon EXCEPT !.at = "gone"]

\* performShutdown: the port is free at once, the wallets are not.  A
\* second call finds shutdownPromise.
Shutdown(d) ==
  IF daemon[d].at = "up"
  THEN SetDaemon(d, [daemon[d] EXCEPT !.at = "closing"])
  ELSE UNCHANGED daemon

\* SIGTERM, SIGINT: before main has installed its handlers they kill.
Signal(d) ==
  IF daemon[d].at \in {"boot", "creating", "starting"}
  THEN SetDaemon(d, Gone(d)) ELSE Shutdown(d)

BootLooks(d) ==
  /\ daemon[d].at = "boot"
  /\ SetDaemon(d, Look(daemon[d], "starting"))
  /\ UNCHANGED <<cookie, file, launch, left>>

BootCreates(d) ==
  /\ daemon[d].at = "creating"
  /\ cookie' = d /\ SetDaemon(d, [daemon[d] EXCEPT !.at = "starting"])
  /\ UNCHANGED <<file, launch, left>>

\* The end of main: the cookie is read, the stored wallets open in the
\* background, and listen finds the port free or taken.
Starts(d) ==
  /\ daemon[d].at = "starting"
  /\ SetDaemon(d, [daemon[d] EXCEPT
       !.cookie = cookie,
       !.at = IF Holder = {} THEN "up" ELSE "failing"])
  /\ UNCHANGED <<cookie, file, launch, left>>

\* The listen callback.
RecordsRunning(d) ==
  /\ daemon[d].at = "up" /\ ~daemon[d].recorded
  /\ file' = File("running", d)
  /\ SetDaemon(d, [daemon[d] EXCEPT !.recorded = TRUE])
  /\ UNCHANGED <<cookie, launch, left>>

\* Mutant: the error handler does not exit.
FailsStays(d) ==
  /\ daemon[d].at = "failing" /\ ~daemon[d].recorded
  /\ file' = File("error", None)
  /\ SetDaemon(d, [daemon[d] EXCEPT !.recorded = TRUE])
  /\ UNCHANGED <<cookie, launch, left>>

\* EADDRINUSE: reported in the daemon.json of the daemon that has the port.
Fails(d) ==
  /\ daemon[d].at = "failing"
  /\ file' = File("error", None)
  /\ SetDaemon(d, Gone(d))
  /\ UNCHANGED <<cookie, launch, left>>

\* closeAllWallets, which may never return.
Closes(d) ==
  /\ daemon[d].at = "closing"
  /\ SetDaemon(d, [daemon[d] EXCEPT !.at = "closed"])
  /\ UNCHANGED <<cookie, file, launch, left>>

RecordsStopped(d) ==
  /\ daemon[d].at = "closed"
  /\ file' = File("stopped", None)
  /\ SetDaemon(d, Gone(d))
  /\ UNCHANGED <<cookie, launch, left>>

\* Mutant: the timer is cleared once the wallets are asked to close.
ForceExitCleared(d) ==
  /\ daemon[d].at = "closed"
  /\ SetDaemon(d, Gone(d))
  /\ UNCHANGED <<cookie, file, launch, left>>

\* forceExitTimer: no word in daemon.json.
ForceExit(d) ==
  /\ daemon[d].at \in {"closing", "closed"}
  /\ SetDaemon(d, Gone(d))
  /\ UNCHANGED <<cookie, file, launch, left>>

\* `ntr stop`, the terminal UI's stop, the end of a purge; a signal.
StopAsked(d) ==
  /\ Spend
  /\ \/ Accepts(d) /\ Shutdown(d)
     \/ Alive(d) /\ Signal(d)
  /\ UNCHANGED <<cookie, file, launch>>

Kill(d) ==
  /\ Spend /\ Alive(d) /\ SetDaemon(d, Gone(d))
  /\ UNCHANGED <<cookie, file, launch>>

-----------------------------------------------------------------------------
(* A launch.                                                               *)

At(l, at) == launch' = [launch EXCEPT ![l].at = at]
Over(l, ok) ==
  launch' = [launch EXCEPT ![l] =
               [NoLaunch EXCEPT !.at = "done", !.kind = launch[l].kind,
                                !.ok = ok]]
Still == UNCHANGED <<cookie, file, left>>

\* The launches that may begin next.
First == {l \in Launches : launch[l].at = "idle" /\
                           \A k \in 1..(l - 1) : launch[k].at # "idle"}

New(kind, v) == [NoLaunch EXCEPT !.kind = kind, !.version = v,
                                 !.at = IF kind = "gui" THEN "probe"
                                        ELSE "boot"]

\* `ntr start`; opening the terminal UI; ensure_daemon before a request of
\* the GUI, with the number after its own kept for the `ntr start` it may
\* run.
UserStarts(l) ==
  /\ l \in First
  /\ \/ \E v \in Versions : launch' = [launch EXCEPT ![l] = New("cli", v)]
     \/ launch' = [launch EXCEPT ![l] = New("tui", GUI)]
     \/ l < N /\ launch' = [launch EXCEPT ![l] = New("gui", GUI),
                                           ![l + 1].at = "kept"]
  /\ Still /\ UNCHANGED daemon

\* `ntr-daemon` asks for nothing and waits for nothing.
RunsDirectly(l) ==
  /\ l \in First /\ Over(l, TRUE)
  /\ \E v \in Versions :
       SetDaemon(l, [NoDaemon EXCEPT !.at = "boot", !.version = v])
  /\ UNCHANGED <<cookie, file, left>>

LaunchLooks(l) ==
  /\ launch[l].at = "boot"
  /\ launch' = [launch EXCEPT ![l] = Look(@, "ask")]
  /\ UNCHANGED <<cookie, file, daemon, left>>

LaunchCreates(l) ==
  /\ launch[l].at = "creating" /\ cookie' = l /\ At(l, "ask")
  /\ UNCHANGED <<file, daemon, left>>

\* handleStart, ensureDaemonRunning: a daemon that answers will do.
Asks(l) ==
  /\ launch[l].at = "ask"
  /\ IF Answered THEN Over(l, TRUE) ELSE At(l, "port")
  /\ Still /\ UNCHANGED daemon

\* Nothing may listen; then the daemon is spawned.
Spawns(l) ==
  /\ launch[l].at = "port"
  /\ IF Holder # {}
     THEN Over(l, FALSE) /\ UNCHANGED daemon
     ELSE /\ At(l, "wait")
          /\ SetDaemon(l, [NoDaemon EXCEPT !.at = "boot",
                                           !.version = launch[l].version])
  /\ UNCHANGED <<cookie, file, left>>

Polls(l) ==
  /\ launch[l].at = "wait" /\ Answered /\ Over(l, TRUE)
  /\ Still /\ UNCHANGED daemon

\* `ntr start` watches its child.
SeesExit(l) ==
  /\ launch[l].at = "wait" /\ launch[l].kind = "cli"
  /\ daemon[l].at = "gone" /\ Over(l, FALSE)
  /\ Still /\ UNCHANGED daemon

\* Mutant: the terminal UI leaves its child as `ntr start` does.
WaitLeaves(l) ==
  /\ launch[l].at = "wait" /\ Over(l, FALSE)
  /\ Still /\ UNCHANGED daemon

\* After DAEMON_READY_TIMEOUT_MS the terminal UI kills the child, which
\* `ntr start` leaves.
WaitTimesOut(l) ==
  /\ launch[l].at = "wait" /\ Over(l, FALSE)
  /\ IF launch[l].kind = "tui" THEN Signal(l) ELSE UNCHANGED daemon
  /\ Still

-----------------------------------------------------------------------------
(* ensure_daemon.                                                          *)

Helps(l) ==
  [launch EXCEPT ![l].at = "listen",
                 ![l + 1] = New("cli", launch[l].version)]

\* probe_daemon: nothing there, a daemon that cannot be identified, which
\* is left alone, one of this version, or of another.
Probes(l) ==
  /\ launch[l].at = "probe"
  /\ CASE Holder = {} -> launch' = Helps(l)
       [] Holder # {} /\ ~Answered -> Over(l, TRUE)
       [] \E d \in Holder : Accepts(d) /\ daemon[d].version = GUI ->
            Over(l, TRUE)
       [] OTHER -> At(l, "stop")
  /\ Still /\ UNCHANGED daemon

\* stop_daemon: one that has gone since is fine, one that refuses is not.
Stops(l) ==
  /\ launch[l].at = "stop"
  /\ \/ Holder = {} /\ At(l, "free") /\ UNCHANGED daemon
     \/ Holder # {} /\ ~Answered /\ Over(l, FALSE) /\ UNCHANGED daemon
     \/ \E d \in Daemons :
          /\ Accepts(d) /\ Shutdown(d)
          /\ launch' = [launch EXCEPT ![l].at = "free", ![l].stopped = d]
  /\ Still

\* wait_for_daemon_gone asks the port only; then `ntr start` is run.
SeesPortFree(l) ==
  /\ launch[l].at = "free" /\ Holder = {} /\ launch' = Helps(l)
  /\ Still /\ UNCHANGED daemon

\* Mutant: the wait for the helper's daemon has no end.
GuiWaits(l) ==
  /\ launch[l].at = "free" /\ Over(l, FALSE)
  /\ Still /\ UNCHANGED daemon

\* DAEMON_STOP_TIMEOUT, DAEMON_BOOT_ATTEMPTS.
GuiTimesOut(l) ==
  /\ launch[l].at \in {"free", "listen"} /\ Over(l, FALSE)
  /\ Still /\ UNCHANGED daemon

SeesPortOpen(l) ==
  /\ launch[l].at = "listen" /\ Holder # {} /\ Over(l, TRUE)
  /\ Still /\ UNCHANGED daemon

-----------------------------------------------------------------------------

DaemonSteps(d) ==
  \/ BootLooks(d) \/ BootCreates(d) \/ Starts(d) \/ RecordsRunning(d)
  \/ Fails(d) \/ RecordsStopped(d)

LaunchSteps(l) ==
  \/ LaunchLooks(l) \/ LaunchCreates(l) \/ Asks(l) \/ Spawns(l) \/ Polls(l)
  \/ SeesExit(l) \/ Probes(l) \/ Stops(l) \/ SeesPortFree(l)
  \/ SeesPortOpen(l)

Next ==
  \/ \E d \in Daemons : DaemonSteps(d) \/ Closes(d) \/ ForceExit(d)
                         \/ StopAsked(d) \/ Kill(d)
  \/ \E l \in Launches : UserStarts(l) \/ RunsDirectly(l) \/ LaunchSteps(l)
                         \/ WaitTimesOut(l) \/ GuiTimesOut(l)

Spec == Init /\ [][Next]_vars

\* Every process goes on, and every timer fires in the end; wallets may
\* stay open for ever.
FairSpec ==
  /\ Spec
  /\ \A d \in Daemons : WF_vars(DaemonSteps(d)) /\ WF_vars(ForceExit(d))
  /\ \A l \in Launches : /\ WF_vars(LaunchSteps(l))
                          /\ WF_vars(WaitTimesOut(l) \/ GuiTimesOut(l))

-----------------------------------------------------------------------------
(* Properties.                                                             *)

Ids == Daemons \cup {None}

\* The type of the state, and that one daemon has the port.
TypeOK ==
  /\ cookie \in Ids /\ left \in 0..Budget
  /\ file \in [status : {"initialized", "running", "stopped", "error"},
               pid : Ids]
  /\ daemon \in [Daemons ->
       [at : {"none", "boot", "creating", "starting", "up", "failing",
              "closing", "closed", "gone"},
        version : Versions, cookie : Ids,
        recorded : BOOLEAN]]
  /\ launch \in [Launches ->
       [at : {"idle", "kept", "boot", "creating", "ask", "port", "wait",
              "probe", "stop", "free", "listen", "done"},
        kind : {"cli", "tui", "gui"}, version : Versions,
        stopped : Ids, ok : BOOLEAN]]
  /\ Cardinality(Holder) <= 1

\* A terminal UI that has told its user that the daemon did not start leaves
\* no child that may still take the port, however slow the child is and
\* whatever else starts or stops (ensureDaemonRunning).
FailedChildNeverUp ==
  \A l \in Launches :
    launch[l].kind = "tui" /\ launch[l].at = "done" /\ ~launch[l].ok =>
      daemon[l].at \notin {"boot", "creating", "starting", "up"}

\* A shutdown ends, whether or not the wallets can be closed and however
\* often it is asked for (performShutdown, forceExitTimer).
ShutdownEnds ==
  \A d \in Daemons :
    daemon[d].at \in {"closing", "closed"} ~> daemon[d].at = "gone"

\* Of two daemons over one app data, one leaves (server.on('error')).
OneRemains ==
  \A d, e \in Daemons :
    d # e /\ Alive(d) /\ Alive(e) ~> ~(Alive(d) /\ Alive(e))

\* A terminal UI that reports that the daemon did not start leaves none
\* behind that starts after all (ensureDaemonRunning).
FailedChildEnds ==
  \A l \in Launches :
    launch[l].kind = "tui" /\ launch[l].at = "done" /\ ~launch[l].ok
      ~> ~Alive(l)

\* Every launch comes to an end, whoever takes or leaves the port meanwhile;
\* the GUI's waits for a port that may never be free, and for one that the
\* `ntr start` it ran may never open (ensure_daemon, waitForDaemonReady).
LaunchSettles ==
  \A l \in Launches :
    launch[l].at \notin {"idle", "kept", "done"} ~> launch[l].at = "done"

\* What a comment of the GUI says and the daemon does not do: it rewrites the
\* cookie on every start (getAuth; ensureAuthCookie makes it when missing).
CookieIsRewritten == \A d \in Holder : daemon[d].cookie = d

\* What a client relies on and a first start does not keep: the daemon that
\* has the port answers to the cookie on file.  Daemon and client may both
\* find none and each make one; the daemon may have read the first.
CookieAnswered == \A d \in Holder : daemon[d].cookie = cookie

\* What daemon.json does not keep: once it said so, it names the daemon that
\* has the port.  A second one that fails, and an old one that stops after
\* its port was taken over, write over it (writeDaemonState).
RunningIsRecorded ==
  \A d \in Holder : daemon[d].recorded =>
    file.status = "running" /\ file.pid = d

\* What the GUI assumes and the daemon does not keep: when the port is free,
\* the daemon it stopped has closed its wallets (ensure_daemon,
\* wait_for_daemon_gone).
ReplacementIsAlone ==
  \A l \in Launches :
    launch[l].at = "listen" /\ launch[l].stopped # None =>
      ~HasWallets(launch[l].stopped)
=============================================================================
