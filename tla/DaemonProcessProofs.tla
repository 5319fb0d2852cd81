------------------------ MODULE DaemonProcessProofs -------------------------
(***************************************************************************)
(* What DaemonProcess keeps for every number of launches, every set of     *)
(* versions and every budget of stops and kills: its types, that one       *)
(* daemon has the port, and that a terminal UI whose launch failed leaves  *)
(* no child that may still take it.                                        *)
(*                                                                         *)
(* The last needs ChildInv: a number has a daemon only once its launch has *)
(* come to the point where it spawns one.  From then on a launch only      *)
(* waits, and ends its child as it gives up; a daemon that has gone, or    *)
(* has left the port, never comes back.                                    *)
(***************************************************************************)
EXTENDS DaemonProcess, FiniteSetTheorems, TLAPS

-----------------------------------------------------------------------------
(* The inductive invariant.                                                *)

Process == [at : {"none", "boot", "creating", "starting", "up", "failing",
                  "closing", "closed", "gone"},
            version : Versions, cookie : Ids, recorded : BOOLEAN]
Launching == [at : {"idle", "kept", "boot", "creating", "ask", "port", "wait",
                    "probe", "stop", "free", "listen", "done"},
              kind : {"cli", "tui", "gui"}, version : Versions,
              stopped : Ids, ok : BOOLEAN]

RestTypes ==
  /\ cookie \in Ids /\ left \in 0..Budget
  /\ file \in [status : {"initialized", "running", "stopped", "error"},
               pid : Ids]
Types ==
  /\ daemon \in [Daemons -> Process] /\ launch \in [Launches -> Launching]
  /\ RestTypes

\* One daemon has the port, and one that has not got it has recorded nothing.
PortInv ==
  /\ \A d, e \in Daemons : daemon[d].at = "up" /\ daemon[e].at = "up" => d = e
  /\ \A d \in Daemons : daemon[d].at \in {"boot", "creating", "starting"} =>
       d \in Launches /\ ~daemon[d].recorded

\* The GUI keeps the next number for the `ntr start` it may run, and numbers
\* are taken in order.
GuiInv ==
  /\ \A l \in Launches : launch[l].at \in {"probe", "stop", "free"} =>
       l + 1 \in Launches /\ launch[l + 1].at = "kept"
  /\ \A k, l \in Launches :
       k < l /\ launch[k].at = "idle" => launch[l].at = "idle"

\* A daemon has the number of a launch that has spawned it.
ChildInv ==
  \A l \in Launches : launch[l].at \notin {"wait", "done"} =>
    daemon[l].at = "none"

IInv == Types /\ PortInv /\ GuiInv /\ ChildInv /\ FailedChildNeverUp

-----------------------------------------------------------------------------
(* What a step does to the daemons.                                        *)

\* One of them changes.
DaemonTo(d, r) ==
  /\ r \in Process /\ daemon'[d] = r /\ daemon' \in [Daemons -> Process]
  /\ \A e \in Daemons : e # d => daemon'[e] = daemon[e]

\* Setting one daemon changes that one only.
LEMMA SetOne ==
  ASSUME Types, NEW d \in Daemons, NEW r \in Process, SetDaemon(d, r)
  PROVE  DaemonTo(d, r)
BY DEF Types, SetDaemon, DaemonTo

\* A process that has gone.
LEMMA GoneType ==
  ASSUME NEW d
  PROVE  Gone(d) \in Process /\ Gone(d).at = "gone"
BY ConstantsAssumption DEF Gone, NoDaemon, Process, Ids, Daemons

\* A daemon on its way out.
Leaves(d) ==
  /\ Alive(d)
  /\ \E r \in Process :
       r.at \in {"closing", "closed", "gone"} /\ DaemonTo(d, r)

\* A shutdown takes the daemon from the port, or finds it done already.
LEMMA ShutdownLeaves ==
  ASSUME Types, NEW d \in Daemons, Shutdown(d)
  PROVE  Leaves(d) \/ UNCHANGED daemon
<1>1. CASE daemon[d].at = "up"
  <2>1. /\ [daemon[d] EXCEPT !.at = "closing"] \in Process
        /\ [daemon[d] EXCEPT !.at = "closing"].at = "closing"
    BY DEF Types, Process
  <2> QED
    BY <1>1, <2>1, SetOne DEF Shutdown, Leaves, Alive
<1>2. CASE daemon[d].at # "up"
  BY <1>2 DEF Shutdown
<1> QED
  BY <1>1, <1>2

\* So does a signal, which ends one that has not started yet.
LEMMA SignalLeaves ==
  ASSUME Types, NEW d \in Daemons, Signal(d)
  PROVE  Leaves(d) \/ UNCHANGED daemon
<1>1. CASE daemon[d].at \in {"boot", "creating", "starting"}
  BY <1>1, GoneType, SetOne DEF Signal, Leaves, Alive
<1>2. CASE daemon[d].at \notin {"boot", "creating", "starting"}
  BY <1>2, ShutdownLeaves DEF Signal
<1> QED
  BY <1>1, <1>2

\* A new one, whose launch waits for it, or was told that all is well.
Spawned(l) ==
  /\ \E v \in Versions : daemon' =
       [daemon EXCEPT ![l] = [NoDaemon EXCEPT !.at = "boot", !.version = v]]
  /\ \/ launch'[l].at = "wait"
     \/ launch'[l].at = "done" /\ launch'[l].ok

\* The steps of a daemon that starts.
Starting(d) == BootLooks(d) \/ BootCreates(d) \/ Starts(d) \/ RecordsRunning(d)

\* The launches that spawn nothing.
Asking(l) ==
  \/ UserStarts(l) \/ LaunchLooks(l) \/ LaunchCreates(l) \/ Asks(l)
  \/ Polls(l) \/ SeesExit(l) \/ Probes(l) \/ SeesPortFree(l)
  \/ SeesPortOpen(l) \/ GuiTimesOut(l)

Ending(d) ==
  \/ Fails(d) \/ Closes(d) \/ RecordsStopped(d) \/ ForceExit(d)
  \/ StopAsked(d) \/ Kill(d)

\* Whatever ends a daemon leaves the cookie and the launches alone, and
\* writes daemon.json only for a daemon that leaves.
LEMMA EndingLeaves ==
  ASSUME Types, NEW d \in Daemons, Ending(d)
  PROVE  /\ Leaves(d) \/ UNCHANGED <<daemon, file>>
         /\ UNCHANGED <<cookie, launch>>
<1>1. CASE Fails(d) \/ RecordsStopped(d) \/ ForceExit(d) \/ Kill(d)
  BY <1>1, GoneType, SetOne DEF Fails, RecordsStopped, ForceExit, Kill, Leaves,
     Alive
<1>2. CASE Closes(d)
  <2>1. /\ [daemon[d] EXCEPT !.at = "closed"] \in Process
        /\ [daemon[d] EXCEPT !.at = "closed"].at = "closed"
    BY DEF Types, Process
  <2> QED
    BY <1>2, <2>1, SetOne DEF Closes, Leaves, Alive
<1>3. CASE StopAsked(d)
  BY <1>3, ShutdownLeaves, SignalLeaves DEF StopAsked
<1> QED
  BY <1>1, <1>2, <1>3 DEF Ending

\* A launch may end a daemon: its child, or the one it replaces.
LEMMA LaunchEnds ==
  ASSUME Types, NEW l \in Launches, Stops(l) \/ WaitTimesOut(l)
  PROVE  /\ UNCHANGED daemon \/ \E d \in Daemons : Leaves(d)
         /\ UNCHANGED <<cookie, file>>
<1>1. CASE Stops(l)
  BY <1>1, ShutdownLeaves DEF Stops, Still
<1>2. CASE WaitTimesOut(l)
  <2>1. l \in Daemons
    BY DEF Launches, Daemons
  <2> QED
    BY <1>2, <2>1, SignalLeaves DEF WaitTimesOut, Still
<1> QED
  BY <1>1, <1>2

\* A launch that runs a daemon brings a new one, or has given up.
LEMMA SpawnsKinds ==
  ASSUME NEW l \in Launches, Spawns(l) \/ RunsDirectly(l), Types
  PROVE  /\ Spawned(l) \/ UNCHANGED daemon
         /\ UNCHANGED <<cookie, file, left>>
<1>1. launch[l] \in Launching /\ launch[l].version \in Versions
  BY DEF Types, Launching
<1>2. CASE Spawns(l) /\ Holder = {}
  <2>1. launch'[l].at = "wait"
    BY <1>1, <1>2 DEF Spawns, At, Types, Launching
  <2> QED
    BY <1>1, <1>2, <2>1 DEF Spawns, Spawned, SetDaemon
<1>3. CASE Spawns(l) /\ Holder # {}
  BY <1>3 DEF Spawns
<1>4. CASE RunsDirectly(l)
  <2>1. launch'[l].at = "done" /\ launch'[l].ok
    BY <1>4 DEF RunsDirectly, Over, Types, NoLaunch
  <2> QED
    BY <1>4, <2>1 DEF RunsDirectly, Spawned, SetDaemon
<1> QED
  BY <1>2, <1>3, <1>4

\* A step is one of these kinds.
LEMMA StepKinds ==
  ASSUME Next
  PROVE  \/ \E d \in Daemons : Starting(d) \/ Ending(d)
         \/ \E l \in Launches : \/ Asking(l) \/ Stops(l) \/ WaitTimesOut(l)
                                \/ Spawns(l) \/ RunsDirectly(l)
BY DEF Next, DaemonSteps, LaunchSteps, Starting, Ending, Asking

\* A launch that spawns and stops nothing changes no daemon and no record.
LEMMA AskingQuiet ==
  ASSUME NEW l \in Launches, Asking(l)
  PROVE  UNCHANGED <<daemon, file, left>>
BY DEF Asking, UserStarts, LaunchLooks, LaunchCreates, Asks, Polls, SeesExit,
   Probes, SeesPortFree, SeesPortOpen, GuiTimesOut, Still

\* In short, nothing happens to the daemons, or one starts, leaves or is new.
LEMMA DaemonKinds ==
  ASSUME Types, [Next]_vars
  PROVE  \/ UNCHANGED daemon
         \/ \E d \in Daemons : Starting(d) \/ Leaves(d)
         \/ \E l \in Launches : Spawned(l)
BY StepKinds, EndingLeaves, LaunchEnds, SpawnsKinds, AskingQuiet DEF vars

\* A step of a daemon that starts changes that one only.
LEMMA StartingTo ==
  ASSUME Types, NEW d \in Daemons, Starting(d)
  PROVE  \E r : DaemonTo(d, r)
<1>1. daemon[d] \in Process
  BY DEF Types
<1> USE DEF SetDaemon
<1>2. CASE BootLooks(d)
  BY <1>1, <1>2, SetOne DEF BootLooks, Look, Process
<1>3. CASE BootCreates(d)
  BY <1>1, <1>3, SetOne DEF BootCreates, Process
<1>4. CASE Starts(d)
  <2>1. cookie \in Ids
    BY DEF Types, RestTypes
  <2> QED
    BY <1>1, <1>4, <2>1, SetOne DEF Starts, Process
<1>5. CASE RecordsRunning(d)
  BY <1>1, <1>5, SetOne DEF RecordsRunning, Process
<1> QED
  BY <1>2, <1>3, <1>4, <1>5 DEF Starting

\* A spawned daemon is about to look for the cookie, in its own place only.
LEMMA SpawnedTo ==
  ASSUME Types, NEW l \in Launches, Spawned(l)
  PROVE  \E r : DaemonTo(l, r) /\ r.at = "boot" /\ ~r.recorded
<1>1. PICK v \in Versions : daemon' =
       [daemon EXCEPT ![l] = [NoDaemon EXCEPT !.at = "boot", !.version = v]]
  BY DEF Spawned
<1>2. /\ [NoDaemon EXCEPT !.at = "boot", !.version = v] \in Process
      /\ [NoDaemon EXCEPT !.at = "boot", !.version = v].at = "boot"
      /\ ~[NoDaemon EXCEPT !.at = "boot", !.version = v].recorded
  BY DEF NoDaemon, Process, Ids
<1>3. l \in Daemons
  BY DEF Launches, Daemons
<1> QED
  BY <1>1, <1>2, <1>3, SetOne DEF SetDaemon

-----------------------------------------------------------------------------
(* Types, and the port.                                                    *)

\* One daemon at most has the port: listen fails for any other, which exits.
LEMMA PortStep ==
  ASSUME Types, PortInv, [Next]_vars
  PROVE  PortInv' /\ daemon' \in [Daemons -> Process]
<1>0. daemon \in [Daemons -> Process] /\ Launches \subseteq Daemons
  BY DEF Types, Launches, Daemons
<1>1. CASE UNCHANGED daemon
  BY <1>0, <1>1 DEF PortInv
<1>2. ASSUME NEW d \in Daemons, Starting(d)
      PROVE  PortInv' /\ daemon' \in [Daemons -> Process]
  <2>1. DaemonTo(d, daemon'[d])
    BY <1>2, StartingTo DEF DaemonTo
  <2>2. CASE BootLooks(d) \/ BootCreates(d)
    <3>1. /\ daemon[d].at \in {"boot", "creating"}
          /\ daemon'[d].at \in {"creating", "starting"}
          /\ daemon'[d].recorded = daemon[d].recorded
      BY <1>0, <2>2 DEF BootLooks, BootCreates, SetDaemon, Look, Process
    <3> QED
      BY <2>1, <3>1 DEF PortInv, DaemonTo
  <2>3. CASE Starts(d)
    <3>1. /\ daemon'[d].at \in {"up", "failing"}
          /\ daemon'[d].at = "up" => Holder = {}
      BY <1>0, <2>3 DEF Starts, SetDaemon, Process
    <3> QED
      BY <2>1, <3>1 DEF PortInv, DaemonTo, Holder
  <2>4. CASE RecordsRunning(d)
    <3>1. daemon[d].at = "up" /\ daemon'[d].at = "up"
      BY <1>0, <2>4 DEF RecordsRunning, SetDaemon, Process
    <3> QED
      BY <2>1, <3>1 DEF PortInv, DaemonTo
  <2> QED
    BY <1>2, <2>2, <2>3, <2>4 DEF Starting
<1>3. ASSUME NEW d \in Daemons, Leaves(d)
      PROVE  PortInv' /\ daemon' \in [Daemons -> Process]
  BY <1>3 DEF Leaves, DaemonTo, PortInv
<1>4. ASSUME NEW l \in Launches, Spawned(l)
      PROVE  PortInv' /\ daemon' \in [Daemons -> Process]
  <2>1. PICK r : DaemonTo(l, r) /\ r.at = "boot" /\ ~r.recorded
    BY <1>4, SpawnedTo
  <2> QED
    BY <1>0, <2>1 DEF DaemonTo, PortInv
<1> QED
  BY <1>1, <1>2, <1>3, <1>4, DaemonKinds

\* A launch that runs, and goes on or ends.  Only a time-out ends one of the
\* terminal UI that waits, and has failed.
Goes(l, r) ==
  /\ launch[l].at \notin {"idle", "kept", "done"}
  /\ r \in Launching /\ r.at \notin {"idle", "kept", "probe"}
  /\ r.at \in {"stop", "free"} => launch[l].at \in {"probe", "stop"}
  /\ launch[l].at = "wait" =>
       /\ r.at = "done"
       /\ r.kind = "tui" /\ ~r.ok => WaitTimesOut(l) /\ launch[l].kind = "tui"
  /\ launch' = [launch EXCEPT ![l] = r]

\* One that begins, with the next number for a helper if it is the GUI's.
Begun(l, r) ==
  /\ l \in First /\ r \in Launching
  /\ r.at \in {"boot", "probe", "done"}
  /\ \/ r.at # "probe" /\ launch' = [launch EXCEPT ![l] = r]
     \/ /\ r.at = "probe" /\ l + 1 \in Launches
        /\ launch' = [launch EXCEPT ![l] = r, ![l + 1].at = "kept"]

Helped(l) == launch[l].at \in {"probe", "free"} /\ launch' = Helps(l)

\* A launch that goes on.
LEMMA GoesOn ==
  ASSUME Types, NEW l \in Launches,
         launch[l].at \notin {"idle", "kept", "wait", "done"},
         NEW at \in {"creating", "ask", "port", "wait", "stop", "free"},
         At(l, at),
         at \in {"stop", "free"} => launch[l].at \in {"probe", "stop"}
  PROVE  \E r : Goes(l, r)
<1>1. /\ [launch[l] EXCEPT !.at = at] \in Launching
      /\ [launch[l] EXCEPT !.at = at].at = at
  BY DEF Types, Launching
<1> QED
  BY <1>1 DEF Goes, At, Types

\* A launch that is over.
LEMMA GoesOver ==
  ASSUME Types, NEW l \in Launches, NEW ok \in BOOLEAN, Over(l, ok)
  PROVE  \E r \in Launching : /\ launch' = [launch EXCEPT ![l] = r]
                              /\ r.at = "done" /\ r.ok = ok
                              /\ r.kind = launch[l].kind
<1>1. [NoLaunch EXCEPT !.at = "done", !.kind = launch[l].kind, !.ok = ok]
         \in Launching
  BY ConstantsAssumption DEF Types, Launching, NoLaunch, Ids
<1> QED
  BY <1>1 DEF Over, NoLaunch

\* A launch that begins.
LEMMA NewType ==
  ASSUME NEW kind \in {"cli", "tui", "gui"}, NEW v \in Versions
  PROVE  /\ New(kind, v) \in Launching
         /\ New(kind, v).at = IF kind = "gui" THEN "probe" ELSE "boot"
BY DEF New, NoLaunch, Launching, Ids

\* A step begins a launch, moves one, lets one run its helper, or none.
LEMMA LaunchKinds ==
  ASSUME Types, [Next]_vars
  PROVE  \/ UNCHANGED launch
         \/ \E l \in Launches : \/ \E r : Goes(l, r) \/ Begun(l, r)
                                \/ Helped(l)
<1> DEFINE Kinds(l) == (\E r : Goes(l, r) \/ Begun(l, r)) \/ Helped(l)
<1>1. ASSUME NEW d \in Daemons, Starting(d) \/ Ending(d)
      PROVE  UNCHANGED launch
  BY <1>1 DEF Starting, BootLooks, BootCreates, Starts, RecordsRunning,
     Ending, Fails, Closes, RecordsStopped, ForceExit, StopAsked, Kill
<1>2. ASSUME NEW l \in Launches, UserStarts(l)
      PROVE  Kinds(l)
  <2>1. ASSUME NEW kind \in {"cli", "tui"}, NEW v \in Versions,
               launch' = [launch EXCEPT ![l] = New(kind, v)]
        PROVE  Begun(l, New(kind, v))
    BY <1>2, <2>1, NewType DEF Begun, UserStarts
  <2>2. ASSUME l < N,
               launch' = [launch EXCEPT ![l] = New("gui", GUI),
                                        ![l + 1].at = "kept"]
        PROVE  Begun(l, New("gui", GUI))
    <3>1. l + 1 \in Launches
      BY <2>2, ConstantsAssumption DEF Launches
    <3>2. New("gui", GUI) \in Launching /\ New("gui", GUI).at = "probe"
      BY NewType, ConstantsAssumption
    <3> HIDE DEF New
    <3> QED
      BY <1>2, <2>2, <3>1, <3>2 DEF Begun, UserStarts
  <2> QED
    BY <1>2, <2>1, <2>2, ConstantsAssumption DEF UserStarts
<1>3. ASSUME NEW l \in Launches, LaunchLooks(l) \/ LaunchCreates(l)
      PROVE  Kinds(l)
  <2>1. \E at \in {"creating", "ask"} : At(l, at)
    <3>1. CASE LaunchLooks(l)
      <4>1. launch' = [launch EXCEPT ![l] = Look(launch[l], "ask")]
        BY <3>1 DEF LaunchLooks, Types
      <4> QED
        BY <4>1 DEF Look, At
    <3> QED
      BY <1>3, <3>1 DEF LaunchCreates
  <2> QED
    BY <1>3, <2>1, GoesOn DEF LaunchLooks, LaunchCreates
<1>4. ASSUME NEW l \in Launches, RunsDirectly(l)
      PROVE  Kinds(l)
  BY <1>4, GoesOver DEF RunsDirectly, Begun
<1>5. ASSUME NEW l \in Launches, NEW ok \in BOOLEAN, Over(l, ok),
             launch[l].at \notin {"idle", "kept", "done"},
             launch[l].at = "wait" =>
               ok \/ launch[l].kind = "cli" \/ WaitTimesOut(l)
      PROVE  Kinds(l)
  <2>1. PICK r \in Launching : /\ launch' = [launch EXCEPT ![l] = r]
                               /\ r.at = "done" /\ r.ok = ok
                               /\ r.kind = launch[l].kind
    BY <1>5, GoesOver
  <2>2. Goes(l, r)
    BY <1>5, <2>1 DEF Goes
  <2> QED
    BY <2>2
<1>6. ASSUME NEW l \in Launches,
             \/ Asks(l) \/ Spawns(l) \/ Polls(l) \/ SeesExit(l)
             \/ WaitTimesOut(l) \/ GuiTimesOut(l) \/ SeesPortOpen(l)
      PROVE  Kinds(l)
  <2>1. /\ launch[l].at \notin {"idle", "kept", "done"}
        /\ \/ \E ok \in BOOLEAN :
                /\ Over(l, ok)
                /\ launch[l].at = "wait" =>
                     ok \/ launch[l].kind = "cli" \/ WaitTimesOut(l)
           \/ /\ launch[l].at \in {"ask", "port"}
              /\ \E at \in {"port", "wait"} : At(l, at)
    BY <1>6 DEF Asks, Spawns, Polls, SeesExit, WaitTimesOut, GuiTimesOut,
       SeesPortOpen
  <2> QED
    BY <1>5, <2>1, GoesOn
<1>7. ASSUME NEW l \in Launches, Probes(l) \/ SeesPortFree(l)
      PROVE  Kinds(l)
  <2>1. \/ Helped(l)
        \/ launch[l].at = "probe" /\ \E ok \in BOOLEAN : Over(l, ok)
        \/ launch[l].at = "probe" /\ At(l, "stop")
    BY <1>7 DEF Probes, SeesPortFree, Helped
  <2> QED
    BY <1>5, <2>1, GoesOn
<1>8. ASSUME NEW l \in Launches, Stops(l)
      PROVE  Kinds(l)
  <2>1. ASSUME NEW d \in Daemons,
               launch' = [launch EXCEPT ![l].at = "free", ![l].stopped = d]
        PROVE  Goes(l, [launch[l] EXCEPT !.at = "free", !.stopped = d])
    <3>1. /\ [launch[l] EXCEPT !.at = "free", !.stopped = d] \in Launching
          /\ [launch[l] EXCEPT !.at = "free", !.stopped = d].at = "free"
      BY DEF Types, Launching, Ids
    <3>2. launch' = [launch EXCEPT ![l] =
                       [launch[l] EXCEPT !.at = "free", !.stopped = d]]
      BY <2>1 DEF Types
    <3> QED
      BY <1>8, <3>1, <3>2 DEF Goes, Stops
  <2>2. /\ launch[l].at = "stop"
        /\ \/ \E ok \in BOOLEAN : Over(l, ok)
           \/ At(l, "free")
           \/ \E d \in Daemons :
                launch' = [launch EXCEPT ![l].at = "free", ![l].stopped = d]
    BY <1>8 DEF Stops
  <2> QED
    BY <1>5, <2>1, <2>2, GoesOn
<1>9. CASE UNCHANGED vars
  BY <1>9 DEF vars
<1> QED
  BY <1>1, <1>2, <1>3, <1>4, <1>6, <1>7, <1>8, <1>9, StepKinds DEF Asking

\* `ntr start`, run by the launch of the GUI before it.
LEMMA HelpedSets ==
  ASSUME Types, GuiInv, NEW l \in Launches, Helped(l)
  PROVE  /\ l + 1 \in Launches /\ launch[l + 1].at = "kept"
         /\ \E r, q \in Launching :
              /\ r.at = "listen" /\ q.at = "boot"
              /\ launch' = [launch EXCEPT ![l] = r, ![l + 1] = q]
<1>1. l + 1 \in Launches /\ launch[l + 1].at = "kept"
  BY DEF GuiInv, Helped
<1>2. /\ New("cli", launch[l].version) \in Launching
      /\ New("cli", launch[l].version).at = "boot"
  BY NewType DEF Types, Launching
<1>3. /\ [launch[l] EXCEPT !.at = "listen"] \in Launching
      /\ [launch[l] EXCEPT !.at = "listen"].at = "listen"
  BY DEF Types, Launching
<1>4. launch' = [launch EXCEPT ![l] = [launch[l] EXCEPT !.at = "listen"],
                               ![l + 1] = New("cli", launch[l].version)]
  BY DEF Helped, Helps, Types
<1> HIDE DEF New
<1> QED
  BY <1>1, <1>2, <1>3, <1>4

\* Every step keeps the launches, and the numbers the GUI keeps.
LEMMA LaunchStep ==
  ASSUME Types, GuiInv, [Next]_vars
  PROVE  launch' \in [Launches -> Launching] /\ GuiInv'
<1>0. /\ launch \in [Launches -> Launching]
      /\ \A l \in Launches : l \in Nat /\ l # l + 1
  BY DEF Types, Launches
<1>1. CASE UNCHANGED launch
  BY <1>0, <1>1 DEF GuiInv
<1>2. ASSUME NEW l \in Launches, NEW r, Goes(l, r)
      PROVE  launch' \in [Launches -> Launching] /\ GuiInv'
  BY <1>0, <1>2 DEF Goes, GuiInv
<1>3. ASSUME NEW l \in Launches, NEW r, Begun(l, r), r.at # "probe"
      PROVE  launch' \in [Launches -> Launching] /\ GuiInv'
  <2>1. /\ launch' = [launch EXCEPT ![l] = r] /\ r \in Launching
        /\ r.at \in {"boot", "done"} /\ l \in First
    BY <1>3 DEF Begun
  <2>2. /\ launch' \in [Launches -> Launching] /\ launch'[l] = r
        /\ \A k \in Launches : k # l => launch'[k] = launch[k]
    BY <1>0, <2>1
  <2>3. \A k \in Launches : k < l => launch[k].at # "idle"
    BY <2>1 DEF First, Launches
  <2>4. launch[l].at = "idle"
    BY <2>1 DEF First
  <2> QED
    BY <1>0, <2>1, <2>2, <2>3, <2>4 DEF GuiInv
<1>4. ASSUME NEW l \in Launches, NEW r, Begun(l, r), r.at = "probe"
      PROVE  launch' \in [Launches -> Launching] /\ GuiInv'
  <2>1. /\ l + 1 \in Launches /\ l \in First /\ r \in Launching
        /\ launch' = [launch EXCEPT ![l] = r, ![l + 1].at = "kept"]
    BY <1>4 DEF Begun
  <2>2. /\ launch' \in [Launches -> Launching]
        /\ launch'[l] = r /\ launch'[l + 1].at = "kept"
        /\ \A k \in Launches : k \notin {l, l + 1} => launch'[k] = launch[k]
    BY <1>0, <2>1 DEF Launching
  <2>3. launch[l].at = "idle" /\ launch[l + 1].at = "idle"
    BY <1>0, <2>1 DEF First, GuiInv
  <2>4. \A k \in Launches : k < l + 1 => launch'[k].at # "idle"
    BY <1>0, <1>4, <2>1, <2>2 DEF First, Launches
  <2> QED
    BY <1>0, <1>4, <2>1, <2>2, <2>3, <2>4 DEF GuiInv, Launches
<1>5. ASSUME NEW l \in Launches, Helped(l)
      PROVE  launch' \in [Launches -> Launching] /\ GuiInv'
  <2>1. PICK r, q \in Launching :
          /\ r.at = "listen" /\ q.at = "boot"
          /\ launch' = [launch EXCEPT ![l] = r, ![l + 1] = q]
    BY <1>5, HelpedSets
  <2>2. /\ launch' \in [Launches -> Launching] /\ l + 1 \in Launches
        /\ launch'[l] = r /\ launch'[l + 1] = q
        /\ \A k \in Launches : k \notin {l, l + 1} => launch'[k] = launch[k]
    BY <1>0, <1>5, <2>1, HelpedSets
  <2>3. launch[l + 1].at = "kept" /\ launch[l].at # "idle"
    BY <1>5, HelpedSets DEF Helped
  <2> QED
    <3>1. \A k \in Launches : launch'[k].at \in {"probe", "stop", "free"} =>
            /\ launch[k].at \in {"probe", "stop", "free"}
            /\ k \notin {l, l + 1} /\ k + 1 # l + 1 /\ k + 1 # l
      BY <1>0, <1>5, <2>1, <2>2, <2>3 DEF GuiInv, Helped, Launches
    <3>2. \A k \in Launches : launch'[k].at = "idle" =>
            launch[k].at = "idle" /\ k \notin {l, l + 1}
      BY <2>1, <2>2
    <3>3. \A i, k \in Launches : i < k /\ launch'[i].at = "idle" =>
            launch'[k].at = "idle"
      BY <1>0, <2>2, <2>3, <3>2 DEF GuiInv
    <3>4. \A k \in Launches : launch'[k].at \in {"probe", "stop", "free"} =>
            k + 1 \in Launches /\ launch'[k + 1].at = "kept"
      BY <1>0, <2>2, <3>1 DEF GuiInv
    <3> QED
      BY <2>2, <3>3, <3>4 DEF GuiInv
<1> QED
  BY <1>1, <1>2, <1>3, <1>4, <1>5, LaunchKinds

\* Every step keeps the types of the files and of the budget.
LEMMA RestStep ==
  ASSUME Types, [Next]_vars
  PROVE  RestTypes'
<1>0. /\ Launches \subseteq Ids /\ Daemons \subseteq Ids /\ None \in Ids
      /\ RestTypes
  BY DEF Launches, Daemons, Ids, Types
<1> USE DEF RestTypes
<1>1. CASE UNCHANGED vars
  BY <1>0, <1>1 DEF vars
<1>2. ASSUME NEW d \in Daemons, Starting(d)
      PROVE  RestTypes'
  BY <1>0, <1>2 DEF Starting, BootLooks, BootCreates, Starts, RecordsRunning,
     File
<1>3. ASSUME NEW d \in Daemons, Ending(d)
      PROVE  RestTypes'
  <2>1. left' = left \/ Spend
    BY <1>3 DEF Ending, Fails, Closes, RecordsStopped, ForceExit, StopAsked,
       Kill
  <2>2. left' \in 0..Budget
    BY <1>0, <2>1, ConstantsAssumption DEF Spend
  <2>3. file' \in {file, File("error", None), File("stopped", None)}
    BY <1>3 DEF Ending, Fails, Closes, RecordsStopped, ForceExit, StopAsked,
       Kill
  <2> QED
    BY <1>0, <1>3, <2>2, <2>3, EndingLeaves DEF File
<1>4. ASSUME NEW l \in Launches, Asking(l)
      PROVE  RestTypes'
  <2>1. cookie' \in {cookie, l}
    BY <1>4 DEF Asking, UserStarts, LaunchLooks, LaunchCreates, Asks, Polls,
       SeesExit, Probes, SeesPortFree, SeesPortOpen, GuiTimesOut, Still
  <2> QED
    BY <1>0, <1>4, <2>1, AskingQuiet
<1>5. ASSUME NEW l \in Launches,
             Stops(l) \/ WaitTimesOut(l) \/ Spawns(l) \/ RunsDirectly(l)
      PROVE  RestTypes'
  BY <1>0, <1>5 DEF Stops, WaitTimesOut, Spawns, RunsDirectly, Still
<1> QED
  BY <1>1, <1>2, <1>3, <1>4, <1>5, StepKinds

-----------------------------------------------------------------------------
(* The child of a launch that failed.                                      *)

\* A launch that spawned nothing yet had not before.
LEMMA LaunchBack ==
  ASSUME Types, GuiInv, [Next]_vars, NEW l \in Launches,
         launch'[l].at \notin {"wait", "done"}
  PROVE  launch[l].at \notin {"wait", "done"}
<1>0. launch \in [Launches -> Launching]
  BY DEF Types
<1>1. ASSUME NEW k \in Launches, NEW r, Goes(k, r)
      PROVE  launch[l].at \notin {"wait", "done"}
  BY <1>0, <1>1 DEF Goes
<1>2. ASSUME NEW k \in Launches, NEW r, Begun(k, r)
      PROVE  launch[l].at \notin {"wait", "done"}
  <2>1. CASE l = k
    BY <1>2, <2>1 DEF Begun, First
  <2>2. CASE l # k /\ l # k + 1
    BY <1>0, <1>2, <2>2 DEF Begun
  <2>3. CASE l = k + 1 /\ l # k
    <3>1. launch[l].at = "idle"
      BY <1>2, <2>3 DEF Begun, First, GuiInv, Launches
    <3> QED
      BY <3>1
  <2> QED
    BY <2>1, <2>2, <2>3
<1>3. ASSUME NEW k \in Launches, Helped(k)
      PROVE  launch[l].at \notin {"wait", "done"}
  BY <1>0, <1>3, HelpedSets DEF Helped
<1> QED
  BY <1>1, <1>2, <1>3, LaunchKinds

\* A daemon that has the port or may still take it.
Rises(d) == daemon[d].at \in {"boot", "creating", "starting", "up"}

\* It was one before, or is spawned just now.
LEMMA RisesBack ==
  ASSUME Types, [Next]_vars, NEW l \in Launches, Rises(l)'
  PROVE  Rises(l) \/ Spawned(l)
<1>0. l \in Daemons /\ Launches \subseteq Daemons
  BY DEF Launches, Daemons
<1> USE DEF Rises
<1>1. CASE UNCHANGED daemon
  BY <1>1
<1>2. ASSUME NEW d \in Daemons, Starting(d)
      PROVE  Rises(l)
  <2>1. Rises(d) /\ \E r : DaemonTo(d, r)
    BY <1>2, StartingTo DEF Starting, BootLooks, BootCreates, Starts,
       RecordsRunning
  <2> QED
    BY <1>0, <2>1 DEF DaemonTo
<1>3. ASSUME NEW d \in Daemons, Leaves(d)
      PROVE  Rises(l)
  BY <1>0, <1>3 DEF Leaves, DaemonTo
<1>4. ASSUME NEW k \in Launches, Spawned(k), k # l
      PROVE  Rises(l)
  BY <1>0, <1>4, SpawnedTo DEF DaemonTo
<1> QED
  BY <1>1, <1>2, <1>3, <1>4, DaemonKinds

\* So is every daemon where there was none.
LEMMA NoneStays ==
  ASSUME Types, [Next]_vars, NEW l \in Launches, daemon[l].at = "none"
  PROVE  daemon'[l].at = "none" \/ Spawned(l)
<1>0. l \in Daemons /\ Launches \subseteq Daemons
  BY DEF Launches, Daemons
<1>1. ASSUME NEW d \in Daemons, Starting(d)
      PROVE  daemon'[l] = daemon[l]
  <2>1. d # l /\ \E r : DaemonTo(d, r)
    BY <1>1, StartingTo DEF Starting, BootLooks, BootCreates, Starts,
       RecordsRunning
  <2> QED
    BY <1>0, <2>1 DEF DaemonTo
<1>2. ASSUME NEW d \in Daemons, Leaves(d)
      PROVE  daemon'[l] = daemon[l]
  BY <1>0, <1>2 DEF Leaves, DaemonTo, Alive
<1>3. ASSUME NEW k \in Launches, Spawned(k), k # l
      PROVE  daemon'[l] = daemon[l]
  BY <1>0, <1>3, SpawnedTo DEF DaemonTo
<1> QED
  BY <1>1, <1>2, <1>3, DaemonKinds

\* The terminal UI that gives up takes its child from where it starts.
LEMMA TimesOutClears ==
  ASSUME Types, NEW l \in Launches, WaitTimesOut(l), launch[l].kind = "tui"
  PROVE  ~Rises(l)'
<1>1. /\ l \in Daemons /\ Signal(l)
      /\ daemon \in [Daemons -> Process]
  BY DEF WaitTimesOut, Launches, Daemons, Types
<1>2. CASE daemon[l].at \in {"boot", "creating", "starting"}
  BY <1>1, <1>2, GoneType DEF Signal, SetDaemon, Rises
<1>3. CASE daemon[l].at = "up"
  BY <1>1, <1>3 DEF Signal, Shutdown, SetDaemon, Rises, Process
<1>4. CASE ~Rises(l)
  BY <1>1, <1>4 DEF Signal, Shutdown, Rises
<1> QED
  BY <1>2, <1>3, <1>4 DEF Rises

\* A launch of a terminal UI that failed.
Failed(l) ==
  launch[l].kind = "tui" /\ launch[l].at = "done" /\ ~launch[l].ok

\* It had failed, had spawned nothing, or gives up just now.
LEMMA FailedHow ==
  ASSUME Types, GuiInv, [Next]_vars, NEW l \in Launches, Failed(l)'
  PROVE  \/ Failed(l)
         \/ launch[l].at \notin {"wait", "done"}
         \/ WaitTimesOut(l) /\ launch[l].kind = "tui"
<1>0. launch \in [Launches -> Launching]
  BY DEF Types
<1>1. CASE launch'[l] = launch[l]
  BY <1>1 DEF Failed
<1>2. ASSUME NEW k \in Launches, NEW r, Goes(k, r),
             launch[l].at \in {"wait", "done"}
      PROVE  Failed(l) \/ (WaitTimesOut(l) /\ launch[l].kind = "tui")
  <2>1. CASE k = l
    BY <1>0, <1>2, <2>1 DEF Goes, Failed
  <2>2. CASE k # l
    BY <1>0, <1>2, <2>2 DEF Goes, Failed
  <2> QED
    BY <2>1, <2>2
<1>3. ASSUME NEW k \in Launches, NEW r, Begun(k, r),
             launch[l].at \in {"wait", "done"}
      PROVE  launch'[l] = launch[l]
  <2>1. launch[k].at = "idle" /\ l # k
    BY <1>3 DEF Begun, First
  <2>2. l # k + 1
    BY <1>3, <2>1 DEF GuiInv, Launches
  <2> QED
    BY <1>0, <1>3, <2>1, <2>2 DEF Begun
<1>4. ASSUME NEW k \in Launches, Helped(k),
             launch[l].at \in {"wait", "done"}
      PROVE  launch'[l] = launch[l]
  BY <1>0, <1>4, HelpedSets DEF Helped
<1> QED
  BY <1>1, <1>2, <1>3, <1>4, LaunchKinds

\* Every step keeps what is known of the children.
LEMMA ChildStep ==
  ASSUME Types, GuiInv, ChildInv, FailedChildNeverUp, [Next]_vars
  PROVE  ChildInv' /\ FailedChildNeverUp'
<1>1. ASSUME NEW l \in Launches, launch'[l].at \notin {"wait", "done"}
      PROVE  daemon'[l].at = "none"
  BY <1>1, LaunchBack, NoneStays DEF ChildInv, Spawned
<1>2. ASSUME NEW l \in Launches, Failed(l)'
      PROVE  ~Rises(l)'
  <2>1. ~Spawned(l)
    BY <1>2 DEF Failed, Spawned
  <2>2. CASE Failed(l)
    BY <2>1, <2>2, RisesBack DEF FailedChildNeverUp, Failed, Rises
  <2>3. CASE launch[l].at \notin {"wait", "done"}
    BY <2>1, <2>3, NoneStays DEF ChildInv, Rises
  <2>4. CASE WaitTimesOut(l) /\ launch[l].kind = "tui"
    BY <2>4, TimesOutClears
  <2> QED
    BY <1>2, <2>2, <2>3, <2>4, FailedHow
<1>3. ChildInv'
  BY <1>1 DEF ChildInv
<1>4. FailedChildNeverUp'
  BY <1>2 DEF FailedChildNeverUp, Failed, Rises
<1> QED
  BY <1>3, <1>4

-----------------------------------------------------------------------------
\* The first start ever, and a daemon that runs already.
LEMMA IInvInit ==
  ASSUME Init
  PROVE  IInv
<1>1. /\ NoDaemon \in Process /\ NoDaemon.at = "none" /\ ~NoDaemon.recorded
      /\ NoLaunch \in Launching /\ NoLaunch.at = "idle"
      /\ 0 \in Daemons /\ 0 \notin Launches /\ 0 # None
      /\ Launches \subseteq Daemons
  BY ConstantsAssumption DEF NoDaemon, NoLaunch, Process, Launching, Daemons,
     Launches, Ids, None
<1>2. launch = [l \in Launches |-> NoLaunch]
  BY DEF Init
<1>3. /\ daemon \in [Daemons -> Process]
      /\ \A d \in Daemons : d # 0 => daemon[d] = NoDaemon
      /\ daemon[0] = NoDaemon \/ daemon[0].at = "up"
  <2>1. CASE daemon = [d \in Daemons |-> NoDaemon]
    BY <1>1, <2>1
  <2>2. CASE daemon # [d \in Daemons |-> NoDaemon]
    <3>1. PICK v \in Versions :
            daemon = [d \in Daemons |->
                 IF d # 0 THEN NoDaemon
                 ELSE [at |-> "up", version |-> v, cookie |-> 0,
                       recorded |-> TRUE]]
      BY <2>2 DEF Init
    <3>2. [at |-> "up", version |-> v, cookie |-> 0, recorded |-> TRUE]
             \in Process
      BY <1>1 DEF Process, Ids
    <3> QED
      BY <1>1, <3>1, <3>2
  <2> QED
    BY <2>1, <2>2
<1>4. Types
  <2>1. launch \in [Launches -> Launching]
    BY <1>1, <1>2
  <2>2. cookie \in {0, None} /\ None \in Ids /\ 0 \in Ids
    BY <1>1 DEF Init, Ids
  <2>3. file \in {File("initialized", None), File("running", 0)}
    BY DEF Init
  <2>4. left \in 0..Budget
    BY ConstantsAssumption DEF Init
  <2>5. file \in [status : {"initialized", "running", "stopped", "error"},
                   pid : Ids]
    BY <2>2, <2>3 DEF File
  <2>6. cookie \in Ids
    BY <2>2
  <2>7. RestTypes
    BY <2>4, <2>5, <2>6, Zenon DEF RestTypes
  <2> QED
    BY <1>3, <2>1, <2>7 DEF Types
<1>5. PortInv /\ GuiInv /\ ChildInv /\ FailedChildNeverUp
  BY <1>1, <1>2, <1>3 DEF PortInv, GuiInv, ChildInv, FailedChildNeverUp,
     NoDaemon
<1> QED
  BY <1>4, <1>5 DEF IInv

\* Every step keeps the inductive invariant.
LEMMA IInvStep ==
  ASSUME IInv, [Next]_vars
  PROVE  IInv'
BY PortStep, LaunchStep, RestStep, ChildStep DEF IInv, Types

\* The inductive invariant holds in every reachable state.
THEOREM IInvHolds == Spec => []IInv
<1>1. Init => IInv
  BY IInvInit
<1>2. IInv /\ [Next]_vars => IInv'
  BY IInvStep
<1> QED
  BY <1>1, <1>2, PTL DEF Spec

\* Every reachable state has its type, and one daemon at most has the port.
THEOREM TypeCorrect == Spec => []TypeOK
<1>1. IInv => TypeOK
  <2>1. SUFFICES ASSUME IInv PROVE TypeOK
    OBVIOUS
  <2>2. \A d, e \in Holder : d = e
    BY <2>1 DEF IInv, PortInv, Holder
  <2>3. Cardinality(Holder) <= 1
    <3> HIDE DEF Holder
    <3>1. CASE Holder = {}
      BY <3>1, FS_EmptySet
    <3>2. ASSUME NEW d \in Holder PROVE Cardinality(Holder) <= 1
      <4>1. Holder = {d}
        BY <2>2, <3>2
      <4>2. Cardinality({d}) = 1
        BY FS_Singleton
      <4> QED
        BY <4>1, <4>2
    <3> QED
      BY <3>1, <3>2
  <2> QED
    BY <2>1, <2>3 DEF IInv, Types, RestTypes, TypeOK, Process, Launching
<1> QED
  BY <1>1, IInvHolds, PTL

\* A terminal UI that has told its user that the daemon did not start leaves
\* no child that may still take the port (ensureDaemonRunning in
\* src/src/tui.js).
THEOREM FailedChildNeverUpHolds == Spec => []FailedChildNeverUp
<1>1. IInv => FailedChildNeverUp
  BY DEF IInv
<1> QED
  BY <1>1, IInvHolds, PTL
=============================================================================
