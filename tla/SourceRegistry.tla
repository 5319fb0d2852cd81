--------------------------- MODULE SourceRegistry ---------------------------
(***************************************************************************)
(* The daemon's sources from import to removal: the entries of             *)
(* sources.json (src/src/source-registry.js), the wallet files a worker    *)
(* builds after the import has been answered, the wallets the daemon has   *)
(* open, and the handlers of src/src/daemon.js that change all three, with *)
(* the daemon stopping and starting in between.                            *)
(*                                                                         *)
(* Every change of sources.json is one step: updateJsonFile reads, changes *)
(* and renames in a turn of its own (src/src/app-data.js).  A source is    *)
(* one derivation of one secret; importing a phrase asks for several.  At  *)
(* most one removal of each source and one purge are under way at a time.  *)
(***************************************************************************)
EXTENDS Integers

CONSTANTS
  Sources,   \* the derivations that can be imported
  Imports,   \* identities of import requests
  Phrase,    \* the derivations each import asks for
  Budget     \* how often each event of the environment may happen

\* An import, removal or purge that comes while something is under way that it
\* may disturb counts as "early", and so does a "stopEarly".
Failures == {"createFail", "deleteFail", "writeFail"}
Events == {"early", "remove", "purge", "stop", "stopEarly"} \cup Failures

ASSUME ConstantsAssumption ==
  /\ Phrase \in [Imports -> SUBSET Sources]
  /\ Budget \in [Events -> Nat]

VARIABLES
  (* sources.json *)
  entries,   \* how many entries each source has
  failed,    \* the sources whose entry says 'error'
  synced,    \* the sources whose entry has a lastSyncedAt
  (* the wallets directory *)
  file,      \* what each source's wallet file holds
  scanned,   \* the sources whose file holds the result of a scan (observed)
  orphans,   \* the sources whose worker has outlived its daemon
  cut,       \* the sources whose creation or removal was begun and came to no
             \* good end, until they are removed (observed)
  (* the daemon *)
  up, booted,
  live,      \* the sources with a state in walletState
  marking,   \* the sources with a finishSync about to record them
  imp, fresh,  \* where each import is, and what it found to be missing
  job,       \* where the creation of each wallet of each import is
  rem,       \* where the removal of each source is
  purge,
  (* the environment *)
  left

regVars == <<entries, failed, synced>>
fileVars == <<file, scanned, orphans>>
runVars == <<up, booted>>
reqVars == <<imp, fresh, rem, purge>>
vars == <<cut, regVars, fileVars, runVars, live, marking, reqVars, job, left>>

\* none; begun by a worker; finished by it; made by an open, from no secret.
Files == {"none", "partial", "built", "blank"}
JobStages == {"none", "checking", "building", "writing", "opening", "failing",
              "done"}
Building == {"building", "writing"}

Present(s) == entries[s] > 0
Creating(s) == \/ \E i \in Imports : job[i][s] \notin {"none", "done"}
               \/ \E i \in Imports : imp[i] = "adding" /\ s \in fresh[i]
               \/ s \in orphans
AtRest(s) == booted /\ purge = "idle" /\ ~Creating(s) /\ s \notin marking
Listed == {s \in Sources : Present(s)}
Quiet == \A s \in Sources : AtRest(s) /\ rem[s] = "idle"

Spend(e) == left[e] > 0 /\ left' = [left EXCEPT ![e] = @ - 1]
SetJob(i, s, stage) == job' = [job EXCEPT ![i][s] = stage]
Delete(S) ==
  /\ file' = [s \in Sources |-> IF s \in S THEN "none" ELSE file[s]]
  /\ scanned' = scanned \ S
  /\ UNCHANGED orphans

\* openSourceWallet: a source that is open stays as it is; opening one that
\* has no file makes one.
Open(S) ==
  /\ live' = live \cup S
  /\ file' = [s \in Sources |->
                IF s \in S \ live /\ file[s] = "none" THEN "blank"
                                                  ELSE file[s]]
  /\ UNCHANGED <<scanned, orphans>>

-----------------------------------------------------------------------------
Init ==
  /\ entries = [s \in Sources |-> 0]
  /\ failed = {} /\ synced = {}
  /\ file = [s \in Sources |-> "none"]
  /\ scanned = {} /\ orphans = {} /\ cut = {}
  /\ up = "up" /\ booted = FALSE
  /\ live = {} /\ marking = {}
  /\ imp = [i \in Imports |-> "new"]
  /\ fresh = [i \in Imports |-> {}]
  /\ job = [i \in Imports |-> [s \in Sources |-> "none"]]
  /\ rem = [s \in Sources |-> "idle"]
  /\ purge = "idle"
  /\ left = Budget

\* The daemon serves while it loads navcoin-js; then every stored source is
\* opened, whatever its entry says.
BootOpens ==
  /\ up # "down" /\ ~booted
  /\ booted' = TRUE
  /\ Open(Listed)
  /\ UNCHANGED <<cut, regVars, up, marking, reqVars, job, left>>

-----------------------------------------------------------------------------
(* /import.                                                                *)

\* importSources up to the wallets, whose creation the handler leaves out.
Import(i) ==
  /\ up = "up" /\ imp[i] = "new"
  /\ IF booted /\ purge = "idle" /\ \A s \in Phrase[i] : rem[s] = "idle"
     THEN UNCHANGED left
     ELSE Spend("early")
  /\ LET missing == {s \in Phrase[i] : ~Present(s)} IN
     /\ fresh' = [fresh EXCEPT ![i] = missing]
     /\ imp' = [imp EXCEPT ![i] = IF missing = {} THEN "refused" ELSE "adding"]
  /\ UNCHANGED <<cut, regVars, fileVars, runVars, live, marking, job, rem,
                 purge>>

\* The registry gains an entry for each of `added`, and then the import is
\* answered and their wallets are created in the background.
Register(i, added) ==
  /\ imp' = [imp EXCEPT ![i] = "answered"]
  /\ entries' = [s \in Sources |->
                   IF s \in added THEN entries[s] + 1 ELSE entries[s]]
  /\ job' = [job EXCEPT ![i] =
               [s \in Sources |-> IF s \in added THEN "checking" ELSE @[s]]]

\* Mutant: what was missing when the import read the registry is added
\* without another look.
ImportAddsBlind(i) ==
  /\ imp[i] = "adding"
  /\ Register(i, fresh[i])
  /\ UNCHANGED <<cut, failed, synced, fileVars, runVars, live, marking, fresh,
                 rem, purge, left>>

\* The turn that adds what is still missing, or finds nothing to add, or
\* cannot write.
ImportAdds(i) ==
  /\ imp[i] = "adding"
  /\ LET added == {s \in fresh[i] : ~Present(s)} IN
     \/ added # {} /\ Register(i, added) /\ UNCHANGED left
     \/ /\ IF added = {} THEN UNCHANGED left ELSE Spend("writeFail")
        /\ imp' = [imp EXCEPT ![i] = "refused"]
        /\ UNCHANGED <<entries, job>>
  /\ UNCHANGED <<cut, failed, synced, fileVars, runVars, live, marking, fresh,
                 rem, purge>>

\* createImportedWallet takes a file that exists as it is.
JobChecks(i, s) ==
  /\ job[i][s] = "checking"
  /\ SetJob(i, s, IF file[s] = "none" THEN "building" ELSE "opening")
  /\ UNCHANGED <<cut, regVars, fileVars, runVars, live, marking, reqVars,
                 left>>

\* Mutant: nobody waits for the worker to end.
WorkerWritesUnawaited(i, s) ==
  /\ job[i][s] = "building"
  /\ SetJob(i, s, "opening")
  /\ file' = [file EXCEPT ![s] = IF @ = "none" THEN "partial" ELSE @]
  /\ UNCHANGED <<cut, regVars, scanned, orphans, runVars, live, marking,
                 reqVars, left>>

\* The worker makes the file and derives into it.
WorkerWrites(i, s) ==
  /\ job[i][s] = "building"
  /\ SetJob(i, s, "writing")
  /\ file' = [file EXCEPT ![s] = IF @ = "none" THEN "partial" ELSE @]
  /\ UNCHANGED <<cut, regVars, scanned, orphans, runVars, live, marking,
                 reqVars, left>>

\* What it wrote is gone if the file was deleted under it.
WorkerDone(i, s) ==
  /\ job[i][s] = "writing"
  /\ SetJob(i, s, "opening")
  /\ file' = [file EXCEPT ![s] = IF @ = "partial" THEN "built" ELSE @]
  /\ UNCHANGED <<cut, regVars, scanned, orphans, runVars, live, marking,
                 reqVars, left>>

\* The directory cannot be made, the worker fails or navcoin-js does not
\* load.  What a worker that reports a failure left is deleted, and a deletion
\* that fails is ignored.
JobFails(i, s) ==
  /\ job[i][s] \in {"checking", "opening"} \cup Building
  /\ Spend("createFail")
  /\ SetJob(i, s, "failing")
  /\ cut' = cut \cup {s}
  /\ \/ job[i][s] \in Building /\ Delete({s})
     \/ UNCHANGED fileVars
  /\ UNCHANGED <<regVars, runVars, live, marking, reqVars>>

\* Mutant: the failure is only logged.
MarkFailedNowhere(i, s) ==
  /\ job[i][s] = "failing"
  /\ SetJob(i, s, "done")
  /\ UNCHANGED <<cut, regVars, fileVars, runVars, live, marking, reqVars,
                 left>>

\* markSourceFailed, by the id alone; a registry that cannot be written is
\* only logged.
MarkFailed(i, s) ==
  /\ job[i][s] = "failing"
  /\ SetJob(i, s, "done")
  /\ \/ /\ failed' = (IF Present(s) THEN failed \cup {s} ELSE failed)
        /\ UNCHANGED left
     \/ /\ Spend("writeFail")
        /\ UNCHANGED failed
  /\ UNCHANGED <<cut, entries, synced, fileVars, runVars, live, marking,
                 reqVars>>

JobOpens(i, s) ==
  /\ job[i][s] = "opening"
  /\ SetJob(i, s, "done")
  /\ Open({s})
  /\ UNCHANGED <<cut, regVars, runVars, marking, reqVars, left>>

-----------------------------------------------------------------------------
(* The end of a scan, as far as the registry is concerned.                 *)

ScanEnds(s) ==
  /\ s \in live \ marking
  /\ marking' = marking \cup {s}
  /\ scanned' = scanned \cup {s}
  /\ UNCHANGED <<cut, regVars, file, orphans, runVars, live, reqVars, job,
                 left>>

\* markSourceSynced, by the id alone: also after the source has been closed.
MarkSynced(s) ==
  /\ s \in marking
  /\ marking' = marking \ {s}
  /\ \/ /\ synced' = (IF Present(s) THEN synced \cup {s} ELSE synced)
        /\ UNCHANGED left
     \/ /\ Spend("writeFail")
        /\ UNCHANGED synced
  /\ UNCHANGED <<cut, entries, failed, fileVars, runVars, live, reqVars, job>>

-----------------------------------------------------------------------------
(* /remove.                                                                *)

\* closeSourceWallet comes before anything is looked up.
RemoveCloses(s) ==
  /\ up = "up" /\ rem[s] = "idle"
  /\ Spend(IF AtRest(s) THEN "remove" ELSE "early")
  /\ rem' = [rem EXCEPT ![s] = "closed"]
  /\ live' = live \ {s}
  /\ UNCHANGED <<cut, regVars, fileVars, runVars, marking, imp, fresh, purge,
                 job>>

RemoveReads(s) ==
  /\ rem[s] = "closed"
  /\ rem' = [rem EXCEPT ![s] = IF Present(s) THEN "found" ELSE "idle"]
  /\ UNCHANGED <<cut, regVars, fileVars, runVars, live, marking, imp, fresh,
                 purge, job, left>>

\* Mutant: the wallet's file is forgotten.
RemoveDeletesNothing(s) ==
  /\ rem[s] = "found"
  /\ rem' = [rem EXCEPT ![s] = "deleted"]
  /\ UNCHANGED <<cut, regVars, fileVars, runVars, live, marking, imp, fresh,
                 purge, job, left>>

\* deleteOpenedWallet.
RemoveDeletes(s) ==
  /\ rem[s] = "found"
  /\ rem' = [rem EXCEPT ![s] = "deleted"]
  /\ Delete({s})
  /\ UNCHANGED <<cut, regVars, runVars, live, marking, imp, fresh, purge, job,
                 left>>

\* It throws, before or after the database is gone; the entry stays.
RemoveFails(s) ==
  /\ rem[s] = "found"
  /\ Spend("deleteFail")
  /\ rem' = [rem EXCEPT ![s] = "idle"]
  /\ \/ UNCHANGED <<cut, fileVars>>
     \/ Delete({s}) /\ cut' = cut \cup {s}
  /\ UNCHANGED <<regVars, runVars, live, marking, imp, fresh, purge, job>>

RemoveWrites(s) ==
  /\ rem[s] = "deleted"
  /\ rem' = [rem EXCEPT ![s] = "idle"]
  /\ \/ /\ entries' = [entries EXCEPT ![s] = 0]
        /\ failed' = failed \ {s} /\ synced' = synced \ {s}
        /\ cut' = cut \ {s}
        /\ UNCHANGED left
     \/ /\ Spend("writeFail")
        /\ cut' = cut \cup {s}
        /\ UNCHANGED regVars
  /\ UNCHANGED <<fileVars, runVars, live, marking, imp, fresh, purge, job>>

-----------------------------------------------------------------------------
(* /purge.                                                                 *)

PurgeCloses ==
  /\ up = "up" /\ purge = "idle"
  /\ Spend(IF Quiet THEN "purge" ELSE "early")
  /\ purge' = "closed"
  /\ live' = {}
  /\ UNCHANGED <<cut, regVars, fileVars, runVars, marking, imp, fresh, rem,
                 job>>

\* purgeOpenedWallets empties the wallets directory.
PurgeWipes ==
  /\ purge = "closed"
  /\ purge' = "wiped"
  /\ Delete(Sources)
  /\ UNCHANGED <<cut, regVars, runVars, live, marking, imp, fresh, rem, job,
                 left>>

\* The wipe throws half-way, or the registry cannot be written.
PurgeFails ==
  /\ purge' = "idle"
  /\ \/ /\ purge = "closed" /\ Spend("deleteFail")
        /\ \E S \in SUBSET Sources :
             Delete(S) /\ cut' = cut \cup (S \cap Listed)
     \/ /\ purge = "wiped" /\ Spend("writeFail")
        /\ cut' = cut \cup Listed
        /\ UNCHANGED fileVars
  /\ UNCHANGED <<regVars, runVars, live, marking, imp, fresh, rem, job>>

\* writeSources replaces whatever the registry holds by now.
PurgeWrites ==
  /\ purge = "wiped"
  /\ purge' = "answered"
  /\ entries' = [s \in Sources |-> 0]
  /\ failed' = {} /\ synced' = {} /\ cut' = {}
  /\ UNCHANGED <<fileVars, runVars, live, marking, imp, fresh, rem, job, left>>

-----------------------------------------------------------------------------
(* The process ends, and starts again.                                     *)

\* performShutdown refuses requests and closes every source; whatever runs
\* goes on until the process exits.
Stop ==
  /\ up = "up"
  /\ IF purge = "answered" THEN UNCHANGED left
                           ELSE Spend(IF Quiet THEN "stop" ELSE "stopEarly")
  /\ up' = "stopping"
  /\ live' = {}
  /\ UNCHANGED <<cut, regVars, fileVars, booted, marking, reqVars, job>>

\* What waits in the event loop is gone; a worker is a process of its own.
Down ==
  /\ up' = "down" /\ booted' = FALSE
  /\ live' = {} /\ marking' = {}
  /\ imp' = [i \in Imports |-> IF imp[i] = "adding" THEN "refused" ELSE imp[i]]
  /\ job' = [i \in Imports |->
               [s \in Sources |-> IF job[i][s] = "none" THEN "none"
                                                     ELSE "done"]]
  /\ rem' = [s \in Sources |-> "idle"]
  /\ purge' = "idle"
  /\ orphans' = orphans \cup {s \in Sources :
                                \E i \in Imports : job[i][s] \in Building}
  /\ cut' = cut \cup {s \in Listed :
                        \/ \E i \in Imports :
                             job[i][s] \in {"checking"} \cup Building
                        \/ rem[s] = "deleted" \/ purge = "wiped"}
  /\ UNCHANGED <<regVars, file, scanned, fresh>>

Exit == up = "stopping" /\ Down /\ UNCHANGED left

\* Or it is killed.
Crash == up = "up" /\ Spend(IF Quiet THEN "stop" ELSE "stopEarly") /\ Down

\* A worker without a daemon may finish its file, leave it half done or die
\* before it made one.
OrphanEnds(s) ==
  /\ s \in orphans
  /\ orphans' = orphans \ {s}
  /\ \/ /\ file[s] \in {"none", "partial"}
        /\ \E f \in {"partial", "built"} : file' = [file EXCEPT ![s] = f]
     \/ UNCHANGED file
  /\ UNCHANGED <<cut, regVars, scanned, runVars, live, marking, reqVars, job,
                 left>>

Start ==
  /\ up = "down"
  /\ up' = "up"
  /\ UNCHANGED <<cut, regVars, fileVars, booted, live, marking, reqVars, job,
                 left>>

JobSteps(i, s) ==
  JobChecks(i, s) \/ WorkerWrites(i, s) \/ WorkerDone(i, s) \/ MarkFailed(i, s)
    \/ JobOpens(i, s)

Next ==
  \/ BootOpens
  \/ \E i \in Imports : Import(i) \/ ImportAdds(i)
  \/ \E i \in Imports, s \in Sources : JobSteps(i, s) \/ JobFails(i, s)
  \/ \E s \in Sources :
       \/ ScanEnds(s) \/ MarkSynced(s)
       \/ RemoveCloses(s) \/ RemoveReads(s) \/ RemoveDeletes(s)
       \/ RemoveFails(s) \/ RemoveWrites(s) \/ OrphanEnds(s)
  \/ PurgeCloses \/ PurgeWipes \/ PurgeFails \/ PurgeWrites
  \/ Stop \/ Exit \/ Crash \/ Start

\* The event loop runs what waits in it, and a worker ends: it has a timeout
\* of its own.
Fairness ==
  \A i \in Imports : WF_vars(ImportAdds(i))
    /\ \A s \in Sources : WF_vars(JobSteps(i, s))

Spec == Init /\ [][Next]_vars /\ Fairness

-----------------------------------------------------------------------------
(* Properties.                                                             *)

RegistryTypes ==
  /\ entries \in [Sources -> Nat]
  /\ failed \subseteq Sources /\ synced \subseteq Sources
WalletTypes ==
  /\ file \in [Sources -> Files]
  /\ scanned \subseteq Sources /\ orphans \subseteq Sources
  /\ cut \subseteq Sources
  /\ live \subseteq Sources /\ marking \subseteq Sources
RequestTypes ==
  /\ imp \in [Imports -> {"new", "adding", "answered", "refused"}]
  /\ fresh \in [Imports -> SUBSET Sources]
  /\ rem \in [Sources -> {"idle", "closed", "found", "deleted"}]
  /\ purge \in {"idle", "closed", "wiped", "answered"}
  /\ up \in {"up", "stopping", "down"} /\ booted \in BOOLEAN
JobTypes == job \in [Imports -> [Sources -> JobStages]]
TypeOK == /\ RegistryTypes /\ WalletTypes /\ RequestTypes /\ JobTypes
          /\ left \in [Events -> Nat]

Unspent(E) == \A e \in E : left[e] = Budget[e]

\* One secret is one entry: importSources looks twice, before and in the turn
\* that adds, and no other writer may duplicate a source (its coins would be
\* counted twice, source-registry.js:148-150).
OneEntryPerSource == \A s \in Sources : entries[s] <= 1

\* Never two workers on one wallet file: createImportedWallet checks the file
\* alone, so what keeps them apart is the registry, as long as removals,
\* purges and imports wait for each other.
OneBuilder ==
  Unspent({"early"}) =>
    \A s \in Sources, i, j \in Imports :
      {job[i][s], job[j][s]} \subseteq Building => i = j /\ s \notin orphans

\* A source without an entry has no wallet file and is not open, whatever
\* fails and wherever the daemon dies, if requests wait for what they may
\* disturb: removal deletes before it forgets.
GoneIsGone ==
  Unspent({"early"}) =>
    \A s \in Sources : Present(s) \/ (file[s] = "none" /\ s \notin live)

\* Every wallet the daemon has open was built to the end from its source's
\* secret, whatever fails, stops or crashes, as long as requests wait for each
\* other.  Left out is the source whose own creation failed or was cut off, or
\* whose own removal or purge stopped between the file and the entry: the next
\* start opens what it finds of it (NeverBuiltIsReported).
OpenWasBuilt ==
  Unspent({"early"}) => \A s \in live \ cut : file[s] = "built"

\* A daemon that serves has every source of its registry open, being created,
\* being removed, or reported as failed, however its requests overlap, unless
\* something was deleted or written half: an entry that nobody works on would
\* be listed by no client and never scanned.
EveryEntryServed ==
  up = "up" /\ booted /\ Unspent({"deleteFail", "writeFail"}) =>
    \A s \in Sources : Present(s) =>
      \/ s \in live \cup failed
      \/ \E i \in Imports : job[i][s] \notin {"none", "done"}
      \/ rem[s] # "idle" \/ purge \in {"closed", "wiped"}

\* Every wallet whose import was answered is opened in the end, or its failure
\* recorded, unless the source is removed, the daemon ends or the registry
\* cannot be written: the import has already been answered, so a failure has
\* nowhere else to go (source-registry.js:261-265).
CreationEnds(i, s) ==
  job[i][s] = "checking" ~>
    \/ s \in live \/ s \in failed \/ ~Present(s)
    \/ up = "down" \/ left["writeFail"] < Budget["writeFail"]
EveryImportEnds == \A i \in Imports, s \in Sources : CreationEnds(i, s)

\* "A derivation whose wallet fails to build in the background is recorded as
\* failed and reported by `/status`" (CHANGELOG.md:233-236), so that none that
\* was never built reads as one that is empty (daemon.js:244-245).  The daemon
\* does not keep it when it ends before the creation does.
NeverBuiltIsReported == \A s \in live : file[s] = "built" \/ s \in failed

\* "Source has been fully scanned before" (wallet-manager.js:524-527), under
\* which an open leaves out the scan of a source recorded as synced.  The
\* daemon does not keep it when it ends between the two halves of a removal,
\* nor when a scan is recorded after its source was removed and imported anew.
SkippedWasScanned == \A s \in live \cap synced : s \in scanned

\* docs/backlog.md:154-156 rests on it, and the daemon does not keep it: a
\* wallet whose creation failed is never opened.
FailedNeverOpened == failed \cap live = {}

\* What the client tells the user when a purge has been answered, "All wallet
\* data deleted" (cli.js:417), and the daemon does not keep.
PurgeDeletesAll == purge = "answered" => \A s \in Sources : file[s] = "none"
=============================================================================
