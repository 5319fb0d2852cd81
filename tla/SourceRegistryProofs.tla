------------------------ MODULE SourceRegistryProofs ------------------------
(***************************************************************************)
(* What SourceRegistry keeps for every set of sources and imports, every   *)
(* choice of what an import asks for and every budget of events: its types,*)
(* that a source has one entry whatever the requests do; and as long as    *)
(* requests wait for each other, that a source has one worker, that        *)
(* nothing of it is left when its entry is gone, and that what is open was *)
(* built from its secret, but for the sources whose own creation, removal  *)
(* or purge was cut short.                                                 *)
(*                                                                         *)
(* None but the first two is inductive.  CalmInv adds what the next two    *)
(* rest on: while a wallet is being created its source is neither removed  *)
(* nor purged and has an entry, while it is being removed it stays closed, *)
(* and its file goes before its entry.  BuiltInv adds how far a file is at *)
(* each stage of its creation, and what an entry stands for that a daemon  *)
(* finds when it starts.                                                   *)
(***************************************************************************)
EXTENDS SourceRegistry, TLAPS

-----------------------------------------------------------------------------
(* The inductive invariant.                                                *)

\* The budget is only ever spent.
BudgetInv == \A e \in Events : left[e] <= Budget[e]

Active(i, s) == job[i][s] \notin {"none", "done"}

\* What is being created, or about to be, is neither removed nor purged.
CreatedAlone(s) == Creating(s) => rem[s] = "idle" /\ purge = "idle"

\* What is being created has an entry.
CreatedListed(s) ==
  s \in orphans \/ (\E i \in Imports : Active(i, s)) => Present(s)

\* It is created for one import, and by no worker of an earlier daemon.
CreatedOnce(s) ==
  \A i, j \in Imports :
    Active(i, s) /\ Active(j, s) => i = j /\ s \notin orphans

\* What is being removed or purged is closed, and by one request at a time.
RemovedClosed(s) ==
  /\ rem[s] # "idle" \/ purge # "idle" => booted /\ s \notin live
  /\ rem[s] # "idle" => purge = "idle"

\* The file goes first,
FileGoesFirst(s) ==
  rem[s] = "deleted" \/ purge \in {"wiped", "answered"} => file[s] = "none"

\* and nothing is left of a source without an entry.
NothingLeft(s) == Present(s) \/ (file[s] = "none" /\ s \notin live)

CalmInv ==
  Unspent({"early"}) =>
    \A s \in Sources :
      /\ CreatedAlone(s) /\ CreatedListed(s) /\ CreatedOnce(s)
      /\ RemovedClosed(s) /\ FileGoesFirst(s) /\ NothingLeft(s)

\* Only a daemon that has opened what it found creates anything.
CreatedUp(s) ==
  (\E i \in Imports : Active(i, s) \/ (imp[i] = "adding" /\ s \in fresh[i]))
    => booted

\* The file is as far as its creation is.
BuiltInOrder(s) ==
  \A i \in Imports :
    /\ job[i][s] \in {"checking", "building"} => file[s] = "none"
    /\ job[i][s] = "writing" => file[s] = "partial"
    /\ job[i][s] = "opening" => file[s] = "built"

\* A creation that has failed is left out until its source is removed,
FailedIsCut(s) == \A i \in Imports : job[i][s] = "failing" => s \in cut

\* and each other entry stands for a wallet that was built, unless it is still
\* being created or has just been deleted.
EntryHasFile(s) ==
  Present(s) /\ s \notin cut =>
    \/ file[s] = "built" \/ \E i \in Imports : Active(i, s)
    \/ rem[s] = "deleted" \/ purge = "wiped"

\* So what is open was built.
OpenBuilt(s) == s \in live \ cut => file[s] = "built"

BuiltInv ==
  Unspent({"early"}) =>
    \A s \in Sources :
      /\ CreatedUp(s) /\ BuiltInOrder(s) /\ FailedIsCut(s)
      /\ EntryHasFile(s) /\ OpenBuilt(s)

\* A source of the registry is open, or reported as failed, or worked on.
Served(s) ==
  Present(s) => \/ s \in live \cup failed
                \/ \E i \in Imports : Active(i, s)
                \/ rem[s] # "idle" \/ purge \in {"closed", "wiped"}

\* A process that is down has opened nothing, and a new one starts so.
ServedInv == (booted => up # "down") /\ EveryEntryServed

IInv ==
  /\ TypeOK /\ BudgetInv /\ OneEntryPerSource /\ CalmInv
  /\ BuiltInv /\ ServedInv

-----------------------------------------------------------------------------
(* The budget.                                                             *)

\* Spending takes one off that event and nothing off the others.
LEMMA SpendOne ==
  ASSUME NEW e \in Events, left \in [Events -> Nat], Spend(e)
  PROVE  /\ left' \in [Events -> Nat]
         /\ left'[e] < left[e]
         /\ \A f \in Events : f # e => left'[f] = left[f]
  BY DEF Spend

\* A step spends one event or leaves the budget alone.
LEMMA StepSpends ==
  ASSUME [Next]_vars
  PROVE  left' = left \/ \E e \in Events : Spend(e)
<1> USE DEF Events, Failures
<1>1. CASE \/ BootOpens \/ PurgeWipes \/ PurgeWrites \/ Exit \/ Start
           \/ \E t \in Sources :
                     ScanEnds(t) \/ RemoveReads(t) \/ RemoveDeletes(t)
                  \/ OrphanEnds(t)
           \/ \E i \in Imports, t \in Sources :
                     JobChecks(i, t) \/ WorkerWrites(i, t) \/ WorkerDone(i, t)
                  \/ JobOpens(i, t)
           \/ UNCHANGED vars
  BY <1>1 DEF BootOpens, JobChecks, WorkerWrites, WorkerDone, JobOpens,
     ScanEnds, RemoveReads, RemoveDeletes, PurgeWipes, PurgeWrites, Exit,
     OrphanEnds, Start, vars
<1>2. ASSUME NEW i \in Imports, Import(i)
      PROVE  left' = left \/ \E e \in Events : Spend(e)
  BY <1>2 DEF Import
<1>3. ASSUME NEW i \in Imports, ImportAdds(i)
      PROVE  left' = left \/ \E e \in Events : Spend(e)
  BY <1>3 DEF ImportAdds
<1>4. ASSUME NEW i \in Imports, NEW t \in Sources, JobFails(i, t)
      PROVE  left' = left \/ \E e \in Events : Spend(e)
  BY <1>4 DEF JobFails
<1>5. ASSUME NEW i \in Imports, NEW t \in Sources, MarkFailed(i, t)
      PROVE  left' = left \/ \E e \in Events : Spend(e)
  BY <1>5 DEF MarkFailed
<1>6. ASSUME NEW t \in Sources, MarkSynced(t)
      PROVE  left' = left \/ \E e \in Events : Spend(e)
  BY <1>6 DEF MarkSynced
<1>7. ASSUME NEW t \in Sources, RemoveCloses(t)
      PROVE  left' = left \/ \E e \in Events : Spend(e)
  BY <1>7 DEF RemoveCloses
<1>8. ASSUME NEW t \in Sources, RemoveFails(t)
      PROVE  left' = left \/ \E e \in Events : Spend(e)
  BY <1>8 DEF RemoveFails
<1>9. ASSUME NEW t \in Sources, RemoveWrites(t)
      PROVE  left' = left \/ \E e \in Events : Spend(e)
  BY <1>9 DEF RemoveWrites
<1>10. CASE PurgeCloses
  BY <1>10 DEF PurgeCloses
<1>11. CASE PurgeFails
  BY <1>11 DEF PurgeFails
<1>12. CASE Stop
  BY <1>12 DEF Stop
<1>13. CASE Crash
  BY <1>13 DEF Crash
<1> QED
  BY <1>1, <1>2, <1>3, <1>4, <1>5, <1>6, <1>7, <1>8, <1>9, <1>10, <1>11,
     <1>12, <1>13 DEF Next, JobSteps

\* So the budget keeps its type and its bound.
LEMMA BudgetStep ==
  ASSUME left \in [Events -> Nat], BudgetInv, [Next]_vars
  PROVE  left' \in [Events -> Nat] /\ BudgetInv'
<1>1. CASE left' = left
  BY <1>1 DEF BudgetInv
<1>2. ASSUME NEW e \in Events, Spend(e)
      PROVE  left' \in [Events -> Nat] /\ BudgetInv'
  BY <1>2, SpendOne, ConstantsAssumption DEF BudgetInv
<1> QED
  BY <1>1, <1>2, StepSpends

\* Of what was unspent up to the end of a step, nothing was spent before it or
\* in it.
LEMMA UnspentBefore ==
  ASSUME left \in [Events -> Nat], BudgetInv, [Next]_vars,
         NEW E \in SUBSET Events, Unspent(E)'
  PROVE  Unspent(E) /\ \A e \in E : ~Spend(e)
<1>1. \A e \in E : e \in Events /\ left'[e] = Budget[e] /\ left[e] <= Budget[e]
  BY DEF Unspent, BudgetInv
<1>2. \A e \in E : ~Spend(e)
  BY <1>1, SpendOne, ConstantsAssumption
<1>3. \A e \in E : left'[e] = left[e]
  BY <1>1, <1>2, StepSpends, SpendOne
<1> QED
  BY <1>1, <1>2, <1>3 DEF Unspent

-----------------------------------------------------------------------------
(* Types.                                                                  *)

\* The registry.
LEMMA RegistryTypesStep ==
  ASSUME RegistryTypes, WalletTypes, RequestTypes, [Next]_vars
  PROVE  RegistryTypes'
<1> USE DEF RegistryTypes, WalletTypes, RequestTypes, regVars, fileVars
<1>1. CASE \/ BootOpens \/ PurgeCloses \/ PurgeWipes \/ PurgeFails
           \/ Stop \/ Exit \/ Crash \/ Start
           \/ \E i \in Imports : Import(i)
           \/ \E t \in Sources :
                     ScanEnds(t) \/ RemoveCloses(t) \/ RemoveReads(t)
                  \/ RemoveDeletes(t) \/ RemoveFails(t) \/ OrphanEnds(t)
           \/ \E i \in Imports, t \in Sources :
                     JobChecks(i, t) \/ WorkerWrites(i, t) \/ WorkerDone(i, t)
                  \/ JobFails(i, t) \/ JobOpens(i, t)
           \/ UNCHANGED vars
  BY <1>1 DEF BootOpens, Import, JobChecks, WorkerWrites, WorkerDone,
     JobFails, JobOpens, ScanEnds, RemoveCloses, RemoveReads, RemoveDeletes,
     RemoveFails, PurgeCloses, PurgeWipes, PurgeFails, Stop, Exit, Crash,
     OrphanEnds, Start, Down, Open, Delete, vars
<1>2. ASSUME NEW i \in Imports, ImportAdds(i)
      PROVE  RegistryTypes'
  BY <1>2 DEF ImportAdds, Register, Present, Spend
<1>3. ASSUME NEW i \in Imports, NEW t \in Sources, MarkFailed(i, t)
      PROVE  RegistryTypes'
  BY <1>3 DEF MarkFailed, SetJob, Spend, Present
<1>4. ASSUME NEW t \in Sources, MarkSynced(t)
      PROVE  RegistryTypes'
  BY <1>4 DEF MarkSynced, Spend, Present
<1>5. ASSUME NEW t \in Sources, RemoveWrites(t)
      PROVE  RegistryTypes'
  BY <1>5 DEF RemoveWrites, Spend
<1>6. CASE PurgeWrites
  BY <1>6 DEF PurgeWrites
<1> QED
  BY <1>1, <1>2, <1>3, <1>4, <1>5, <1>6 DEF Next, JobSteps

\* The wallets' files, and the wallets that are open.
LEMMA WalletTypesStep ==
  ASSUME RegistryTypes, WalletTypes, [Next]_vars
  PROVE  WalletTypes'
<1> USE DEF RegistryTypes, WalletTypes, Files, fileVars
<1>1. CASE \/ Start
           \/ \E i \in Imports : Import(i) \/ ImportAdds(i)
           \/ \E t \in Sources : RemoveReads(t)
           \/ \E i \in Imports, t \in Sources :
                     JobChecks(i, t) \/ MarkFailed(i, t)
           \/ UNCHANGED vars
  BY <1>1 DEF Import, ImportAdds, JobChecks, MarkFailed, RemoveReads,
     Start, regVars, vars
<1>2. CASE BootOpens
  BY <1>2 DEF BootOpens, Open, Listed, Present
<1>3. ASSUME NEW i \in Imports, NEW t \in Sources, WorkerWrites(i, t)
      PROVE  WalletTypes'
  BY <1>3 DEF WorkerWrites, SetJob
<1>4. ASSUME NEW i \in Imports, NEW t \in Sources, WorkerDone(i, t)
      PROVE  WalletTypes'
  BY <1>4 DEF WorkerDone, SetJob
<1>5. ASSUME NEW i \in Imports, NEW t \in Sources, JobFails(i, t)
      PROVE  WalletTypes'
  BY <1>5 DEF JobFails, SetJob, Delete, Spend, Building
<1>6. ASSUME NEW i \in Imports, NEW t \in Sources, JobOpens(i, t)
      PROVE  WalletTypes'
  BY <1>6 DEF JobOpens, SetJob, Open
<1>7. ASSUME NEW t \in Sources, ScanEnds(t)
      PROVE  WalletTypes'
  BY <1>7 DEF ScanEnds
<1>8. ASSUME NEW t \in Sources, MarkSynced(t)
      PROVE  WalletTypes'
  BY <1>8 DEF MarkSynced, Spend, Present
<1>9. ASSUME NEW t \in Sources, RemoveCloses(t)
      PROVE  WalletTypes'
  BY <1>9 DEF RemoveCloses, Spend
<1>10. ASSUME NEW t \in Sources, RemoveDeletes(t)
      PROVE  WalletTypes'
  BY <1>10 DEF RemoveDeletes, Delete
<1>11. ASSUME NEW t \in Sources, RemoveFails(t)
      PROVE  WalletTypes'
  BY <1>11 DEF RemoveFails, Spend, Delete
<1>12. CASE PurgeCloses
  BY <1>12 DEF PurgeCloses, Spend
<1>13. CASE PurgeWipes
  BY <1>13 DEF PurgeWipes, Delete
<1>14. CASE PurgeFails
  BY <1>14 DEF PurgeFails, Delete, Spend, Listed
<1>15. CASE Stop
  BY <1>15 DEF Stop, Spend
<1>16. CASE Exit
  BY <1>16 DEF Exit, Down, Listed
<1>17. CASE Crash
  BY <1>17 DEF Crash, Spend, Down, Listed
<1>18. ASSUME NEW t \in Sources, OrphanEnds(t)
      PROVE  WalletTypes'
  BY <1>18 DEF OrphanEnds
<1>19. ASSUME NEW t \in Sources, RemoveWrites(t)
       PROVE  WalletTypes'
  BY <1>19 DEF RemoveWrites, Spend
<1>20. CASE PurgeWrites
  BY <1>20 DEF PurgeWrites
<1> QED
  BY <1>1, <1>2, <1>3, <1>4, <1>5, <1>6, <1>7, <1>8, <1>9, <1>10, <1>11,
     <1>12, <1>13, <1>14, <1>15, <1>16, <1>17, <1>18, <1>19, <1>20 DEF Next,
     JobSteps

\* The requests and the daemon.
LEMMA RequestTypesStep ==
  ASSUME RequestTypes, [Next]_vars
  PROVE  RequestTypes'
<1> USE DEF RequestTypes, runVars, reqVars
<1>1. CASE \/ \E t \in Sources :
                     ScanEnds(t) \/ MarkSynced(t) \/ OrphanEnds(t)
           \/ \E i \in Imports, t \in Sources :
                     JobChecks(i, t) \/ WorkerWrites(i, t) \/ WorkerDone(i, t)
                  \/ JobFails(i, t) \/ MarkFailed(i, t) \/ JobOpens(i, t)
           \/ UNCHANGED vars
  <2>1. UNCHANGED <<runVars, reqVars>>
    BY <1>1 DEF JobChecks, WorkerWrites, WorkerDone, JobFails, MarkFailed,
       JobOpens, ScanEnds, MarkSynced, OrphanEnds, vars
  <2> QED
    BY <2>1
<1>2. CASE BootOpens
  BY <1>2 DEF BootOpens, Open, Listed, Present
<1>3. ASSUME NEW i \in Imports, Import(i)
      PROVE  RequestTypes'
  BY <1>3, ConstantsAssumption DEF Import, Spend, Present
<1>4. ASSUME NEW i \in Imports, ImportAdds(i)
      PROVE  RequestTypes'
  BY <1>4 DEF ImportAdds, Register, Present, Spend
<1>5. ASSUME NEW t \in Sources, RemoveCloses(t)
      PROVE  RequestTypes'
  BY <1>5 DEF RemoveCloses, Spend
<1>6. ASSUME NEW t \in Sources, RemoveReads(t)
      PROVE  RequestTypes'
  BY <1>6 DEF RemoveReads, Present
<1>7. ASSUME NEW t \in Sources, RemoveDeletes(t)
      PROVE  RequestTypes'
  BY <1>7 DEF RemoveDeletes, Delete
<1>8. ASSUME NEW t \in Sources, RemoveFails(t)
      PROVE  RequestTypes'
  BY <1>8 DEF RemoveFails, Spend, Delete
<1>9. ASSUME NEW t \in Sources, RemoveWrites(t)
      PROVE  RequestTypes'
  BY <1>9 DEF RemoveWrites, Spend
<1>10. CASE PurgeCloses
  BY <1>10 DEF PurgeCloses, Spend
<1>11. CASE PurgeWipes
  BY <1>11 DEF PurgeWipes, Delete
<1>12. CASE PurgeFails
  BY <1>12 DEF PurgeFails, Delete, Spend
<1>13. CASE PurgeWrites
  BY <1>13 DEF PurgeWrites
<1>14. CASE Stop
  BY <1>14 DEF Stop, Spend
<1>15. CASE Exit
  BY <1>15 DEF Exit, Down
<1>16. CASE Crash
  BY <1>16 DEF Crash, Spend, Down
<1>17. CASE Start
  BY <1>17 DEF Start
<1> QED
  BY <1>1, <1>2, <1>3, <1>4, <1>5, <1>6, <1>7, <1>8, <1>9, <1>10, <1>11,
     <1>12, <1>13, <1>14, <1>15, <1>16, <1>17 DEF Next, JobSteps

\* The creations.
LEMMA JobTypesStep ==
  ASSUME JobTypes, [Next]_vars
  PROVE  JobTypes'
<1> USE DEF JobTypes, JobStages
<1>1. CASE \/ BootOpens \/ PurgeCloses \/ PurgeWipes \/ PurgeFails
           \/ PurgeWrites \/ Stop \/ Start
           \/ \E i \in Imports : Import(i)
           \/ \E t \in Sources :
                     ScanEnds(t) \/ MarkSynced(t) \/ RemoveCloses(t)
                  \/ RemoveReads(t) \/ RemoveDeletes(t) \/ RemoveFails(t)
                  \/ RemoveWrites(t) \/ OrphanEnds(t)
           \/ UNCHANGED vars
  BY <1>1 DEF BootOpens, Import, ScanEnds, MarkSynced, RemoveCloses,
     RemoveReads, RemoveDeletes, RemoveFails, RemoveWrites, PurgeCloses,
     PurgeWipes, PurgeFails, PurgeWrites, Stop, OrphanEnds, Start, vars
<1>2. ASSUME NEW i \in Imports, ImportAdds(i)
      PROVE  JobTypes'
  BY <1>2 DEF ImportAdds, Register, Present, Spend
<1>3. ASSUME NEW i \in Imports, NEW t \in Sources, JobChecks(i, t)
      PROVE  JobTypes'
  BY <1>3 DEF JobChecks, SetJob
<1>4. ASSUME NEW i \in Imports, NEW t \in Sources, WorkerWrites(i, t)
      PROVE  JobTypes'
  BY <1>4 DEF WorkerWrites, SetJob
<1>5. ASSUME NEW i \in Imports, NEW t \in Sources, WorkerDone(i, t)
      PROVE  JobTypes'
  BY <1>5 DEF WorkerDone, SetJob
<1>6. ASSUME NEW i \in Imports, NEW t \in Sources, JobFails(i, t)
      PROVE  JobTypes'
  BY <1>6 DEF JobFails, SetJob, Delete, Spend, Building
<1>7. ASSUME NEW i \in Imports, NEW t \in Sources, MarkFailed(i, t)
      PROVE  JobTypes'
  BY <1>7 DEF MarkFailed, SetJob, Spend, Present
<1>8. ASSUME NEW i \in Imports, NEW t \in Sources, JobOpens(i, t)
      PROVE  JobTypes'
  BY <1>8 DEF JobOpens, SetJob, Open
<1>9. CASE Exit
  BY <1>9 DEF Exit, Down
<1>10. CASE Crash
  BY <1>10 DEF Crash, Spend, Down
<1> QED
  BY <1>1, <1>2, <1>3, <1>4, <1>5, <1>6, <1>7, <1>8, <1>9, <1>10 DEF Next,
     JobSteps

-----------------------------------------------------------------------------
(* One entry per source.                                                   *)

\* Only the turn of an import adds, and only what is missing by then.
LEMMA OneEntryStep ==
  ASSUME RegistryTypes, OneEntryPerSource, [Next]_vars
  PROVE  OneEntryPerSource'
<1> USE DEF RegistryTypes, OneEntryPerSource, regVars
<1>1. CASE \/ BootOpens \/ PurgeCloses \/ PurgeWipes \/ PurgeFails
           \/ Stop \/ Exit \/ Crash \/ Start
           \/ \E i \in Imports : Import(i)
           \/ \E t \in Sources :
                     ScanEnds(t) \/ MarkSynced(t) \/ RemoveCloses(t)
                  \/ RemoveReads(t) \/ RemoveDeletes(t) \/ RemoveFails(t)
                  \/ OrphanEnds(t)
           \/ \E i \in Imports, t \in Sources :
                     JobChecks(i, t) \/ WorkerWrites(i, t) \/ WorkerDone(i, t)
                  \/ JobFails(i, t) \/ MarkFailed(i, t) \/ JobOpens(i, t)
           \/ UNCHANGED vars
  BY <1>1 DEF BootOpens, Import, JobChecks, WorkerWrites, WorkerDone,
     JobFails, MarkFailed, JobOpens, ScanEnds, MarkSynced, RemoveCloses,
     RemoveReads, RemoveDeletes, RemoveFails, PurgeCloses, PurgeWipes,
     PurgeFails, Stop, Exit, Crash, OrphanEnds, Start, Down, vars
<1>2. ASSUME NEW i \in Imports, ImportAdds(i)
      PROVE  OneEntryPerSource'
  BY <1>2 DEF ImportAdds, Register, Present, Spend
<1>3. ASSUME NEW t \in Sources, RemoveWrites(t)
      PROVE  OneEntryPerSource'
  BY <1>3 DEF RemoveWrites, Spend
<1>4. CASE PurgeWrites
  BY <1>4 DEF PurgeWrites
<1> QED
  BY <1>1, <1>2, <1>3, <1>4 DEF Next, JobSteps

-----------------------------------------------------------------------------
(* Requests that wait for each other.                                      *)

\* CreatedAlone: a removal or purge would be early, and so would an import
\* during one.
LEMMA CreatedAloneStep ==
  ASSUME TypeOK, NEW s \in Sources, [Next]_vars, ~Spend("early"),
         CreatedAlone(s)
  PROVE  CreatedAlone(s)'
<1> USE DEF TypeOK, RequestTypes, JobTypes, WalletTypes, CreatedAlone,
            Creating, fileVars, reqVars
<1>1. CASE \/ BootOpens \/ Stop \/ Start
           \/ \E t \in Sources : ScanEnds(t) \/ MarkSynced(t)
           \/ UNCHANGED vars
  BY <1>1 DEF BootOpens, ScanEnds, MarkSynced, Stop, Start, Open, reqVars,
     fileVars, vars
<1>2. ASSUME NEW i \in Imports, Import(i)
      PROVE  CreatedAlone(s)'
  BY <1>2 DEF Import, Spend, Present
<1>3. ASSUME NEW i \in Imports, ImportAdds(i)
      PROVE  CreatedAlone(s)'
  <2>1. UNCHANGED <<fresh, rem, purge, orphans>> /\ imp[i] = "adding"
    BY <1>3 DEF ImportAdds
  <2>2. \A j \in Imports : imp'[j] = "adding" => imp[j] = "adding"
    BY <1>3 DEF ImportAdds, Register
  <2>3. ASSUME NEW j \in Imports, job'[j][s] # job[j][s]
        PROVE  s \in fresh[i]
    <3> DEFINE added == {x \in fresh[i] : ~Present(x)}
    <3>1. Register(i, added)
      BY <1>3, <2>3 DEF ImportAdds
    <3> HIDE DEF added
    <3>2. job'[j][s] = IF j = i /\ s \in added THEN "checking" ELSE job[j][s]
      BY <3>1 DEF Register
    <3> QED
      BY <2>3, <3>2 DEF added
  <2> QED
    BY <2>1, <2>2, <2>3
<1>4. ASSUME NEW i \in Imports, NEW t \in Sources, JobChecks(i, t)
      PROVE  CreatedAlone(s)'
  BY <1>4 DEF JobChecks, SetJob
<1>5. ASSUME NEW i \in Imports, NEW t \in Sources, WorkerWrites(i, t)
      PROVE  CreatedAlone(s)'
  BY <1>5 DEF WorkerWrites, SetJob
<1>6. ASSUME NEW i \in Imports, NEW t \in Sources, WorkerDone(i, t)
      PROVE  CreatedAlone(s)'
  BY <1>6 DEF WorkerDone, SetJob
<1>7. ASSUME NEW i \in Imports, NEW t \in Sources, JobFails(i, t)
      PROVE  CreatedAlone(s)'
  BY <1>7 DEF JobFails, SetJob, Delete, Spend, Building
<1>8. ASSUME NEW i \in Imports, NEW t \in Sources, MarkFailed(i, t)
      PROVE  CreatedAlone(s)'
  BY <1>8 DEF MarkFailed, SetJob, Spend, Present
<1>9. ASSUME NEW i \in Imports, NEW t \in Sources, JobOpens(i, t)
      PROVE  CreatedAlone(s)'
  BY <1>9 DEF JobOpens, SetJob, Open
<1>10. ASSUME NEW t \in Sources, RemoveCloses(t)
      PROVE  CreatedAlone(s)'
  BY <1>10 DEF RemoveCloses, Spend, AtRest
<1>11. ASSUME NEW t \in Sources, RemoveReads(t)
      PROVE  CreatedAlone(s)'
  BY <1>11 DEF RemoveReads, Present
<1>12. ASSUME NEW t \in Sources, RemoveDeletes(t)
      PROVE  CreatedAlone(s)'
  BY <1>12 DEF RemoveDeletes, Delete
<1>13. ASSUME NEW t \in Sources, RemoveFails(t)
      PROVE  CreatedAlone(s)'
  BY <1>13 DEF RemoveFails, Spend, Delete
<1>14. ASSUME NEW t \in Sources, RemoveWrites(t)
      PROVE  CreatedAlone(s)'
  BY <1>14 DEF RemoveWrites, Spend
<1>15. CASE PurgeCloses
  BY <1>15 DEF PurgeCloses, Spend, AtRest, Quiet
<1>16. CASE PurgeWipes
  BY <1>16 DEF PurgeWipes, Delete
<1>17. CASE PurgeFails
  BY <1>17 DEF PurgeFails, Delete, Spend
<1>18. CASE PurgeWrites
  BY <1>18 DEF PurgeWrites
<1>19. CASE Exit
  BY <1>19 DEF Exit, Down
<1>20. CASE Crash
  BY <1>20 DEF Crash, Spend, Down
<1>21. ASSUME NEW t \in Sources, OrphanEnds(t)
      PROVE  CreatedAlone(s)'
  BY <1>21 DEF OrphanEnds
<1> QED
  BY <1>1, <1>2, <1>3, <1>4, <1>5, <1>6, <1>7, <1>8, <1>9, <1>10, <1>11,
     <1>12, <1>13, <1>14, <1>15, <1>16, <1>17, <1>18, <1>19, <1>20, <1>21 DEF
     Next, JobSteps

\* CreatedListed: an entry goes only with a removal or a purge.
LEMMA CreatedListedStep ==
  ASSUME TypeOK, NEW s \in Sources, [Next]_vars, ~Spend("early"),
         CreatedAlone(s), CreatedListed(s)
  PROVE  CreatedListed(s)'
<1> USE DEF TypeOK, RegistryTypes, JobTypes, WalletTypes, CreatedAlone,
            CreatedListed, Creating, Active, Present, regVars, fileVars
<1>1. CASE \/ BootOpens \/ PurgeCloses \/ PurgeWipes \/ PurgeFails
           \/ Stop \/ Start
           \/ \E i \in Imports : Import(i)
           \/ \E t \in Sources :
                     ScanEnds(t) \/ MarkSynced(t) \/ RemoveCloses(t)
                  \/ RemoveReads(t) \/ RemoveDeletes(t) \/ RemoveFails(t)
           \/ UNCHANGED vars
  BY <1>1 DEF BootOpens, Import, ScanEnds, MarkSynced, RemoveCloses,
     RemoveReads, RemoveDeletes, RemoveFails, PurgeCloses, PurgeWipes,
     PurgeFails, Stop, Start, Open, Delete, vars
<1>2. ASSUME NEW i \in Imports, ImportAdds(i)
      PROVE  CreatedListed(s)'
  BY <1>2 DEF ImportAdds, Register, Present, Spend
<1>3. ASSUME NEW i \in Imports, NEW t \in Sources, JobChecks(i, t)
      PROVE  CreatedListed(s)'
  BY <1>3 DEF JobChecks, SetJob
<1>4. ASSUME NEW i \in Imports, NEW t \in Sources, WorkerWrites(i, t)
      PROVE  CreatedListed(s)'
  BY <1>4 DEF WorkerWrites, SetJob
<1>5. ASSUME NEW i \in Imports, NEW t \in Sources, WorkerDone(i, t)
      PROVE  CreatedListed(s)'
  BY <1>5 DEF WorkerDone, SetJob
<1>6. ASSUME NEW i \in Imports, NEW t \in Sources, JobFails(i, t)
      PROVE  CreatedListed(s)'
  BY <1>6 DEF JobFails, SetJob, Delete, Spend, Building
<1>7. ASSUME NEW i \in Imports, NEW t \in Sources, MarkFailed(i, t)
      PROVE  CreatedListed(s)'
  BY <1>7 DEF MarkFailed, SetJob, Spend, Present
<1>8. ASSUME NEW i \in Imports, NEW t \in Sources, JobOpens(i, t)
      PROVE  CreatedListed(s)'
  BY <1>8 DEF JobOpens, SetJob, Open
<1>9. ASSUME NEW t \in Sources, RemoveWrites(t)
      PROVE  CreatedListed(s)'
  BY <1>9 DEF RemoveWrites, Spend
<1>10. CASE PurgeWrites
  BY <1>10 DEF PurgeWrites
<1>11. CASE Exit
  BY <1>11 DEF Exit, Down, Building
<1>12. CASE Crash
  BY <1>12 DEF Crash, Spend, Down, Building
<1>13. ASSUME NEW t \in Sources, OrphanEnds(t)
      PROVE  CreatedListed(s)'
  BY <1>13 DEF OrphanEnds
<1> QED
  BY <1>1, <1>2, <1>3, <1>4, <1>5, <1>6, <1>7, <1>8, <1>9, <1>10, <1>11,
     <1>12, <1>13 DEF Next, JobSteps

\* CreatedOnce: an import creates what has no entry, so what nobody creates.
LEMMA CreatedOnceStep ==
  ASSUME TypeOK, NEW s \in Sources, [Next]_vars, ~Spend("early"),
         CreatedListed(s), CreatedOnce(s)
  PROVE  CreatedOnce(s)'
<1> USE DEF TypeOK, JobTypes, WalletTypes, CreatedListed, CreatedOnce, Active,
            Present, fileVars
<1>1. CASE \/ BootOpens \/ PurgeCloses \/ PurgeWipes \/ PurgeFails
           \/ PurgeWrites \/ Stop \/ Start
           \/ \E i \in Imports : Import(i)
           \/ \E t \in Sources :
                     ScanEnds(t) \/ MarkSynced(t) \/ RemoveCloses(t)
                  \/ RemoveReads(t) \/ RemoveDeletes(t) \/ RemoveFails(t)
                  \/ RemoveWrites(t)
           \/ UNCHANGED vars
  BY <1>1 DEF BootOpens, Import, ScanEnds, MarkSynced, RemoveCloses,
     RemoveReads, RemoveDeletes, RemoveFails, RemoveWrites, PurgeCloses,
     PurgeWipes, PurgeFails, PurgeWrites, Stop, Start, Open, Delete, vars
<1>2. ASSUME NEW i \in Imports, ImportAdds(i)
      PROVE  CreatedOnce(s)'
  BY <1>2 DEF ImportAdds, Register, Present, Spend
<1>3. ASSUME NEW i \in Imports, NEW t \in Sources, JobChecks(i, t)
      PROVE  CreatedOnce(s)'
  BY <1>3 DEF JobChecks, SetJob
<1>4. ASSUME NEW i \in Imports, NEW t \in Sources, WorkerWrites(i, t)
      PROVE  CreatedOnce(s)'
  BY <1>4 DEF WorkerWrites, SetJob
<1>5. ASSUME NEW i \in Imports, NEW t \in Sources, WorkerDone(i, t)
      PROVE  CreatedOnce(s)'
  BY <1>5 DEF WorkerDone, SetJob
<1>6. ASSUME NEW i \in Imports, NEW t \in Sources, JobFails(i, t)
      PROVE  CreatedOnce(s)'
  BY <1>6 DEF JobFails, SetJob, Delete, Spend, Building
<1>7. ASSUME NEW i \in Imports, NEW t \in Sources, MarkFailed(i, t)
      PROVE  CreatedOnce(s)'
  BY <1>7 DEF MarkFailed, SetJob, Spend, Present
<1>8. ASSUME NEW i \in Imports, NEW t \in Sources, JobOpens(i, t)
      PROVE  CreatedOnce(s)'
  BY <1>8 DEF JobOpens, SetJob, Open
<1>9. CASE Exit
  BY <1>9 DEF Exit, Down
<1>10. CASE Crash
  BY <1>10 DEF Crash, Spend, Down
<1>11. ASSUME NEW t \in Sources, OrphanEnds(t)
      PROVE  CreatedOnce(s)'
  BY <1>11 DEF OrphanEnds
<1> QED
  BY <1>1, <1>2, <1>3, <1>4, <1>5, <1>6, <1>7, <1>8, <1>9, <1>10, <1>11 DEF
     Next, JobSteps

\* RemovedClosed: only the end of a creation could open it again.
LEMMA RemovedClosedStep ==
  ASSUME TypeOK, NEW s \in Sources, [Next]_vars, ~Spend("early"),
         CreatedAlone(s), RemovedClosed(s)
  PROVE  RemovedClosed(s)'
<1> USE DEF TypeOK, RequestTypes, RemovedClosed, CreatedAlone, Creating,
            runVars, reqVars
<1>1. CASE \/ Start
           \/ \E i \in Imports : Import(i) \/ ImportAdds(i)
           \/ \E t \in Sources :
                     ScanEnds(t) \/ MarkSynced(t) \/ OrphanEnds(t)
           \/ \E i \in Imports, t \in Sources :
                     JobChecks(i, t) \/ WorkerWrites(i, t) \/ WorkerDone(i, t)
                  \/ JobFails(i, t) \/ MarkFailed(i, t)
           \/ UNCHANGED vars
  BY <1>1 DEF Import, ImportAdds, JobChecks, WorkerWrites, WorkerDone,
     JobFails, MarkFailed, ScanEnds, MarkSynced, OrphanEnds, Start, reqVars,
     runVars, vars
<1>2. CASE BootOpens
  BY <1>2 DEF BootOpens, Open, Listed, Present
<1>3. ASSUME NEW i \in Imports, NEW t \in Sources, JobOpens(i, t)
      PROVE  RemovedClosed(s)'
  BY <1>3 DEF JobOpens, SetJob, Open
<1>4. ASSUME NEW t \in Sources, RemoveCloses(t)
      PROVE  RemovedClosed(s)'
  BY <1>4 DEF RemoveCloses, Spend, AtRest
<1>5. ASSUME NEW t \in Sources, RemoveReads(t)
      PROVE  RemovedClosed(s)'
  BY <1>5 DEF RemoveReads, Present
<1>6. ASSUME NEW t \in Sources, RemoveDeletes(t)
      PROVE  RemovedClosed(s)'
  BY <1>6 DEF RemoveDeletes, Delete
<1>7. ASSUME NEW t \in Sources, RemoveFails(t)
      PROVE  RemovedClosed(s)'
  BY <1>7 DEF RemoveFails, Spend, Delete
<1>8. ASSUME NEW t \in Sources, RemoveWrites(t)
      PROVE  RemovedClosed(s)'
  BY <1>8 DEF RemoveWrites, Spend
<1>9. CASE PurgeCloses
  BY <1>9 DEF PurgeCloses, Spend, AtRest, Quiet
<1>10. CASE PurgeWipes
  BY <1>10 DEF PurgeWipes, Delete
<1>11. CASE PurgeFails
  BY <1>11 DEF PurgeFails, Delete, Spend
<1>12. CASE PurgeWrites
  BY <1>12 DEF PurgeWrites
<1>13. CASE Stop
  BY <1>13 DEF Stop, Spend
<1>14. CASE Exit
  BY <1>14 DEF Exit, Down
<1>15. CASE Crash
  BY <1>15 DEF Crash, Spend, Down
<1> QED
  BY <1>1, <1>2, <1>3, <1>4, <1>5, <1>6, <1>7, <1>8, <1>9, <1>10, <1>11,
     <1>12, <1>13, <1>14, <1>15 DEF Next, JobSteps

\* FileGoesFirst: only a creation could make the file again.
LEMMA FileGoesFirstStep ==
  ASSUME TypeOK, NEW s \in Sources, [Next]_vars, ~Spend("early"),
         CreatedAlone(s), RemovedClosed(s), FileGoesFirst(s)
  PROVE  FileGoesFirst(s)'
<1> USE DEF TypeOK, RequestTypes, WalletTypes, CreatedAlone, Creating,
            RemovedClosed, FileGoesFirst, fileVars, reqVars
<1>1. CASE \/ Stop \/ Start
           \/ \E i \in Imports : Import(i) \/ ImportAdds(i)
           \/ \E t \in Sources : ScanEnds(t) \/ MarkSynced(t)
           \/ \E i \in Imports, t \in Sources :
                     JobChecks(i, t) \/ MarkFailed(i, t)
           \/ UNCHANGED vars
  BY <1>1 DEF Import, ImportAdds, JobChecks, MarkFailed, ScanEnds, MarkSynced,
     Stop, Start, vars
<1>2. CASE BootOpens
  BY <1>2 DEF BootOpens, Open, Listed, Present
<1>3. ASSUME NEW i \in Imports, NEW t \in Sources, WorkerWrites(i, t)
      PROVE  FileGoesFirst(s)'
  BY <1>3 DEF WorkerWrites, SetJob
<1>4. ASSUME NEW i \in Imports, NEW t \in Sources, WorkerDone(i, t)
      PROVE  FileGoesFirst(s)'
  BY <1>4 DEF WorkerDone, SetJob
<1>5. ASSUME NEW i \in Imports, NEW t \in Sources, JobFails(i, t)
      PROVE  FileGoesFirst(s)'
  BY <1>5 DEF JobFails, SetJob, Delete, Spend, Building
<1>6. ASSUME NEW i \in Imports, NEW t \in Sources, JobOpens(i, t)
      PROVE  FileGoesFirst(s)'
  BY <1>6 DEF JobOpens, SetJob, Open
<1>7. ASSUME NEW t \in Sources, RemoveCloses(t)
      PROVE  FileGoesFirst(s)'
  BY <1>7 DEF RemoveCloses, Spend
<1>8. ASSUME NEW t \in Sources, RemoveReads(t)
      PROVE  FileGoesFirst(s)'
  BY <1>8 DEF RemoveReads, Present
<1>9. ASSUME NEW t \in Sources, RemoveDeletes(t)
      PROVE  FileGoesFirst(s)'
  BY <1>9 DEF RemoveDeletes, Delete
<1>10. ASSUME NEW t \in Sources, RemoveFails(t)
      PROVE  FileGoesFirst(s)'
  BY <1>10 DEF RemoveFails, Spend, Delete
<1>11. ASSUME NEW t \in Sources, RemoveWrites(t)
      PROVE  FileGoesFirst(s)'
  BY <1>11 DEF RemoveWrites, Spend
<1>12. CASE PurgeCloses
  BY <1>12 DEF PurgeCloses, Spend
<1>13. CASE PurgeWipes
  BY <1>13 DEF PurgeWipes, Delete
<1>14. CASE PurgeFails
  BY <1>14 DEF PurgeFails, Delete, Spend
<1>15. CASE PurgeWrites
  BY <1>15 DEF PurgeWrites
<1>16. CASE Exit
  BY <1>16 DEF Exit, Down
<1>17. CASE Crash
  BY <1>17 DEF Crash, Spend, Down
<1>18. ASSUME NEW t \in Sources, OrphanEnds(t)
      PROVE  FileGoesFirst(s)'
  BY <1>18 DEF OrphanEnds
<1> QED
  BY <1>1, <1>2, <1>3, <1>4, <1>5, <1>6, <1>7, <1>8, <1>9, <1>10, <1>11,
     <1>12, <1>13, <1>14, <1>15, <1>16, <1>17, <1>18 DEF Next, JobSteps

\* NothingLeft: what makes a file or opens a wallet is a creation.
LEMMA NothingLeftStep ==
  ASSUME TypeOK, NEW s \in Sources, [Next]_vars, ~Spend("early"),
         CreatedListed(s), RemovedClosed(s), FileGoesFirst(s),
         NothingLeft(s)
  PROVE  NothingLeft(s)'
<1> USE DEF TypeOK, RegistryTypes, WalletTypes, CreatedListed, Active,
            RemovedClosed, FileGoesFirst, NothingLeft, Present, regVars,
            fileVars
<1>1. CASE \/ Start
           \/ \E i \in Imports : Import(i)
           \/ \E t \in Sources :
                     ScanEnds(t) \/ MarkSynced(t) \/ RemoveReads(t)
           \/ \E i \in Imports, t \in Sources :
                     JobChecks(i, t) \/ MarkFailed(i, t)
           \/ UNCHANGED vars
  BY <1>1 DEF Import, JobChecks, MarkFailed, ScanEnds, MarkSynced,
     RemoveReads, Start, vars
<1>2. CASE BootOpens
  BY <1>2 DEF BootOpens, Open, Listed, Present
<1>3. ASSUME NEW i \in Imports, ImportAdds(i)
      PROVE  NothingLeft(s)'
  BY <1>3 DEF ImportAdds, Register, Present, Spend
<1>4. ASSUME NEW i \in Imports, NEW t \in Sources, WorkerWrites(i, t)
      PROVE  NothingLeft(s)'
  BY <1>4 DEF WorkerWrites, SetJob
<1>5. ASSUME NEW i \in Imports, NEW t \in Sources, WorkerDone(i, t)
      PROVE  NothingLeft(s)'
  BY <1>5 DEF WorkerDone, SetJob
<1>6. ASSUME NEW i \in Imports, NEW t \in Sources, JobFails(i, t)
      PROVE  NothingLeft(s)'
  BY <1>6 DEF JobFails, SetJob, Delete, Spend, Building
<1>7. ASSUME NEW i \in Imports, NEW t \in Sources, JobOpens(i, t)
      PROVE  NothingLeft(s)'
  BY <1>7 DEF JobOpens, SetJob, Open
<1>8. ASSUME NEW t \in Sources, RemoveCloses(t)
      PROVE  NothingLeft(s)'
  BY <1>8 DEF RemoveCloses, Spend
<1>9. ASSUME NEW t \in Sources, RemoveDeletes(t)
      PROVE  NothingLeft(s)'
  BY <1>9 DEF RemoveDeletes, Delete
<1>10. ASSUME NEW t \in Sources, RemoveFails(t)
      PROVE  NothingLeft(s)'
  BY <1>10 DEF RemoveFails, Spend, Delete
<1>11. ASSUME NEW t \in Sources, RemoveWrites(t)
      PROVE  NothingLeft(s)'
  BY <1>11 DEF RemoveWrites, Spend
<1>12. CASE PurgeCloses
  BY <1>12 DEF PurgeCloses, Spend
<1>13. CASE PurgeWipes
  BY <1>13 DEF PurgeWipes, Delete
<1>14. CASE PurgeFails
  BY <1>14 DEF PurgeFails, Delete, Spend
<1>15. CASE PurgeWrites
  BY <1>15 DEF PurgeWrites
<1>16. CASE Stop
  BY <1>16 DEF Stop, Spend
<1>17. CASE Exit
  BY <1>17 DEF Exit, Down
<1>18. CASE Crash
  BY <1>18 DEF Crash, Spend, Down
<1>19. ASSUME NEW t \in Sources, OrphanEnds(t)
      PROVE  NothingLeft(s)'
  BY <1>19 DEF OrphanEnds
<1> QED
  BY <1>1, <1>2, <1>3, <1>4, <1>5, <1>6, <1>7, <1>8, <1>9, <1>10, <1>11,
     <1>12, <1>13, <1>14, <1>15, <1>16, <1>17, <1>18, <1>19 DEF Next, JobSteps

\* Together, when nothing has been early.
LEMMA CalmStep ==
  ASSUME TypeOK, BudgetInv, CalmInv, [Next]_vars
  PROVE  CalmInv'
<1> SUFFICES ASSUME Unspent({"early"})', NEW s \in Sources
             PROVE  (/\ CreatedAlone(s) /\ CreatedListed(s) /\ CreatedOnce(s)
                     /\ RemovedClosed(s) /\ FileGoesFirst(s)
                     /\ NothingLeft(s))'
  BY DEF CalmInv
<1>1. Unspent({"early"}) /\ ~Spend("early")
  BY UnspentBefore DEF TypeOK, Events
<1>2. /\ CreatedAlone(s) /\ CreatedListed(s) /\ CreatedOnce(s)
      /\ RemovedClosed(s) /\ FileGoesFirst(s) /\ NothingLeft(s)
  BY <1>1 DEF CalmInv
<1>3. CreatedAlone(s)' /\ CreatedListed(s)' /\ CreatedOnce(s)'
  BY <1>1, <1>2, CreatedAloneStep, CreatedListedStep, CreatedOnceStep
<1>4. RemovedClosed(s)' /\ FileGoesFirst(s)' /\ NothingLeft(s)'
  BY <1>1, <1>2, RemovedClosedStep, FileGoesFirstStep, NothingLeftStep
<1> QED
  BY <1>3, <1>4

-----------------------------------------------------------------------------
(* What is built and opened.                                               *)

\* CreatedUp: an import waits until the daemon has opened what it found.
LEMMA CreatedUpStep ==
  ASSUME TypeOK, NEW s \in Sources, [Next]_vars, ~Spend("early"),
         CreatedUp(s)
  PROVE  CreatedUp(s)'
<1> USE DEF TypeOK, RequestTypes, JobTypes, CreatedUp, Active, fileVars,
            reqVars, runVars
<1>1. CASE \/ PurgeCloses \/ PurgeWipes \/ PurgeFails \/ PurgeWrites
           \/ Stop \/ Start
           \/ \E t \in Sources :
                     ScanEnds(t) \/ MarkSynced(t) \/ RemoveCloses(t)
                  \/ RemoveReads(t) \/ RemoveDeletes(t) \/ RemoveFails(t)
                  \/ RemoveWrites(t) \/ OrphanEnds(t)
           \/ UNCHANGED vars
  <2>1. UNCHANGED <<imp, fresh, job, booted>>
    BY <1>1 DEF ScanEnds, MarkSynced, RemoveCloses, RemoveReads, RemoveDeletes,
       RemoveFails, RemoveWrites, PurgeCloses, PurgeWipes, PurgeFails,
       PurgeWrites, Stop, OrphanEnds, Start, vars, regVars, fileVars, runVars,
       reqVars, Delete, Open
  <2> QED
    BY <2>1
<1>2. CASE BootOpens
  BY <1>2 DEF BootOpens, Open, Listed, Present
<1>3. ASSUME NEW i \in Imports, Import(i)
      PROVE  CreatedUp(s)'
  BY <1>3 DEF Import, Spend, Present
<1>4. ASSUME NEW i \in Imports, ImportAdds(i)
      PROVE  CreatedUp(s)'
  <2> DEFINE added == {x \in fresh[i] : ~Present(x)}
  <2>1. ASSUME NEW j \in Imports, job'[j][s] # job[j][s]
        PROVE  Register(i, added) /\ s \in added /\ job'[j][s] = "checking"
    <3>1. Register(i, added)
      BY <1>4, <2>1 DEF ImportAdds
    <3> HIDE DEF added
    <3>2. job'[j][s] = IF j = i /\ s \in added THEN "checking" ELSE job[j][s]
      BY <3>1 DEF Register
    <3> QED
      BY <2>1, <3>1, <3>2
  <2>2. UNCHANGED <<booted, fresh>> /\ imp[i] = "adding"
    BY <1>4 DEF ImportAdds
  <2>3. \A j \in Imports : imp'[j] = "adding" => imp[j] = "adding"
    BY <1>4 DEF ImportAdds, Register
  <2> QED
    BY <2>1, <2>2, <2>3
<1>5. ASSUME NEW i \in Imports, NEW t \in Sources, JobChecks(i, t)
      PROVE  CreatedUp(s)'
  BY <1>5 DEF JobChecks, SetJob
<1>6. ASSUME NEW i \in Imports, NEW t \in Sources, WorkerWrites(i, t)
      PROVE  CreatedUp(s)'
  BY <1>6 DEF WorkerWrites, SetJob
<1>7. ASSUME NEW i \in Imports, NEW t \in Sources, WorkerDone(i, t)
      PROVE  CreatedUp(s)'
  BY <1>7 DEF WorkerDone, SetJob
<1>8. ASSUME NEW i \in Imports, NEW t \in Sources, JobFails(i, t)
      PROVE  CreatedUp(s)'
  BY <1>8 DEF JobFails, SetJob, Delete, Spend, Building
<1>9. ASSUME NEW i \in Imports, NEW t \in Sources, MarkFailed(i, t)
      PROVE  CreatedUp(s)'
  BY <1>9 DEF MarkFailed, SetJob, Spend, Present
<1>10. ASSUME NEW i \in Imports, NEW t \in Sources, JobOpens(i, t)
      PROVE  CreatedUp(s)'
  BY <1>10 DEF JobOpens, SetJob, Open
<1>11. CASE Exit
  BY <1>11 DEF Exit, Down, Building, Listed
<1>12. CASE Crash
  BY <1>12 DEF Crash, Spend, Down, Building, Listed
<1> QED
  BY <1>1, <1>2, <1>3, <1>4, <1>5, <1>6, <1>7, <1>8, <1>9, <1>10, <1>11, <1>12
     DEF Next, JobSteps

\* BuiltInOrder: nobody else touches the file.
LEMMA BuiltInOrderStep ==
  ASSUME TypeOK, NEW s \in Sources, [Next]_vars, ~Spend("early"),
         CreatedAlone(s), CreatedOnce(s), CreatedUp(s),
         NothingLeft(s), BuiltInOrder(s)
  PROVE  BuiltInOrder(s)'
<1> USE DEF TypeOK, RegistryTypes, WalletTypes, RequestTypes, JobTypes,
            CreatedAlone, CreatedOnce, CreatedUp, NothingLeft, BuiltInOrder,
            Creating, Active, Present, fileVars
<1>1. CASE \/ PurgeCloses \/ PurgeWrites \/ Stop \/ Start
           \/ \E i \in Imports : Import(i)
           \/ \E t \in Sources :
                     ScanEnds(t) \/ MarkSynced(t) \/ RemoveCloses(t)
                  \/ RemoveReads(t) \/ RemoveWrites(t)
           \/ UNCHANGED vars
  <2>1. UNCHANGED <<job, file>>
    BY <1>1 DEF Import, ScanEnds, MarkSynced, RemoveCloses, RemoveReads,
       RemoveWrites, PurgeCloses, PurgeWrites, Stop, Start, vars, regVars,
       fileVars, runVars, reqVars, Delete, Open
  <2> QED
    BY <2>1
<1>2. CASE BootOpens
  BY <1>2 DEF BootOpens, Open, Listed, Present
<1>3. ASSUME NEW i \in Imports, ImportAdds(i)
      PROVE  BuiltInOrder(s)'
  BY <1>3 DEF ImportAdds, Register, Present, Spend
<1>4. ASSUME NEW i \in Imports, NEW t \in Sources, JobChecks(i, t)
      PROVE  BuiltInOrder(s)'
  BY <1>4 DEF JobChecks, SetJob
<1>5. ASSUME NEW i \in Imports, NEW t \in Sources, WorkerWrites(i, t)
      PROVE  BuiltInOrder(s)'
  BY <1>5 DEF WorkerWrites, SetJob
<1>6. ASSUME NEW i \in Imports, NEW t \in Sources, WorkerDone(i, t)
      PROVE  BuiltInOrder(s)'
  BY <1>6 DEF WorkerDone, SetJob
<1>7. ASSUME NEW i \in Imports, NEW t \in Sources, JobFails(i, t)
      PROVE  BuiltInOrder(s)'
  BY <1>7 DEF JobFails, SetJob, Delete, Spend, Building
<1>8. ASSUME NEW i \in Imports, NEW t \in Sources, MarkFailed(i, t)
      PROVE  BuiltInOrder(s)'
  BY <1>8 DEF MarkFailed, SetJob, Spend, Present
<1>9. ASSUME NEW i \in Imports, NEW t \in Sources, JobOpens(i, t)
      PROVE  BuiltInOrder(s)'
  BY <1>9 DEF JobOpens, SetJob, Open
<1>10. ASSUME NEW t \in Sources, RemoveDeletes(t)
      PROVE  BuiltInOrder(s)'
  BY <1>10 DEF RemoveDeletes, Delete
<1>11. ASSUME NEW t \in Sources, RemoveFails(t)
      PROVE  BuiltInOrder(s)'
  BY <1>11 DEF RemoveFails, Spend, Delete
<1>12. CASE PurgeWipes
  BY <1>12 DEF PurgeWipes, Delete
<1>13. CASE PurgeFails
  BY <1>13 DEF PurgeFails, Delete, Spend, Listed
<1>14. CASE Exit
  BY <1>14 DEF Exit, Down, Building, Listed
<1>15. CASE Crash
  BY <1>15 DEF Crash, Spend, Down, Building, Listed
<1>16. ASSUME NEW t \in Sources, OrphanEnds(t)
      PROVE  BuiltInOrder(s)'
  BY <1>16 DEF OrphanEnds
<1> QED
  BY <1>1, <1>2, <1>3, <1>4, <1>5, <1>6, <1>7, <1>8, <1>9, <1>10, <1>11, <1>12,
     <1>13, <1>14, <1>15, <1>16 DEF Next, JobSteps

\* FailedIsCut: what puts it right is a removal, which waits.
LEMMA FailedIsCutStep ==
  ASSUME TypeOK, NEW s \in Sources, [Next]_vars, ~Spend("early"),
         CreatedAlone(s), FailedIsCut(s)
  PROVE  FailedIsCut(s)'
<1> USE DEF TypeOK, WalletTypes, JobTypes, CreatedAlone, FailedIsCut, Creating
<1>1. CASE \/ BootOpens \/ PurgeCloses \/ PurgeWipes \/ Stop \/ Start
           \/ \E i \in Imports : Import(i)
           \/ \E t \in Sources :
                     ScanEnds(t) \/ MarkSynced(t) \/ RemoveCloses(t)
                  \/ RemoveReads(t) \/ RemoveDeletes(t) \/ OrphanEnds(t)
           \/ UNCHANGED vars
  <2>1. UNCHANGED <<job, cut>>
    BY <1>1 DEF BootOpens, Import, ScanEnds, MarkSynced, RemoveCloses,
       RemoveReads, RemoveDeletes, PurgeCloses, PurgeWipes, Stop, OrphanEnds,
       Start, vars, regVars, fileVars, runVars, reqVars, Delete, Open
  <2> QED
    BY <2>1
<1>2. ASSUME NEW i \in Imports, ImportAdds(i)
      PROVE  FailedIsCut(s)'
  BY <1>2 DEF ImportAdds, Register, Present, Spend
<1>3. ASSUME NEW i \in Imports, NEW t \in Sources, JobChecks(i, t)
      PROVE  FailedIsCut(s)'
  BY <1>3 DEF JobChecks, SetJob
<1>4. ASSUME NEW i \in Imports, NEW t \in Sources, WorkerWrites(i, t)
      PROVE  FailedIsCut(s)'
  BY <1>4 DEF WorkerWrites, SetJob
<1>5. ASSUME NEW i \in Imports, NEW t \in Sources, WorkerDone(i, t)
      PROVE  FailedIsCut(s)'
  BY <1>5 DEF WorkerDone, SetJob
<1>6. ASSUME NEW i \in Imports, NEW t \in Sources, JobFails(i, t)
      PROVE  FailedIsCut(s)'
  BY <1>6 DEF JobFails, SetJob, Delete, Spend, Building
<1>7. ASSUME NEW i \in Imports, NEW t \in Sources, MarkFailed(i, t)
      PROVE  FailedIsCut(s)'
  BY <1>7 DEF MarkFailed, SetJob, Spend, Present
<1>8. ASSUME NEW i \in Imports, NEW t \in Sources, JobOpens(i, t)
      PROVE  FailedIsCut(s)'
  BY <1>8 DEF JobOpens, SetJob, Open
<1>9. ASSUME NEW t \in Sources, RemoveFails(t)
      PROVE  FailedIsCut(s)'
  BY <1>9 DEF RemoveFails, Spend, Delete
<1>10. ASSUME NEW t \in Sources, RemoveWrites(t)
      PROVE  FailedIsCut(s)'
  BY <1>10 DEF RemoveWrites, Spend
<1>11. CASE PurgeFails
  BY <1>11 DEF PurgeFails, Delete, Spend, Listed
<1>12. CASE PurgeWrites
  BY <1>12 DEF PurgeWrites
<1>13. CASE Exit
  BY <1>13 DEF Exit, Down, Building, Listed
<1>14. CASE Crash
  BY <1>14 DEF Crash, Spend, Down, Building, Listed
<1> QED
  BY <1>1, <1>2, <1>3, <1>4, <1>5, <1>6, <1>7, <1>8, <1>9, <1>10, <1>11, <1>12,
     <1>13, <1>14 DEF Next, JobSteps

\* EntryHasFile: a creation ends with the file or is left out, and what deletes
\* the file takes the entry along or is left out.
LEMMA EntryHasFileStep ==
  ASSUME TypeOK, NEW s \in Sources, [Next]_vars, ~Spend("early"),
         CreatedAlone(s), CreatedListed(s), RemovedClosed(s),
         BuiltInOrder(s), FailedIsCut(s), EntryHasFile(s)
  PROVE  EntryHasFile(s)'
<1> USE DEF TypeOK, RegistryTypes, WalletTypes, RequestTypes, JobTypes,
            CreatedAlone, CreatedListed, RemovedClosed, BuiltInOrder,
            FailedIsCut, EntryHasFile, Creating, Active, Present, regVars,
            fileVars, reqVars
<1>1. CASE \/ Stop \/ Start
           \/ \E i \in Imports : Import(i)
           \/ \E t \in Sources :
                     ScanEnds(t) \/ MarkSynced(t)
           \/ UNCHANGED vars
  <2>1. UNCHANGED <<entries, file, job, rem, purge, cut>>
    BY <1>1 DEF Import, ScanEnds, MarkSynced, Stop, Start, vars, regVars,
       fileVars, runVars, reqVars, Delete, Open
  <2> QED
    BY <2>1
<1>2. CASE BootOpens
  BY <1>2 DEF BootOpens, Open, Listed, Present
<1>3. ASSUME NEW i \in Imports, ImportAdds(i)
      PROVE  EntryHasFile(s)'
  <2> DEFINE added == {x \in fresh[i] : ~Present(x)}
  <2>1. ASSUME NEW j \in Imports, job'[j][s] # job[j][s]
        PROVE  Register(i, added) /\ s \in added /\ job'[j][s] = "checking"
    <3>1. Register(i, added)
      BY <1>3, <2>1 DEF ImportAdds
    <3> HIDE DEF added
    <3>2. job'[j][s] = IF j = i /\ s \in added THEN "checking" ELSE job[j][s]
      BY <3>1 DEF Register
    <3> QED
      BY <2>1, <3>1, <3>2
  <2>2. UNCHANGED <<file, rem, purge, cut>>
    BY <1>3 DEF ImportAdds
  <2>3. CASE \E j \in Imports : job'[j][s] # job[j][s]
    BY <2>1, <2>3
  <2>4. CASE \A j \in Imports : job'[j][s] = job[j][s]
    <3>1. entries'[s] = entries[s]
      <4>1. CASE UNCHANGED entries
        BY <4>1
      <4>2. CASE Register(i, added)
        <5> HIDE DEF added
        <5>1. s \in added => job'[i][s] = "checking"
          BY <4>2 DEF Register
        <5>2. s \in added => job[i][s] = "checking" /\ ~Present(s)
          BY <2>4, <5>1 DEF added
        <5>3. s \notin added
          BY <5>2
        <5> QED
          BY <4>2, <5>3 DEF Register
      <4> QED
        BY <1>3, <4>1, <4>2 DEF ImportAdds
    <3> QED
      BY <2>2, <2>4, <3>1
  <2> QED
    BY <2>3, <2>4
<1>4. ASSUME NEW i \in Imports, NEW t \in Sources, JobChecks(i, t)
      PROVE  EntryHasFile(s)'
  <2>1. /\ UNCHANGED <<entries, rem, purge, cut>>
        /\ t # s => file'[s] = file[s]
    BY <1>4 DEF JobChecks
  <2>2. /\ t = s => job'[i][s] \notin {"none", "done"}
        /\ t # s => \A j \in Imports : job'[j][s] = job[j][s]
    BY <1>4 DEF JobChecks, SetJob
  <2> QED
    BY <2>1, <2>2
<1>5. ASSUME NEW i \in Imports, NEW t \in Sources, WorkerWrites(i, t)
      PROVE  EntryHasFile(s)'
  <2>1. /\ UNCHANGED <<entries, rem, purge, cut>>
        /\ t # s => file'[s] = file[s]
    BY <1>5 DEF WorkerWrites
  <2>2. /\ t = s => job'[i][s] \notin {"none", "done"}
        /\ t # s => \A j \in Imports : job'[j][s] = job[j][s]
    BY <1>5 DEF WorkerWrites, SetJob
  <2> QED
    BY <2>1, <2>2
<1>6. ASSUME NEW i \in Imports, NEW t \in Sources, WorkerDone(i, t)
      PROVE  EntryHasFile(s)'
  <2>1. /\ UNCHANGED <<entries, rem, purge, cut>>
        /\ t # s => file'[s] = file[s]
    BY <1>6 DEF WorkerDone
  <2>2. /\ t = s => job'[i][s] \notin {"none", "done"}
        /\ t # s => \A j \in Imports : job'[j][s] = job[j][s]
    BY <1>6 DEF WorkerDone, SetJob
  <2> QED
    BY <2>1, <2>2
<1>7. ASSUME NEW i \in Imports, NEW t \in Sources, JobFails(i, t)
      PROVE  EntryHasFile(s)'
  <2>1. CASE t = s
    BY <1>7, <2>1 DEF JobFails
  <2>2. CASE t # s
    <3>1. /\ UNCHANGED <<entries, rem, purge>> /\ cut' = cut \cup {t}
          /\ file'[s] = file[s]
      BY <1>7, <2>2 DEF JobFails, Delete
    <3>2. \A j \in Imports : job'[j][s] = job[j][s]
      BY <1>7, <2>2 DEF JobFails, SetJob
    <3> QED
      BY <3>1, <3>2
  <2> QED
    BY <2>1, <2>2
<1>8. ASSUME NEW i \in Imports, NEW t \in Sources, MarkFailed(i, t)
      PROVE  EntryHasFile(s)'
  <2>1. UNCHANGED <<entries, rem, purge, file, cut>>
    BY <1>8 DEF MarkFailed
  <2>2. CASE t = s
    BY <1>8, <2>1, <2>2 DEF MarkFailed
  <2>3. CASE t # s
    <3>1. \A j \in Imports : job'[j][s] = job[j][s]
      BY <1>8, <2>3 DEF MarkFailed, SetJob
    <3> QED
      BY <2>1, <3>1
  <2> QED
    BY <2>2, <2>3
<1>9. ASSUME NEW i \in Imports, NEW t \in Sources, JobOpens(i, t)
      PROVE  EntryHasFile(s)'
  <2>1. UNCHANGED <<entries, rem, purge, cut>>
    BY <1>9 DEF JobOpens
  <2>2. CASE t = s
    <3>1. file[s] = "built" /\ file'[s] = "built"
      BY <1>9, <2>2 DEF JobOpens, Open
    <3> QED
      BY <3>1
  <2>3. CASE t # s
    <3>1. /\ file'[s] = file[s]
          /\ \A j \in Imports : job'[j][s] = job[j][s]
      BY <1>9, <2>3 DEF JobOpens, SetJob, Open
    <3> QED
      BY <2>1, <3>1
  <2> QED
    BY <2>2, <2>3
<1>10. ASSUME NEW t \in Sources, RemoveCloses(t)
      PROVE  EntryHasFile(s)'
  BY <1>10 DEF RemoveCloses, Spend, AtRest
<1>11. ASSUME NEW t \in Sources, RemoveReads(t)
      PROVE  EntryHasFile(s)'
  BY <1>11 DEF RemoveReads, Present
<1>12. ASSUME NEW t \in Sources, RemoveDeletes(t)
      PROVE  EntryHasFile(s)'
  BY <1>12 DEF RemoveDeletes, Delete
<1>13. ASSUME NEW t \in Sources, RemoveFails(t)
      PROVE  EntryHasFile(s)'
  BY <1>13 DEF RemoveFails, Spend, Delete
<1>14. ASSUME NEW t \in Sources, RemoveWrites(t)
      PROVE  EntryHasFile(s)'
  BY <1>14 DEF RemoveWrites, Spend
<1>15. CASE PurgeCloses
  BY <1>15 DEF PurgeCloses, Spend, AtRest, Quiet
<1>16. CASE PurgeWipes
  BY <1>16 DEF PurgeWipes, Delete
<1>17. CASE PurgeFails
  BY <1>17 DEF PurgeFails, Delete, Spend, Listed
<1>18. CASE PurgeWrites
  BY <1>18 DEF PurgeWrites
<1>19. CASE Exit \/ Crash
  <2>1. Down
    BY <1>19 DEF Exit, Crash
  <2> SUFFICES ASSUME Present(s)', s \notin cut' PROVE file'[s] = "built"
    OBVIOUS
  <2>2. UNCHANGED <<entries, file>>
    BY <2>1 DEF Down
  <2>3. s \in Listed
    BY <2>2 DEF Listed
  <2>4. /\ s \notin cut /\ rem[s] # "deleted" /\ purge # "wiped"
        /\ \A i \in Imports : job[i][s] \notin {"checking"} \cup Building
    BY <2>1, <2>3 DEF Down
  <2>5. ASSUME NEW i \in Imports, Active(i, s)
        PROVE  file[s] = "built"
    BY <2>4, <2>5 DEF Building, JobStages
  <2> QED
    BY <2>2, <2>4, <2>5
<1>20. ASSUME NEW t \in Sources, OrphanEnds(t)
      PROVE  EntryHasFile(s)'
  BY <1>20 DEF OrphanEnds
<1> QED
  BY <1>1, <1>2, <1>3, <1>4, <1>5, <1>6, <1>7, <1>8, <1>9, <1>10, <1>11, <1>12,
     <1>13, <1>14, <1>15, <1>16, <1>17, <1>18, <1>19, <1>20 DEF Next, JobSteps

\* OpenBuilt: an open source keeps the file it was opened with.
LEMMA OpenBuiltStep ==
  ASSUME TypeOK, NEW s \in Sources, [Next]_vars, ~Spend("early"),
         CreatedUp(s), RemovedClosed(s), BuiltInOrder(s),
         EntryHasFile(s), OpenBuilt(s)
  PROVE  OpenBuilt(s)'
<1> USE DEF TypeOK, RegistryTypes, WalletTypes, RequestTypes, JobTypes,
            CreatedUp, RemovedClosed, BuiltInOrder, EntryHasFile, OpenBuilt,
            Active, Present, fileVars
<1>1. CASE \/ Start
           \/ \E i \in Imports : Import(i) \/ ImportAdds(i)
           \/ \E t \in Sources :
                     ScanEnds(t) \/ MarkSynced(t) \/ RemoveReads(t)
           \/ \E i \in Imports, t \in Sources :
                     JobChecks(i, t) \/ MarkFailed(i, t)
           \/ UNCHANGED vars
  <2>1. UNCHANGED <<live, file, cut>>
    BY <1>1 DEF Import, ImportAdds, JobChecks, MarkFailed, ScanEnds,
       MarkSynced, RemoveReads, Start, vars, regVars, fileVars, runVars,
       reqVars, Delete, Open
  <2> QED
    BY <2>1
<1>2. CASE BootOpens
  BY <1>2 DEF BootOpens, Open, Listed, Present
<1>3. ASSUME NEW i \in Imports, NEW t \in Sources, WorkerWrites(i, t)
      PROVE  OpenBuilt(s)'
  BY <1>3 DEF WorkerWrites, SetJob
<1>4. ASSUME NEW i \in Imports, NEW t \in Sources, WorkerDone(i, t)
      PROVE  OpenBuilt(s)'
  BY <1>4 DEF WorkerDone, SetJob
<1>5. ASSUME NEW i \in Imports, NEW t \in Sources, JobFails(i, t)
      PROVE  OpenBuilt(s)'
  BY <1>5 DEF JobFails, SetJob, Delete, Spend, Building
<1>6. ASSUME NEW i \in Imports, NEW t \in Sources, JobOpens(i, t)
      PROVE  OpenBuilt(s)'
  BY <1>6 DEF JobOpens, SetJob, Open
<1>7. ASSUME NEW t \in Sources, RemoveCloses(t)
      PROVE  OpenBuilt(s)'
  BY <1>7 DEF RemoveCloses, Spend, AtRest
<1>8. ASSUME NEW t \in Sources, RemoveDeletes(t)
      PROVE  OpenBuilt(s)'
  BY <1>8 DEF RemoveDeletes, Delete
<1>9. ASSUME NEW t \in Sources, RemoveFails(t)
      PROVE  OpenBuilt(s)'
  BY <1>9 DEF RemoveFails, Spend, Delete
<1>10. ASSUME NEW t \in Sources, RemoveWrites(t)
      PROVE  OpenBuilt(s)'
  BY <1>10 DEF RemoveWrites, Spend
<1>11. CASE PurgeCloses
  BY <1>11 DEF PurgeCloses, Spend, AtRest, Quiet
<1>12. CASE PurgeWipes
  BY <1>12 DEF PurgeWipes, Delete
<1>13. CASE PurgeFails
  BY <1>13 DEF PurgeFails, Delete, Spend, Listed
<1>14. CASE PurgeWrites
  BY <1>14 DEF PurgeWrites
<1>15. CASE Stop
  BY <1>15 DEF Stop, Spend
<1>16. CASE Exit
  BY <1>16 DEF Exit, Down, Building, Listed
<1>17. CASE Crash
  BY <1>17 DEF Crash, Spend, Down, Building, Listed
<1>18. ASSUME NEW t \in Sources, OrphanEnds(t)
      PROVE  OpenBuilt(s)'
  BY <1>18 DEF OrphanEnds
<1> QED
  BY <1>1, <1>2, <1>3, <1>4, <1>5, <1>6, <1>7, <1>8, <1>9, <1>10, <1>11, <1>12,
     <1>13, <1>14, <1>15, <1>16, <1>17, <1>18 DEF Next, JobSteps

\* Together, when nothing has been early.
LEMMA BuiltStep ==
  ASSUME TypeOK, BudgetInv, CalmInv, BuiltInv, [Next]_vars
  PROVE  BuiltInv'
<1> SUFFICES ASSUME Unspent({"early"})', NEW s \in Sources
             PROVE  (/\ CreatedUp(s) /\ BuiltInOrder(s) /\ FailedIsCut(s)
                     /\ EntryHasFile(s) /\ OpenBuilt(s))'
  BY DEF BuiltInv
<1>1. Unspent({"early"}) /\ ~Spend("early")
  BY UnspentBefore DEF TypeOK, Events
<1>2. /\ CreatedAlone(s) /\ CreatedListed(s) /\ CreatedOnce(s)
      /\ RemovedClosed(s) /\ NothingLeft(s)
  BY <1>1 DEF CalmInv
<1>3. /\ CreatedUp(s) /\ BuiltInOrder(s) /\ FailedIsCut(s)
      /\ EntryHasFile(s) /\ OpenBuilt(s)
  BY <1>1 DEF BuiltInv
<1>4. CreatedUp(s)' /\ BuiltInOrder(s)' /\ FailedIsCut(s)'
  BY <1>1, <1>2, <1>3, CreatedUpStep, BuiltInOrderStep, FailedIsCutStep
<1>5. EntryHasFile(s)' /\ OpenBuilt(s)'
  BY <1>1, <1>2, <1>3, EntryHasFileStep, OpenBuiltStep
<1> QED
  BY <1>4, <1>5

-----------------------------------------------------------------------------
(* What an entry stands for.                                               *)

\* Every step leaves it so: what closes a source is still at work, what ends
\* the work has opened the source, reported it, or taken its entry.
LEMMA ServedStep ==
  ASSUME TypeOK, NEW s \in Sources, [Next]_vars,
         ~Spend("deleteFail"), ~Spend("writeFail"),
         booted => up # "down", up = "up" /\ booted => Served(s),
         up' = "up", booted'
  PROVE  Served(s)'
<1> USE DEF TypeOK, RegistryTypes, WalletTypes, RequestTypes, JobTypes,
            Served, Active, Present, regVars, fileVars, runVars, reqVars
<1>1. CASE UNCHANGED vars
  BY <1>1 DEF vars
<1>2. CASE BootOpens
  BY <1>2 DEF BootOpens, Open, Listed
<1>3. ASSUME NEW i \in Imports, Import(i)
      PROVE  Served(s)'
  BY <1>3 DEF Import
<1>4. ASSUME NEW i \in Imports, ImportAdds(i)
      PROVE  Served(s)'
  <2>1. UNCHANGED <<live, failed, rem, purge, up, booted>>
    BY <1>4 DEF ImportAdds
  <2>2. CASE UNCHANGED <<entries, job>>
    BY <2>1, <2>2
  <2>3. ASSUME NEW added \in SUBSET Sources, Register(i, added)
        PROVE  Served(s)'
    <3>1. CASE s \in added
      BY <2>3, <3>1 DEF Register
    <3>2. CASE s \notin added
      <4>1. /\ entries'[s] = entries[s]
            /\ \A j \in Imports : job'[j][s] = job[j][s]
        BY <2>3, <3>2 DEF Register
      <4> QED
        BY <2>1, <4>1
    <3> QED
      BY <3>1, <3>2
  <2> QED
    BY <1>4, <2>2, <2>3 DEF ImportAdds
<1>5. ASSUME NEW i \in Imports, NEW t \in Sources,
             JobChecks(i, t) \/ WorkerWrites(i, t) \/ WorkerDone(i, t)
               \/ JobFails(i, t)
      PROVE  Served(s)'
  <2>1. /\ UNCHANGED <<entries, live, failed, rem, purge, up, booted>>
        /\ \E stage \in JobStages \ {"none", "done"} : SetJob(i, t, stage)
    BY <1>5 DEF JobChecks, WorkerWrites, WorkerDone, JobFails, JobStages
  <2>2. \A j \in Imports : Active(j, s) => job'[j][s] \notin {"none", "done"}
    BY <2>1 DEF SetJob
  <2> QED
    BY <2>1, <2>2
<1>6. ASSUME NEW i \in Imports, NEW t \in Sources, MarkFailed(i, t)
      PROVE  Served(s)'
  <2>1. CASE s = t
    BY <1>6, <2>1 DEF MarkFailed
  <2>2. CASE s # t
    BY <1>6, <2>2 DEF MarkFailed, SetJob
  <2> QED
    BY <2>1, <2>2
<1>7. ASSUME NEW i \in Imports, NEW t \in Sources, JobOpens(i, t)
      PROVE  Served(s)'
  <2>1. CASE s = t
    BY <1>7, <2>1 DEF JobOpens, Open
  <2>2. CASE s # t
    BY <1>7, <2>2 DEF JobOpens, Open, SetJob
  <2> QED
    BY <2>1, <2>2
<1>8. ASSUME NEW t \in Sources, ScanEnds(t) \/ MarkSynced(t) \/ OrphanEnds(t)
      PROVE  Served(s)'
  BY <1>8 DEF ScanEnds, MarkSynced, OrphanEnds
<1>9. ASSUME NEW t \in Sources,
             RemoveCloses(t) \/ RemoveReads(t) \/ RemoveDeletes(t)
      PROVE  Served(s)'
  BY <1>9 DEF RemoveCloses, RemoveReads, RemoveDeletes, Delete
<1>10. ASSUME NEW t \in Sources, RemoveFails(t) \/ RemoveWrites(t)
       PROVE  Served(s)'
  <2>1. CASE RemoveFails(t)
    <3>1. Spend("deleteFail")
      BY <2>1 DEF RemoveFails
    <3> QED
      BY <3>1
  <2>2. CASE RemoveWrites(t)
    <3>1. /\ UNCHANGED <<live, job, purge, up, booted>>
          /\ entries' = [entries EXCEPT ![t] = 0] /\ failed' = failed \ {t}
          /\ rem' = [rem EXCEPT ![t] = "idle"]
      BY <2>2 DEF RemoveWrites
    <3>2. CASE s = t
      BY <3>1, <3>2
    <3>3. CASE s # t
      <4>1. entries'[s] = entries[s] /\ rem'[s] = rem[s]
        BY <3>1, <3>3
      <4> QED
        BY <3>1, <3>3, <4>1
    <3> QED
      BY <3>2, <3>3
  <2> QED
    BY <1>10, <2>1, <2>2
<1>11. CASE PurgeCloses \/ PurgeWipes
  BY <1>11 DEF PurgeCloses, PurgeWipes, Delete
<1>12. CASE PurgeFails \/ PurgeWrites
  <2>1. CASE PurgeFails
    <3>1. Spend("deleteFail") \/ Spend("writeFail")
      BY <2>1 DEF PurgeFails
    <3> QED
      BY <3>1
  <2>2. CASE PurgeWrites
    <3>1. entries' = [t \in Sources |-> 0]
      BY <2>2 DEF PurgeWrites
    <3>2. entries'[s] = 0
      BY <3>1
    <3> QED
      BY <3>2
  <2> QED
    BY <1>12, <2>1, <2>2
<1>13. CASE Stop \/ Exit \/ Crash \/ Start
  <2>1. up' # "up" \/ ~booted'
    BY <1>13 DEF Stop, Exit, Crash, Start, Down
  <2> QED
    BY <2>1
<1> QED
  BY <1>1, <1>2, <1>3, <1>4, <1>5, <1>6, <1>7, <1>8, <1>9, <1>10, <1>11,
     <1>12, <1>13 DEF Next, JobSteps

\* As long as the process is up, it stays so; when it goes down, nothing is
\* opened any more.
LEMMA BootedIsUpStep ==
  ASSUME TypeOK, booted => up # "down", [Next]_vars
  PROVE  booted' => up' # "down"
<1> USE DEF TypeOK, RequestTypes, runVars
<1>1. CASE UNCHANGED vars
  BY <1>1 DEF vars
<1>2. CASE BootOpens
  BY <1>2 DEF BootOpens
<1>3. ASSUME NEW i \in Imports,
             \/ Import(i) \/ ImportAdds(i)
             \/ \E s \in Sources : JobSteps(i, s) \/ JobFails(i, s)
      PROVE  booted' => up' # "down"
  BY <1>3 DEF Import, ImportAdds, JobSteps, JobFails, JobChecks, WorkerWrites,
     WorkerDone, MarkFailed, JobOpens
<1>4. ASSUME NEW s \in Sources,
             \/ ScanEnds(s) \/ MarkSynced(s) \/ OrphanEnds(s)
             \/ RemoveCloses(s) \/ RemoveReads(s) \/ RemoveDeletes(s)
             \/ RemoveFails(s) \/ RemoveWrites(s)
      PROVE  booted' => up' # "down"
  BY <1>4 DEF ScanEnds, MarkSynced, OrphanEnds, RemoveCloses, RemoveReads,
     RemoveDeletes, RemoveFails, RemoveWrites
<1>5. CASE PurgeCloses \/ PurgeWipes \/ PurgeFails \/ PurgeWrites
  BY <1>5 DEF PurgeCloses, PurgeWipes, PurgeFails, PurgeWrites
<1>6. CASE Stop \/ Exit \/ Crash \/ Start
  BY <1>6 DEF Stop, Exit, Crash, Start, Down
<1> QED
  BY <1>1, <1>2, <1>3, <1>4, <1>5, <1>6 DEF Next

\* As long as nothing was deleted or written half, no step leaves an entry
\* that nobody serves.
LEMMA EntryServedStep ==
  ASSUME TypeOK, BudgetInv, ServedInv, [Next]_vars
  PROVE  EveryEntryServed'
<1> SUFFICES ASSUME up' = "up", booted', Unspent({"deleteFail", "writeFail"})',
                    NEW s \in Sources
             PROVE  Served(s)'
  BY DEF EveryEntryServed, Served, Active, Present
<1>1. /\ Unspent({"deleteFail", "writeFail"})
      /\ ~Spend("deleteFail") /\ ~Spend("writeFail")
  BY UnspentBefore DEF TypeOK, Events, Failures
<1>2. up = "up" /\ booted => Served(s)
  BY <1>1 DEF ServedInv, EveryEntryServed, Served, Active
<1> QED
  BY <1>1, <1>2, ServedStep DEF ServedInv

-----------------------------------------------------------------------------
(* The invariant, and what follows from it.                                *)

\* An empty registry and an empty directory satisfy it.
LEMMA InitIInv == Init => IInv
<1> SUFFICES ASSUME Init PROVE IInv
  OBVIOUS
<1>0. ASSUME NEW s \in Sources PROVE ~Present(s)
  <2>1. entries = [t \in Sources |-> 0]
    BY DEF Init
  <2> QED
    BY <2>1 DEF Present
<1> USE ConstantsAssumption DEF Init
<1>1. TypeOK
  BY DEF TypeOK, RegistryTypes, WalletTypes, RequestTypes, JobTypes, Files,
     JobStages
<1>2. BudgetInv /\ OneEntryPerSource
  BY DEF BudgetInv, OneEntryPerSource
<1>3. CalmInv
  BY DEF CalmInv, CreatedAlone, Creating, CreatedListed, CreatedOnce, Active,
     RemovedClosed, FileGoesFirst, NothingLeft
<1>4. BuiltInv
  BY <1>0 DEF BuiltInv, CreatedUp, Active, BuiltInOrder, FailedIsCut,
     EntryHasFile, OpenBuilt
<1>5. ServedInv
  <2>1. ~booted
    BY DEF Init
  <2> QED
    BY <2>1 DEF ServedInv, EveryEntryServed
<1> QED
  BY <1>1, <1>2, <1>3, <1>4, <1>5 DEF IInv

\* Every step keeps it.
LEMMA NextIInv == IInv /\ [Next]_vars => IInv'
<1> SUFFICES ASSUME IInv, [Next]_vars PROVE IInv'
  OBVIOUS
<1>1. TypeOK'
  BY RegistryTypesStep, WalletTypesStep, RequestTypesStep, JobTypesStep,
     BudgetStep DEF IInv, TypeOK
<1>2. BudgetInv' /\ OneEntryPerSource'
  BY BudgetStep, OneEntryStep DEF IInv, TypeOK
<1>3. CalmInv' /\ BuiltInv'
  BY CalmStep, BuiltStep DEF IInv
<1>4. ServedInv'
  BY BootedIsUpStep, EntryServedStep DEF IInv, ServedInv
<1> QED
  BY <1>1, <1>2, <1>3, <1>4 DEF IInv

\* So it holds in every reachable state.
LEMMA Invariant == Spec => []IInv
  BY InitIInv, NextIInv, PTL DEF Spec

\* TypeOK: the registry, the files and the requests have the values the code
\* can give them.
THEOREM TypeCorrect == Spec => []TypeOK
<1>1. IInv => TypeOK
  BY DEF IInv
<1> QED
  BY <1>1, Invariant, PTL

\* OneEntryPerSource: however many imports of one secret, removals and purges
\* overlap, a source never has two entries.
THEOREM OneEntryHolds == Spec => []OneEntryPerSource
<1>1. IInv => OneEntryPerSource
  BY DEF IInv
<1> QED
  BY <1>1, Invariant, PTL

\* OneBuilder: if requests wait for each other, no two workers write one
\* wallet file, through any number of crashes with a worker under way.
THEOREM OneBuilderHolds == Spec => []OneBuilder
<1>1. IInv => OneBuilder
  BY DEF IInv, CalmInv, CreatedOnce, Active, OneBuilder, Building
<1> QED
  BY <1>1, Invariant, PTL

\* GoneIsGone: if requests wait for each other, a source without an entry has
\* no file and is not open, whatever fails and wherever the daemon dies.
THEOREM GoneIsGoneHolds == Spec => []GoneIsGone
<1>1. IInv => GoneIsGone
  BY DEF IInv, CalmInv, NothingLeft, GoneIsGone
<1> QED
  BY <1>1, Invariant, PTL

\* EveryEntryServed: however requests overlap and wherever the daemon dies, a
\* daemon that serves has every source of its registry open, under way, or
\* reported as failed, unless a deletion or a write has failed.
THEOREM EveryEntryServedHolds == Spec => []EveryEntryServed
<1>1. IInv => EveryEntryServed
  BY DEF IInv, ServedInv
<1> QED
  BY <1>1, Invariant, PTL

\* OpenWasBuilt: if requests wait for each other, every wallet the daemon has
\* open was built to the end from its source's secret, through any failures,
\* stops and crashes, but those whose own creation, removal or purge failed or
\* was cut off.
THEOREM OpenWasBuiltHolds == Spec => []OpenWasBuilt
<1>1. IInv => OpenWasBuilt
  BY DEF IInv, BuiltInv, OpenBuilt, OpenWasBuilt, TypeOK, WalletTypes
<1> QED
  BY <1>1, Invariant, PTL

=============================================================================
