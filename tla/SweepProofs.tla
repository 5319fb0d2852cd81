---------------------------- MODULE SweepProofs ----------------------------
(***************************************************************************)
(* What Sweep keeps for every set of sources, coins and destinations,      *)
(* every number of broadcasts that overlap and every budget of events: its *)
(* types, that a broadcast is forced only as its preview was, and that a   *)
(* sweep reported as broadcast has moved all it owed.                      *)
(*                                                                         *)
(* The last is about the end of a broadcast; OwedInv says what makes it    *)
(* true on the way there.  A coin that is owed is spent, or it is in the   *)
(* database and its leg is to be sent or its source still to come, for an  *)
(* amount that is no less than what the leg holds: so the transaction of   *)
(* that leg, which has exactly that many coins, must take it.  An amount   *)
(* is read when its source's turn comes, and what makes a leg grow after   *)
(* that excuses its coins.                                                 *)
(***************************************************************************)
EXTENDS Sweep, SequenceTheorems, FiniteSetTheorems, TLAPS

-----------------------------------------------------------------------------
(* The inductive invariant.                                                *)

\* What a client confirms with is what its preview was made with.
ForceKept == client.force = client.previewForce

Amount(l) == Cardinality(In(l))

\* A leg that is about to be sent takes all there is in it, and the coin's leg
\* is among these, or its source still comes, open and with a balance that
\* counts it.
LegTakesAll(j, c) ==
  \A i \in DOMAIN job[j].legs :
    job[j].legs[i][1] = Home[c] => Amount(Home[c]) <= job[j].legs[i][2]
LegPending(j, c) == \E i \in DOMAIN job[j].legs : job[j].legs[i][1] = Home[c]
SourcePending(j, c) ==
  /\ Home[c][1] \in job[j].queue \cap open
  /\ Amount(Home[c]) <= shown[Home[c]]

\* A coin that a broadcast owes is spent, or will be.
Owing(j, c) ==
  \/ coin[c] = "spent"
  \/ /\ c \in known
     /\ LegPending(j, c) \/ SourcePending(j, c)
     /\ LegTakesAll(j, c)
     /\ job[j].tx # {} /\ Head(job[j].legs)[1] = Home[c] => c \in job[j].tx

OwedInv == \A j \in Jobs : job[j].on => \A c \in job[j].must : Owing(j, c)

IInv == TypeOK /\ ForceKept /\ OwedInv /\ SuccessMovedAll

-----------------------------------------------------------------------------
(* Amounts.                                                                *)

\* The coins of a leg among some,
Of(K, l) == {c \in K : Home[c] = l}

\* which can be counted,
LEMMA OfType ==
  ASSUME NEW K \in SUBSET Coins, NEW l
  PROVE  /\ IsFiniteSet(Of(K, l)) /\ Of(K, l) \in SUBSET Coins
         /\ Cardinality(Of(K, l)) \in 0..Cardinality(Coins)
<1>1. Of(K, l) \in SUBSET Coins /\ IsFiniteSet(Coins)
  BY ConstantsAssumption DEF Of
<1>2. /\ IsFiniteSet(Of(K, l)) /\ Cardinality(Of(K, l)) <= Cardinality(Coins)
      /\ Cardinality(Of(K, l)) \in Nat /\ Cardinality(Coins) \in Nat
  BY <1>1, FS_Subset, FS_CardinalityType
<1> QED
  BY <1>1, <1>2

\* and fewer coins are no larger amount.
LEMMA OfMonotonic ==
  ASSUME NEW l, NEW K \in SUBSET Coins, NEW L \in SUBSET Coins,
         Of(L, l) \subseteq Of(K, l)
  PROVE  Cardinality(Of(L, l)) <= Cardinality(Of(K, l))
<1>1. IsFiniteSet(Of(K, l))
  BY OfType
<1> QED
  BY <1>1, FS_Subset

-----------------------------------------------------------------------------
(* The client.                                                             *)

\* A client that waits for no broadcast.
Free(r) ==
  /\ r \in Clients /\ r.job = None /\ r.at \notin {"confirming", "done"}
  /\ r.force = r.previewForce

\* One that neither waits for a broadcast nor shows its result is one.
LEMMA FreeClient ==
  ASSUME ClientTypes, ForceKept, client.at \notin {"confirming", "done"}
  PROVE  Free(client)
BY ConstantsAssumption DEF ClientTypes, ForceKept, Free, Clients

\* Its types, and its force, are in order.
LEMMA FreeTypes ==
  ASSUME Free(client')
  PROVE  ClientTypes' /\ ForceKept'
BY ConstantsAssumption DEF ClientTypes, ForceKept, Free

\* A client that starts waits for nothing,
LEMMA NewClientFree ==
  ASSUME NEW kind \in {"cli", "tui", "gui"}
  PROVE  Free(NewClient(kind))
BY ConstantsAssumption DEF Free, Clients, NewClient, Places

\* and neither does one that starts over.
LEMMA OverFree ==
  ASSUME client \in Clients, Over
  PROVE  Free(client') /\ UNCHANGED <<wallets, job>>
<1>1. client.kind \in {"cli", "tui", "gui"}
  BY DEF Clients
<1> QED
  BY <1>1, NewClientFree DEF Over, Set

\* The user's steps change the client alone, and lead to no broadcast.
LEMMA PromptsStep ==
  ASSUME ClientTypes, ForceKept, Prompts
  PROVE  Free(client') /\ UNCHANGED <<wallets, job, left>>
<1>0. client \in Clients /\ (client.at \notin {"confirming", "done"} =>
                              Free(client))
  BY FreeClient DEF ClientTypes
<1> USE DEF Places, Set, Go, Gui
<1>1. CASE CliStarts
  BY <1>0, <1>1 DEF CliStarts, Free, Clients
<1>2. CASE TuiStarts
  BY <1>0, <1>2 DEF TuiStarts, Free, Clients
<1>3. CASE TuiForces
  <2>1. CASE Over
    BY <1>0, <1>3, <2>1, OverFree DEF TuiForces
  <2>2. CASE ~Over
    BY <1>0, <1>3, <2>2 DEF TuiForces, Free, Clients
  <2> QED
    BY <2>1, <2>2
<1>4. CASE TuiDestination
  <2>1. CASE Over
    BY <1>0, <1>4, <2>1, OverFree DEF TuiDestination
  <2>2. CASE ~Over
    BY <1>0, <1>4, <2>2 DEF TuiDestination, Free, Clients
  <2> QED
    BY <2>1, <2>2
<1>5. CASE Reenter
  <2>1. CASE Over
    BY <1>0, <1>5, <2>1, OverFree DEF Reenter
  <2>2. CASE ~Over
    BY <1>0, <1>5, <2>2 DEF Reenter, Free, Clients
  <2> QED
    BY <2>1, <2>2
<1>6. CASE GuiContinues
  BY <1>0, <1>6 DEF GuiContinues, Free, Clients
<1>7. CASE GuiVerifies
  <2>1. PICK d \in Addresses :
          Set(IF d = client.dest
              THEN [client EXCEPT !.at = "preparing", !.matched = d,
                                  !.error = FALSE, !.blocked = FALSE]
              ELSE [client EXCEPT !.error = TRUE])
    BY <1>7 DEF GuiVerifies
  <2>2. CASE d = client.dest
    BY <1>0, <1>7, <2>1, <2>2 DEF GuiVerifies, Free, Clients
  <2>3. CASE d # client.dest
    BY <1>0, <1>7, <2>1, <2>3 DEF GuiVerifies, Free, Clients
  <2> QED
    BY <2>2, <2>3
<1>8. CASE GuiForces
  BY <1>0, <1>8 DEF GuiForces, Free, Clients
<1>9. CASE GuiBack
  BY <1>0, <1>9 DEF GuiBack, Free, Clients
<1> QED
  BY <1>1, <1>2, <1>3, <1>4, <1>5, <1>6, <1>7, <1>8, <1>9 DEF Prompts

\* An error of /sweep/confirm leaves it free as well,
LEMMA AfterErrorFree ==
  ASSUME client \in Clients, ForceKept
  PROVE  Free(AfterError)
<1>1. CASE Gui
  BY <1>1, ConstantsAssumption DEF Gui, AfterError, Free, Clients, ForceKept,
     Places
<1>2. CASE ~Gui
  <2>1. client.kind \in {"cli", "tui", "gui"}
    BY DEF Clients
  <2> QED
    BY <1>2, <2>1, NewClientFree DEF AfterError
<1> QED
  BY <1>1, <1>2

\* A preview that fails leaves it free,
LEMMA NotPreparedFree ==
  ASSUME Free(client), NEW blocked \in BOOLEAN, NotPrepared(blocked)
  PROVE  Free(client') /\ UNCHANGED <<wallets, job>>
<1>0. client \in Clients
  BY DEF Free
<1>1. CASE Over
  BY <1>0, <1>1, OverFree
<1>2. CASE ~Over
  <2>1. CASE client.kind = "tui" /\ blocked /\ ~client.asked
    <3>1. Set([client EXCEPT !.at = "askForce"])
      BY <2>1 DEF NotPrepared, Go, Gui
    <3> QED
      BY <3>1 DEF Set, Free, Clients, Places
  <2>2. CASE ~(client.kind = "tui" /\ blocked /\ ~client.asked) /\ Gui
    <3>1. Set([client EXCEPT !.at = "verify", !.error = TRUE,
                             !.asked = FALSE, !.blocked = blocked])
      BY <1>2, <2>2 DEF NotPrepared
    <3> QED
      BY <3>1 DEF Set, Free, Clients, Places
  <2> QED
    BY <1>2, <2>1, <2>2 DEF NotPrepared
<1> QED
  BY <1>1, <1>2

\* and so does what /sweep/prepare answers.
LEMMA AnswersStep ==
  ASSUME WalletTypes, ClientTypes, ForceKept,
         \/ PrepareAnswers \/ PrepareUnreachable \/ ConfirmFails
         \/ Confirm /\ Prepared(client.force) # "ok"
  PROVE  Free(client') /\ UNCHANGED <<wallets, job>>
<1>0. client \in Clients
  BY DEF ClientTypes
<1>1. CASE PrepareAnswers
  <2>1. Free(client)
    BY <1>1, FreeClient DEF PrepareAnswers
  <2>2. CASE Prepared(client.asked) = "ok"
    <3>1. Free(Previewed)
      BY <2>1 DEF Free, Clients, Previewed, Places, Ready, WalletTypes
    <3> QED
      BY <1>1, <2>2, <3>1 DEF PrepareAnswers, Set
  <2>3. CASE Prepared(client.asked) # "ok"
    BY <1>1, <2>1, <2>3, NotPreparedFree DEF PrepareAnswers
  <2> QED
    BY <2>2, <2>3
<1>2. CASE PrepareUnreachable
  <2>1. Free(client)
    BY <1>2, FreeClient DEF PrepareUnreachable
  <2> QED
    BY <1>2, <2>1, NotPreparedFree DEF PrepareUnreachable
<1>3. CASE ConfirmFails
  BY <1>0, <1>3, AfterErrorFree DEF ConfirmFails
<1>4. CASE Confirm /\ Prepared(client.force) # "ok"
  BY <1>0, <1>4, AfterErrorFree DEF Confirm
<1> QED
  BY <1>1, <1>2, <1>3, <1>4

-----------------------------------------------------------------------------
(* The sources and the chain.                                              *)

\* What the sources do leaves the clients alone and only takes from what the
\* broadcasts owe.
SourcesSteps ==
  \/ \E s \in Sources : \/ Drop(s) \/ Returns(s) \/ Close(s)
                        \/ Rescan(s) \/ Progress(s) \/ Finds(s)
                        \/ ScanFails(s)
  \/ \E l \in Legs : Refresh(l)
  \/ \E c \in Coins : Receive(c)

\* They keep the types of what the wallets hold.
LEMMA SourcesTypes ==
  ASSUME WalletTypes, SourcesSteps
  PROVE  WalletTypes'
<1> USE DEF WalletTypes, Spend, Legs
<1>1. ASSUME NEW s \in Sources, Drop(s) PROVE WalletTypes'
  BY <1>1 DEF Drop
<1>2. ASSUME NEW s \in Sources, Returns(s) PROVE WalletTypes'
  BY <1>2 DEF Returns
<1>3. ASSUME NEW s \in Sources, Close(s) PROVE WalletTypes'
  BY <1>3 DEF Close
<1>4. ASSUME NEW s \in Sources, Rescan(s) PROVE WalletTypes'
  <2>1. 0 \in 0..Cardinality(Coins)
    BY FS_CardinalityType, ConstantsAssumption
  <2> QED
    BY <1>4, <2>1 DEF Rescan
<1>5. ASSUME NEW s \in Sources, Progress(s) PROVE WalletTypes'
  BY <1>5 DEF Progress
<1>6. ASSUME NEW s \in Sources, Finds(s) PROVE WalletTypes'
  BY <1>6 DEF Finds, Present
<1>7. ASSUME NEW s \in Sources, ScanFails(s) PROVE WalletTypes'
  BY <1>7 DEF ScanFails
<1>8. ASSUME NEW l \in Legs, Refresh(l) PROVE WalletTypes'
  <2>1. known \in SUBSET Coins
    OBVIOUS
  <2>2. In(l) = Of(known, l)
    BY DEF In, Of
  <2>3. Cardinality(In(l)) \in 0..Cardinality(Coins)
    BY <2>1, <2>2, OfType
  <2> QED
    BY <1>8, <2>3 DEF Refresh
<1>9. ASSUME NEW c \in Coins, Receive(c) PROVE WalletTypes'
  BY <1>9 DEF Receive
<1> QED
  BY <1>1, <1>2, <1>3, <1>4, <1>5, <1>6, <1>7, <1>8, <1>9 DEF SourcesSteps

\* They change nothing of a broadcast but what it owes.
LEMMA SourcesExcuse ==
  ASSUME JobTypes, SourcesSteps
  PROVE  /\ client' = client
         /\ \E C : job' = [j \in Jobs |-> [job[j] EXCEPT !.must = @ \ C]]
<1>1. CASE UNCHANGED <<client, job>>
  <2>1. job' = [j \in Jobs |-> [job[j] EXCEPT !.must = @ \ {}]]
    BY <1>1 DEF JobTypes
  <2> QED
    BY <1>1, <2>1
<1>2. ASSUME NEW C, Excuse(C)
      PROVE  /\ client' = client
             /\ \E D : job' = [j \in Jobs |-> [job[j] EXCEPT !.must = @ \ D]]
  BY <1>2 DEF Excuse
<1> QED
  BY <1>1, <1>2 DEF SourcesSteps, Drop, Returns, Close, Rescan, Progress,
     Finds, ScanFails, Refresh, Receive

-----------------------------------------------------------------------------
(* The broadcasts.                                                         *)

Pairs == Legs \X Nat

\* The legs of a source, with what their balances count: a leg with a balance
\* is among them.
LEMMA LegsOfSource ==
  ASSUME WalletTypes, NEW s \in Sources
  PROVE  /\ LegsOf(s) \in Seq(Pairs)
         /\ \A i \in DOMAIN LegsOf(s) :
              /\ LegsOf(s)[i][1][1] = s
              /\ LegsOf(s)[i][2] = shown[LegsOf(s)[i][1]]
         /\ s \in open => \A l \in Legs :
              l[1] = s /\ shown[l] > 0 =>
                \E i \in DOMAIN LegsOf(s) : LegsOf(s)[i][1] = l
<1> DEFINE n == <<s, "nav">>
           x == <<s, "xnav">>
<1>1. /\ n \in Legs /\ n[1] = s /\ x \in Legs /\ x[1] = s
      /\ \A l \in Legs : l[1] = s => l \in {n, x}
  BY DEF Legs
<1>2. \A l \in Legs : shown[l] \in Nat
  BY FS_CardinalityType, ConstantsAssumption DEF WalletTypes
<1> HIDE DEF n, x
<1>3. ASSUME NEW l \in Legs, l[1] = s
      PROVE  /\ Leg(l) \in Seq(Pairs) /\ Len(Leg(l)) \in {0, 1}
             /\ \A i \in 1..Len(Leg(l)) : Leg(l)[i] = <<l, shown[l]>>
             /\ shown[l] > 0 => Len(Leg(l)) = 1
  <2>0. shown[l] \in Nat /\ <<l, shown[l]>> \in Pairs
    BY <1>2 DEF Pairs
  <2>1. CASE shown[l] > 0
    <3>1. Leg(l) = << <<l, shown[l]>> >>
      BY <2>1 DEF Leg
    <3> QED
      BY <2>0, <3>1
  <2>2. CASE ~(shown[l] > 0)
    <3>1. Leg(l) = << >>
      BY <2>2 DEF Leg
    <3> QED
      BY <2>2, <3>1
  <2> QED
    BY <2>1, <2>2
<1>4. CASE s \in open
  <2> DEFINE p == Leg(n)
             q == Leg(x)
  <2>1. LegsOf(s) = p \o q
    BY <1>4 DEF LegsOf, n, x
  <2>0. /\ Len(p) \in {0, 1} /\ Len(q) \in {0, 1}
        /\ shown[n] > 0 => Len(p) = 1
        /\ shown[x] > 0 => Len(q) = 1
    BY <1>1, <1>3
  <2>2. /\ p \in Seq(Pairs) /\ q \in Seq(Pairs)
        /\ \A i \in 1..Len(p) : p[i] = <<n, shown[n]>>
        /\ \A i \in 1..Len(q) : q[i] = <<x, shown[x]>>
    BY <1>1, <1>3
  <2> HIDE DEF p, q
  <2>3. /\ p \o q \in Seq(Pairs) /\ Len(p \o q) = Len(p) + Len(q)
        /\ \A i \in 1..Len(p) + Len(q) :
             (p \o q)[i] = IF i <= Len(p) THEN p[i] ELSE q[i - Len(p)]
    BY <2>2, ConcatProperties
  <2>4. DOMAIN (p \o q) = 1..Len(p) + Len(q)
    BY <2>3, LenProperties
  <2>5. \A i \in DOMAIN (p \o q) :
          (p \o q)[i] \in {<<n, shown[n]>>, <<x, shown[x]>>}
    <3>1. TAKE i \in DOMAIN (p \o q)
    <3>2. Len(p) \in Nat /\ Len(q) \in Nat /\ i \in 1..Len(p) + Len(q)
      BY <2>0, <2>4
    <3>3. CASE i <= Len(p)
      <4>1. i \in 1..Len(p) /\ (p \o q)[i] = p[i]
        BY <2>3, <3>2, <3>3
      <4> QED
        BY <2>2, <4>1
    <3>4. CASE ~(i <= Len(p))
      <4>1. i - Len(p) \in 1..Len(q) /\ (p \o q)[i] = q[i - Len(p)]
        BY <2>3, <3>2, <3>4
      <4> QED
        BY <2>2, <4>1
    <3> QED
      BY <3>3, <3>4
  <2>6. shown[n] > 0 =>
          1 \in DOMAIN (p \o q) /\ (p \o q)[1] = <<n, shown[n]>>
    <3>1. HAVE shown[n] > 0
    <3>2. /\ Len(p) = 1 /\ Len(q) \in {0, 1}
          /\ 1 \in 1..Len(p) /\ 1 \in 1..Len(p) + Len(q)
      BY <2>0, <3>1
    <3> QED
      BY <2>2, <2>3, <2>4, <3>2
  <2>7. shown[x] > 0 =>
          /\ Len(p) + 1 \in DOMAIN (p \o q)
          /\ (p \o q)[Len(p) + 1] = <<x, shown[x]>>
    <3>1. HAVE shown[x] > 0
    <3>2. Len(q) = 1 /\ 1 \in 1..Len(q) /\ q[1] = <<x, shown[x]>>
      BY <2>0, <2>2, <3>1
    <3>3. /\ Len(p) + 1 \in 1..Len(p) + Len(q) /\ ~(Len(p) + 1 <= Len(p))
          /\ Len(p) + 1 - Len(p) = 1
      BY <2>0, <3>2
    <3>4. (p \o q)[Len(p) + 1] = q[1]
      BY <2>3, <3>3
    <3> QED
      BY <2>4, <3>2, <3>3, <3>4
  <2>8. ASSUME NEW l \in Legs, l[1] = s, shown[l] > 0
        PROVE  \E i \in DOMAIN LegsOf(s) : LegsOf(s)[i][1] = l
    <3>1. CASE l = n
      BY <2>1, <2>6, <2>8, <3>1
    <3>2. CASE l = x
      BY <2>1, <2>7, <2>8, <3>2
    <3> QED
      BY <1>1, <2>8, <3>1, <3>2
  <2>9. ASSUME NEW i \in DOMAIN LegsOf(s)
        PROVE  /\ LegsOf(s)[i][1][1] = s
               /\ LegsOf(s)[i][2] = shown[LegsOf(s)[i][1]]
    BY <1>1, <2>1, <2>5
  <2> QED
    BY <2>1, <2>3, <2>8, <2>9
<1>5. CASE s \notin open
  <2>1. LegsOf(s) = << >>
    BY <1>5 DEF LegsOf
  <2> QED
    BY <1>5, <2>1
<1> QED
  BY <1>4, <1>5

Job == [on : BOOLEAN, tx : SUBSET Coins, legs : Seq(Pairs),
        queue : SUBSET Sources, must : SUBSET Coins]
JobOK(r) ==
  /\ r \in Job
  /\ r.tx # {} => r.legs # << >>
  /\ r.legs # << >> => r.on

\* The jobs are well typed one by one.
LEMMA JobTypesEach ==
  JobTypes <=> job \in [Jobs -> Job] /\ \A j \in Jobs : JobOK(job[j])
BY DEF JobTypes, JobOK, Job, Pairs

\* The same after a step.
LEMMA JobTypesEachNext ==
  JobTypes' <=> job' \in [Jobs -> Job] /\ \A j \in Jobs : JobOK(job'[j])
BY DEF JobTypes, JobOK, Job, Pairs

\* NoJob is well typed, and not under way.
LEMMA NoJobOK == JobOK(NoJob) /\ ~NoJob.on
<1>1. << >> \in Seq(Pairs)
  OBVIOUS
<1> QED
  BY <1>1 DEF NoJob, JobOK, Job

\* A step that changes one broadcast to a well typed one keeps the types.
LEMMA OneJobTypes ==
  ASSUME JobTypes, NEW j \in Jobs, NEW r, JobOK(r),
         job' = [job EXCEPT ![j] = r]
  PROVE  JobTypes'
<1>1. /\ job \in [Jobs -> Job] /\ \A k \in Jobs : JobOK(job[k])
      /\ r \in Job
  BY JobTypesEach DEF JobOK
<1>2. job' \in [Jobs -> Job] /\ \A k \in Jobs : JobOK(job'[k])
  <2>1. job' \in [Jobs -> Job]
    BY <1>1
  <2>2. ASSUME NEW k \in Jobs PROVE JobOK(job'[k])
    <3>1. CASE k = j
      <4>1. job'[k] = r
        BY <1>1, <3>1
      <4> QED
        BY <4>1
    <3>2. CASE k # j
      <4>1. job'[k] = job[k]
        BY <1>1, <3>2
      <4> QED
        BY <1>1, <4>1
    <3> QED
      BY <3>1, <3>2
  <2> QED
    BY <2>1, <2>2
<1> QED
  BY <1>2, JobTypesEachNext

\* A step of a broadcast changes that broadcast alone.  It goes on, or ends and
\* is over for the client that waits for it.
BroadcastTo(j, r) ==
  /\ JobOK(r) /\ job' = [job EXCEPT ![j] = r]
  /\ \/ client' = client /\ (client.job # j \/ r.on)
     \/ Free(client')
     \/ client.job = j /\ client' = [client EXCEPT !.at = "done"]

\* One that fails is over, for whoever waits for it as well.
LEMMA FailsStep ==
  ASSUME client \in Clients, ForceKept, NEW j \in Jobs, Fails(j)
  PROVE  BroadcastTo(j, NoJob)
<1>1. CASE client.job = j
  BY <1>1, NoJobOK, AfterErrorFree DEF Fails, BroadcastTo
<1>2. CASE client.job # j
  BY <1>2, NoJobOK DEF Fails, BroadcastTo
<1> QED
  BY <1>1, <1>2

\* Every action of executeSweep is such a step.
LEMMA BroadcastStep ==
  ASSUME WalletTypes, client \in Clients, JobTypes, ForceKept,
         NEW j \in Jobs, Broadcast(j)
  PROVE  \E r : BroadcastTo(j, r)
<1>0. JobOK(job[j]) /\ job[j] \in Job /\ DOMAIN job = Jobs
  BY JobTypesEach DEF JobOK
<1>1. CASE NextSource(j)
  <2>1. PICK s \in Turns(j) :
          /\ job' = [job EXCEPT ![j] = SourceLegs(j, s)] /\ UNCHANGED client
    BY <1>1 DEF NextSource
  <2>2. s \in Sources
    BY <1>0, <2>1 DEF Turns, Job
  <2>3. LegsOf(s) \in Seq(Pairs)
    BY <2>2, LegsOfSource
  <2>4. JobOK(SourceLegs(j, s)) /\ SourceLegs(j, s).on
    BY <1>0, <1>1, <2>3 DEF JobOK, Job, SourceLegs, NextSource, Between
  <2> QED
    BY <2>1, <2>4 DEF BroadcastTo
<1>2. CASE CreateTx(j)
  <2>1. CASE Fails(j)
    BY <2>1, FailsStep
  <2>2. CASE ~Fails(j)
    <3>1. PICK tx \in SUBSET In(Head(job[j].legs)[1]) :
            job' = [job EXCEPT ![j].tx = tx] /\ UNCHANGED client
      BY <1>2, <2>2 DEF CreateTx
    <3> DEFINE r == [job[j] EXCEPT !.tx = tx]
    <3>2. JobOK(r) /\ r.on
      BY <1>0, <1>2, <3>1 DEF JobOK, Job, CreateTx, In, WalletTypes
    <3>3. job' = [job EXCEPT ![j] = r]
      BY <1>0, <3>1
    <3> QED
      BY <3>1, <3>2, <3>3 DEF BroadcastTo
  <2> QED
    BY <2>1, <2>2
<1>3. CASE SendTx(j)
  <2>1. CASE Fails(j)
    BY <2>1, FailsStep
  <2>2. CASE Sent(j)
    <3> DEFINE r == [job[j] EXCEPT !.legs = Tail(@), !.tx = {}]
    <3>1. /\ job[j].legs \in Seq(Pairs) /\ job[j].legs # << >> /\ job[j].on
      BY <1>0, <1>3 DEF JobOK, Job, SendTx
    <3>2. Tail(job[j].legs) \in Seq(Pairs)
      BY <3>1
    <3>3. JobOK(r) /\ r.on
      BY <1>0, <3>1, <3>2 DEF JobOK, Job
    <3>4. job' = [job EXCEPT ![j] = r] /\ UNCHANGED client
      BY <1>0, <2>2 DEF Sent
    <3> QED
      BY <3>3, <3>4 DEF BroadcastTo
  <2> QED
    BY <1>3, <2>1, <2>2 DEF SendTx
<1>4. CASE SweepEnds(j)
  <2>1. CASE client.job = j
    <3> DEFINE r == [job[j] EXCEPT !.on = FALSE]
    <3>1. /\ client' = [client EXCEPT !.at = "done"]
          /\ job' = [job EXCEPT ![j].on = FALSE]
      BY <1>4, <2>1 DEF SweepEnds
    <3>2. job' = [job EXCEPT ![j] = r]
      BY <1>0, <3>1
    <3>3. JobOK(r)
      BY <1>0, <1>4 DEF JobOK, Job, SweepEnds, Between
    <3> QED
      BY <2>1, <3>1, <3>2, <3>3 DEF BroadcastTo
  <2>2. CASE client.job # j
    BY <1>4, <2>2, NoJobOK DEF SweepEnds, BroadcastTo
  <2> QED
    BY <2>1, <2>2
<1> QED
  BY <1>1, <1>2, <1>3, <1>4 DEF Broadcast

-----------------------------------------------------------------------------
(* Types, and the force of a broadcast.                                    *)

Tied == client.at = "confirming" => job[client.job].on
Confirmed == Confirm /\ Prepared(client.force) = "ok"

\* A broadcast that starts is the one its client waits for, and spends from
\* the ready sources.
LEMMA ConfirmedStep ==
  ASSUME ClientTypes, ForceKept, Confirmed
  PROVE  \E j \in Jobs :
           /\ ~job[j].on /\ UNCHANGED <<wallets, left>>
           /\ client' = [client EXCEPT !.at = "confirming", !.error = FALSE,
                                       !.job = j]
           /\ job' = [job EXCEPT ![j] =
                [NoJob EXCEPT
                   !.on = TRUE,
                   !.must = Owed(IF client.force THEN Ready ELSE open),
                   !.queue = Ready]]
BY DEF Confirmed, Confirm

\* Every step is one of these: a client goes on or starts anew, a broadcast
\* starts, goes on or ends, or something happens to the sources.
Moves ==
  \/ Turn \/ Prompts
  \/ PrepareAnswers \/ PrepareUnreachable \/ ConfirmFails
  \/ Confirm /\ Prepared(client.force) # "ok"

\* (Nothing else can happen.)
LEMMA StepKinds ==
  ASSUME Next
  PROVE  Moves \/ Confirmed \/ (\E j \in Jobs : Broadcast(j)) \/ SourcesSteps
<1>1. CASE Confirm
  BY <1>1 DEF Moves, Confirmed
<1>2. CASE ~Confirm
  BY <1>2 DEF Next, Requests, Moves, SourcesSteps
<1> QED
  BY <1>1, <1>2

\* A client that goes on or starts anew keeps clear of the broadcasts.
LEMMA MovesStep ==
  ASSUME TypeOK, ForceKept, Moves
  PROVE  /\ Free(client') /\ UNCHANGED wallets
         /\ \/ UNCHANGED job
            \/ job' = [j \in Jobs |-> IF job[j].on THEN job[j] ELSE NoJob]
<1>1. CASE Turn
  BY <1>1, NewClientFree DEF Turn
<1>2. CASE Prompts
  BY <1>2, PromptsStep DEF TypeOK
<1> QED
  BY <1>1, <1>2, AnswersStep DEF TypeOK, Moves

\* The events that may happen are only used up.
LEMMA LeftStep ==
  ASSUME TypeOK, ForceKept, [Next]_vars
  PROVE  left' \in 0..Budget
<1>1. left' = left \/ Spend
  <2>1. CASE Prompts
    BY <2>1, PromptsStep DEF TypeOK
  <2>2. ASSUME NEW j \in Jobs, Broadcast(j)
        PROVE  left' = left \/ Spend
    BY <2>2 DEF Broadcast, NextSource, CreateTx, SendTx, SweepEnds
  <2>3. CASE SourcesSteps
    BY <2>3 DEF SourcesSteps, Drop, Returns, Close, Rescan, Progress, Finds,
       ScanFails, Refresh, Receive, Spend
  <2>4. CASE Turn \/ Requests
    BY <2>4 DEF Turn, Requests, PrepareAnswers, PrepareUnreachable, Confirm,
       ConfirmFails
  <2> QED
    BY <2>1, <2>2, <2>3, <2>4 DEF Next, SourcesSteps, vars
<1> QED
  BY <1>1, ConstantsAssumption DEF TypeOK, Spend

\* Coins that are spent leave the databases.
LEMMA SpentTypes ==
  ASSUME WalletTypes, NEW C, Spent(C)
  PROVE  WalletTypes'
BY DEF WalletTypes, Spent

\* The types of the wallets, the jobs and the client, step by step.
LEMMA WalletStep ==
  ASSUME TypeOK, ForceKept, [Next]_vars
  PROVE  WalletTypes'
<1>0. WalletTypes
  BY DEF TypeOK
<1>1. CASE UNCHANGED wallets
  BY <1>0, <1>1 DEF wallets, WalletTypes
<1>2. ASSUME NEW j \in Jobs, Broadcast(j)
      PROVE  UNCHANGED wallets \/ Spent(job[j].tx)
  BY <1>2 DEF Broadcast, NextSource, CreateTx, SendTx, SweepEnds
<1>3. CASE UNCHANGED vars
  BY <1>1, <1>3 DEF vars
<1>4. CASE Moves
  BY <1>1, <1>4, MovesStep
<1>5. CASE Confirmed
  BY <1>1, <1>5 DEF Confirmed, Confirm
<1>6. CASE \E j \in Jobs : Broadcast(j)
  BY <1>0, <1>1, <1>2, <1>6, SpentTypes
<1>7. CASE SourcesSteps
  BY <1>0, <1>7, SourcesTypes
<1> QED
  BY <1>3, <1>4, <1>5, <1>6, <1>7, StepKinds

\* The jobs.
LEMMA JobStep ==
  ASSUME TypeOK, ForceKept, [Next]_vars
  PROVE  JobTypes'
<1>0. /\ WalletTypes /\ client \in Clients /\ ClientTypes /\ JobTypes
      /\ job \in [Jobs -> Job] /\ \A j \in Jobs : JobOK(job[j])
  BY JobTypesEach DEF TypeOK, ClientTypes
<1>1. CASE UNCHANGED job
  BY <1>0, <1>1 DEF JobTypes
<1>2. CASE job' = [j \in Jobs |-> IF job[j].on THEN job[j] ELSE NoJob]
  <2>1. ASSUME NEW j \in Jobs PROVE JobOK(job'[j]) /\ job'[j] \in Job
    <3>1. job'[j] \in {job[j], NoJob}
      BY <1>2
    <3> QED
      BY <1>0, <3>1, NoJobOK DEF JobOK
  <2> QED
    BY <1>2, <2>1, JobTypesEachNext
<1>3. CASE Moves
  BY <1>1, <1>2, <1>3, MovesStep
<1>4. CASE Confirmed
  <2>1. PICK j \in Jobs :
          job' = [job EXCEPT ![j] =
                [NoJob EXCEPT
                   !.on = TRUE,
                   !.must = Owed(IF client.force THEN Ready ELSE open),
                   !.queue = Ready]]
    BY <1>0, <1>4, ConfirmedStep
  <2>2. /\ Owed(IF client.force THEN Ready ELSE open) \subseteq Coins
        /\ Ready \subseteq Sources
    BY <1>0 DEF Owed, Ready, WalletTypes
  <2>3. JobOK([NoJob EXCEPT
                 !.on = TRUE,
                 !.must = Owed(IF client.force THEN Ready ELSE open),
                 !.queue = Ready])
    BY <2>2, NoJobOK DEF JobOK, Job, NoJob
  <2> QED
    BY <1>0, <2>1, <2>3, OneJobTypes
<1>5. CASE \E j \in Jobs : Broadcast(j)
  BY <1>0, <1>5, BroadcastStep, OneJobTypes DEF BroadcastTo
<1>6. CASE SourcesSteps
  <2>1. PICK C : job' = [j \in Jobs |-> [job[j] EXCEPT !.must = @ \ C]]
    BY <1>0, <1>6, SourcesExcuse
  <2>2. ASSUME NEW j \in Jobs PROVE JobOK(job'[j]) /\ job'[j] \in Job
    BY <1>0, <2>1 DEF JobOK, Job
  <2> QED
    BY <2>1, <2>2, JobTypesEachNext
<1>7. CASE UNCHANGED vars
  BY <1>1, <1>7 DEF vars
<1> QED
  BY <1>3, <1>4, <1>5, <1>6, <1>7, StepKinds

\* The client, which waits for a broadcast that is under way and confirms
\* with the force of its preview.
LEMMA ClientStep ==
  ASSUME TypeOK, ForceKept, [Next]_vars
  PROVE  ClientTypes' /\ ForceKept' /\ Tied'
<1>0. /\ WalletTypes /\ client \in Clients /\ ClientTypes /\ JobTypes /\ Tied
      /\ job \in [Jobs -> Job]
  BY JobTypesEach DEF TypeOK, ClientTypes, Tied
<1>1. CASE Free(client')
  BY <1>1, FreeTypes DEF Tied, Free
<1>2. ASSUME client' = client,
             \A j \in Jobs : client.job = j => (job[j].on => job'[j].on)
      PROVE  ClientTypes' /\ ForceKept' /\ Tied'
  BY <1>0, <1>2 DEF ClientTypes, ForceKept, Tied
<1>3. CASE Moves
  BY <1>1, <1>3, MovesStep
<1>4. CASE Confirmed
  <2>1. PICK j \in Jobs :
          /\ client' = [client EXCEPT !.at = "confirming", !.error = FALSE,
                                      !.job = j]
          /\ job' = [job EXCEPT ![j] =
                [NoJob EXCEPT
                   !.on = TRUE,
                   !.must = Owed(IF client.force THEN Ready ELSE open),
                   !.queue = Ready]]
    BY <1>0, <1>4, ConfirmedStep
  <2>2. job'[j].on
    BY <1>0, <2>1 DEF NoJob
  <2>3. client' \in Clients /\ client'.at = "confirming" /\ client'.job = j
    BY <1>0, <2>1 DEF Clients, Places
  <2>4. client'.force = client'.previewForce
    BY <1>0, <2>1 DEF Clients, ForceKept
  <2> QED
    BY <2>2, <2>3, <2>4 DEF ClientTypes, ForceKept, Tied
<1>5. ASSUME NEW j \in Jobs, Broadcast(j)
      PROVE  ClientTypes' /\ ForceKept' /\ Tied'
  <2>1. PICK r : BroadcastTo(j, r)
    BY <1>0, <1>5, BroadcastStep
  <2>2. job'[j] = r /\ \A k \in Jobs : k # j => job'[k] = job[k]
    BY <1>0, <2>1 DEF BroadcastTo
  <2>3. CASE client' = client /\ (client.job # j \/ r.on)
    BY <1>2, <2>2, <2>3
  <2>4. CASE client.job = j /\ client' = [client EXCEPT !.at = "done"]
    <3>1. client' \in Clients /\ client'.at = "done" /\ client'.job = j
      BY <1>0, <2>4 DEF Clients, Places
    <3>2. client'.force = client'.previewForce
      BY <1>0, <2>4 DEF Clients, ForceKept
    <3> QED
      BY <3>1, <3>2 DEF ClientTypes, ForceKept, Tied
  <2> QED
    BY <1>1, <2>1, <2>3, <2>4 DEF BroadcastTo
<1>6. CASE SourcesSteps
  <2>1. /\ client' = client
        /\ \E C : job' = [j \in Jobs |-> [job[j] EXCEPT !.must = @ \ C]]
    BY <1>0, <1>6, SourcesExcuse
  <2>2. ASSUME NEW j \in Jobs, job[j].on PROVE job'[j].on
    BY <1>0, <2>1, <2>2 DEF Job
  <2> QED
    BY <1>2, <2>1, <2>2
<1>7. CASE UNCHANGED vars
  BY <1>2, <1>7 DEF vars
<1> QED
  BY <1>3, <1>4, <1>5, <1>6, <1>7, StepKinds

\* Together these are the types and the force.
LEMMA TypeStep ==
  ASSUME TypeOK, ForceKept, [Next]_vars
  PROVE  TypeOK' /\ ForceKept'
BY WalletStep, JobStep, ClientStep, LeftStep DEF TypeOK, Tied

\* They hold at first.
LEMMA TypeInit ==
  ASSUME Init
  PROVE  TypeOK /\ ForceKept
<1>1. /\ WalletTypes
  <2>1. known \in SUBSET Coins
    BY DEF Init
  <2>2. \A l : In(l) = Of(known, l)
    BY DEF In, Of
  <2>3. \A l \in Legs : Cardinality(In(l)) \in 0..Cardinality(Coins)
    BY <2>1, <2>2, OfType
  <2> QED
    BY <2>3 DEF Init, WalletTypes
<1>2. Free(client) /\ ClientTypes /\ ForceKept
  <2>1. Free(client)
    BY NewClientFree DEF Init
  <2> QED
    BY <2>1, ConstantsAssumption DEF Free, ClientTypes, ForceKept
<1>3. JobTypes
  BY NoJobOK, JobTypesEach DEF Init, JobOK
<1>4. left \in 0..Budget
  BY ConstantsAssumption DEF Init
<1> QED
  BY <1>1, <1>2, <1>3, <1>4 DEF TypeOK, Free

-----------------------------------------------------------------------------
(* What a broadcast owes.                                                  *)

\* The legs after the first are those of the tail, one place earlier.
LEMMA TailOfLegs ==
  ASSUME NEW legs \in Seq(Pairs), legs # << >>
  PROVE  /\ Head(legs) = legs[1] /\ 1 \in DOMAIN legs
         /\ \A i \in DOMAIN legs : i # 1 =>
              i - 1 \in DOMAIN Tail(legs) /\ Tail(legs)[i - 1] = legs[i]
         /\ \A i \in DOMAIN Tail(legs) :
              i + 1 \in DOMAIN legs /\ Tail(legs)[i] = legs[i + 1]
<1>1. /\ Len(legs) \in Nat \ {0} /\ DOMAIN legs = 1..Len(legs)
      /\ Tail(legs) \in Seq(Pairs) /\ Len(Tail(legs)) = Len(legs) - 1
      /\ DOMAIN Tail(legs) = 1..Len(Tail(legs))
      /\ \A i \in 1..Len(legs) - 1 : Tail(legs)[i] = legs[i + 1]
  BY HeadTailProperties, EmptySeq, LenProperties
<1>2. Head(legs) = legs[1] /\ 1 \in DOMAIN legs
  BY <1>1, HeadTailProperties
<1>3. ASSUME NEW i \in DOMAIN legs, i # 1
      PROVE  i - 1 \in DOMAIN Tail(legs) /\ Tail(legs)[i - 1] = legs[i]
  <2>1. i - 1 \in 1..Len(legs) - 1 /\ (i - 1) + 1 = i
    BY <1>1, <1>3
  <2> QED
    BY <1>1, <2>1
<1>4. ASSUME NEW i \in DOMAIN Tail(legs)
      PROVE  i + 1 \in DOMAIN legs /\ Tail(legs)[i] = legs[i + 1]
  <2>1. i \in 1..Len(legs) - 1
    BY <1>1
  <2> QED
    BY <1>1, <2>1
<1> QED
  BY <1>2, <1>3, <1>4

\* A leg that gains no coin and whose source and balance stay, or whose balance
\* is read anew.
LegStays(l) ==
  /\ In(l)' \subseteq In(l)
  /\ l[1] \in open => l[1] \in open'
  /\ shown'[l] = shown[l] \/ shown'[l] = Amount(l)'

\* Its amount does not rise.
LEMMA AmountFalls ==
  ASSUME WalletTypes, WalletTypes', NEW l \in Legs, In(l)' \subseteq In(l)
  PROVE  Amount(l)' <= Amount(l) /\ Amount(l) \in Nat /\ Amount(l)' \in Nat
<1>1. /\ known \in SUBSET Coins /\ known' \in SUBSET Coins
      /\ In(l) = Of(known, l) /\ In(l)' = Of(known', l)
  BY DEF WalletTypes, In, Of
<1>2. Cardinality(Of(known', l)) <= Cardinality(Of(known, l))
  BY <1>1, OfMonotonic
<1>3. Cardinality(Of(known', l)) \in Nat /\ Cardinality(Of(known, l)) \in Nat
  BY <1>1, OfType, FS_CardinalityType
<1>4. /\ Amount(l) = Cardinality(Of(known, l))
      /\ Amount(l)' = Cardinality(Of(known', l))
  BY <1>1 DEF Amount
<1> QED
  BY <1>2, <1>3, <1>4

SpentStays(c) == coin[c] = "spent" => coin'[c] = "spent"
KnownStays(c) == c \in known => c \in known' \/ coin'[c] = "spent"

\* What a broadcast owes it still owes while its leg stays.
LEMMA OwingKept ==
  ASSUME WalletTypes, WalletTypes', JobTypes,
         NEW j \in Jobs, NEW c \in Coins, Owing(j, c),
         job'[j].queue = job[j].queue, job'[j].legs = job[j].legs,
         job'[j].tx = job[j].tx,
         SpentStays(c), KnownStays(c), LegStays(Home[c])
  PROVE  Owing(j, c)'
<1>0. /\ Home[c] \in Legs /\ shown[Home[c]] \in Nat
  BY ConstantsAssumption, FS_CardinalityType DEF WalletTypes
<1>1. /\ Amount(Home[c])' <= Amount(Home[c])
      /\ Amount(Home[c]) \in Nat /\ Amount(Home[c])' \in Nat
  BY <1>0, AmountFalls DEF LegStays
<1>2. CASE coin'[c] = "spent"
  BY <1>2 DEF Owing
<1>3. CASE coin'[c] # "spent"
  <2>1. /\ c \in known' /\ c \in known
        /\ LegPending(j, c) \/ SourcePending(j, c)
        /\ LegTakesAll(j, c)
        /\ job[j].tx # {} /\ Head(job[j].legs)[1] = Home[c] =>
             c \in job[j].tx
    BY <1>3 DEF Owing, SpentStays, KnownStays
  <2>2. LegTakesAll(j, c)'
    <3>1. ASSUME NEW i \in DOMAIN job[j].legs, job[j].legs[i][1] = Home[c]
          PROVE  Amount(Home[c])' <= job[j].legs[i][2]
      <4>1. job[j].legs[i] \in Pairs
        BY DEF JobTypes, Pairs
      <4>2. job[j].legs[i][2] \in Nat
        BY <4>1 DEF Pairs
      <4>3. Amount(Home[c]) <= job[j].legs[i][2]
        BY <2>1, <3>1 DEF LegTakesAll
      <4> QED
        BY <1>1, <4>2, <4>3
    <3> QED
      BY <3>1 DEF LegTakesAll
  <2>3. LegPending(j, c) => LegPending(j, c)'
    BY DEF LegPending
  <2>4. SourcePending(j, c) => SourcePending(j, c)'
    BY <1>0, <1>1 DEF SourcePending, LegStays
  <2> QED
    BY <2>1, <2>2, <2>3, <2>4 DEF Owing
<1> QED
  BY <1>2, <1>3

Stays(c) == SpentStays(c) /\ KnownStays(c) /\ LegStays(Home[c])
Excused(C) == job' = [j \in Jobs |-> [job[j] EXCEPT !.must = @ \ C]]

\* Whatever happens to the sources excuses the coins of every leg that grows,
\* that loses its source or whose balance is wiped.
LEMMA SourcesStay ==
  ASSUME TypeOK, SourcesSteps
  PROVE  \E C : Excused(C) /\ \A c \in Coins \ C : Stays(c)
<1>0. /\ \A c \in Coins : Home[c] \in Legs
      /\ job \in [Jobs -> Job] /\ shown \in [Legs -> 0..Cardinality(Coins)]
      /\ known \subseteq Coins
      /\ coin \in [Coins -> {"absent", "unspent", "spent"}]
  BY JobTypesEach, ConstantsAssumption DEF TypeOK, WalletTypes
<1>1. ASSUME UNCHANGED <<open, shown, known, coin, job>>
      PROVE  \E C : Excused(C) /\ \A c \in Coins \ C : Stays(c)
  <2>1. Excused({})
    BY <1>0, <1>1 DEF Excused, Job
  <2>2. ASSUME NEW c \in Coins PROVE Stays(c)
    BY <1>1 DEF Stays, SpentStays, KnownStays, LegStays, In
  <2> QED
    BY <2>1, <2>2
<1>2. ASSUME NEW C, Excuse(C), \A c \in Coins \ C : Stays(c)
      PROVE  \E D : Excused(D) /\ \A c \in Coins \ D : Stays(c)
  BY <1>2 DEF Excuse, Excused
<1> USE DEF Stays, SpentStays, KnownStays, LegStays, In
<1>3. ASSUME NEW s \in Sources,
             Drop(s) \/ Returns(s) \/ Progress(s) \/ ScanFails(s)
      PROVE  UNCHANGED <<open, shown, known, coin, job>>
  BY <1>3 DEF Drop, Returns, Progress, ScanFails
<1>4. ASSUME NEW s \in Sources, Close(s)
      PROVE  \E C : Excuse(C) /\ \A c \in Coins \ C : Stays(c)
  BY <1>4 DEF Close
<1>5. ASSUME NEW s \in Sources, Rescan(s)
      PROVE  \E C : Excuse(C) /\ \A c \in Coins \ C : Stays(c)
  BY <1>0, <1>5 DEF Rescan
<1>6. ASSUME NEW s \in Sources, Finds(s)
      PROVE  \E C : Excuse(C) /\ \A c \in Coins \ C : Stays(c)
  <2>1. PICK D \in SUBSET (Present(s) \ known) :
          /\ known' = known \cup D
          /\ Excuse({c \in Coins : \E d \in D : Home[d] = Home[c]})
    BY <1>6 DEF Finds
  <2>2. UNCHANGED <<open, shown, coin>>
    BY <1>6 DEF Finds
  <2>3. D \subseteq Coins
    BY <2>1 DEF Present
  <2> QED
    BY <2>1, <2>2, <2>3
<1>7. ASSUME NEW l \in Legs, Refresh(l)
      PROVE  \E C : Excused(C) /\ \A c \in Coins \ C : Stays(c)
  <2>1. Excused({})
    BY <1>0, <1>7 DEF Excused, Job, Refresh
  <2>2. ASSUME NEW c \in Coins PROVE Stays(c)
    <3>1. In(Home[c])' = In(Home[c]) /\ Amount(Home[c])' = Amount(Home[c])
      BY <1>7 DEF Refresh, Amount
    <3>2. shown'[Home[c]] = shown[Home[c]] \/ shown'[Home[c]] = Amount(Home[c])
      BY <1>0, <1>7 DEF Refresh, Amount
    <3> QED
      BY <1>7, <3>1, <3>2 DEF Refresh
  <2> QED
    BY <2>1, <2>2
<1>8. ASSUME NEW c \in Coins, Receive(c)
      PROVE  \E C : Excuse(C) /\ \A d \in Coins \ C : Stays(d)
  BY <1>0, <1>8 DEF Receive
<1> HIDE DEF Stays
<1> QED
  BY <1>1, <1>2, <1>3, <1>4, <1>5, <1>6, <1>7, <1>8 DEF SourcesSteps

\* So what happens to the sources leaves the rest owed.
LEMMA OwedSources ==
  ASSUME TypeOK, TypeOK', OwedInv, SourcesSteps
  PROVE  OwedInv'
<1>0. WalletTypes /\ WalletTypes' /\ JobTypes /\ job \in [Jobs -> Job]
  BY JobTypesEach DEF TypeOK
<1>1. PICK C : Excused(C) /\ \A c \in Coins \ C : Stays(c)
  BY SourcesStay
<1>2. ASSUME NEW j \in Jobs, job'[j].on, NEW c \in job'[j].must
      PROVE  Owing(j, c)'
  <2>1. /\ job[j].on /\ c \in job[j].must /\ c \in Coins \ C
        /\ job'[j].queue = job[j].queue /\ job'[j].legs = job[j].legs
        /\ job'[j].tx = job[j].tx
    BY <1>0, <1>1, <1>2 DEF Excused, Job
  <2>2. Owing(j, c) /\ Stays(c)
    BY <1>1, <2>1 DEF OwedInv
  <2> QED
    BY <1>0, <2>1, <2>2, OwingKept DEF Stays
<1> QED
  BY <1>2 DEF OwedInv

\* Elsewhere the broadcasts that are not touched owe what they owed.
LEMMA OwedElsewhere ==
  ASSUME TypeOK, TypeOK', OwedInv, NEW j \in Jobs,
         job'[j] = job[j], job[j].on, \A c \in Coins : Stays(c),
         NEW c \in job'[j].must
  PROVE  Owing(j, c)'
<1>0. WalletTypes /\ WalletTypes' /\ JobTypes /\ job \in [Jobs -> Job]
  BY JobTypesEach DEF TypeOK
<1>1. c \in Coins /\ c \in job[j].must
  BY <1>0 DEF Job
<1>2. Owing(j, c) /\ Stays(c)
  BY <1>1 DEF OwedInv
<1> QED
  BY <1>0, <1>1, <1>2, OwingKept DEF Stays

\* Nothing happens to the legs of wallets that do not change,
LEMMA WalletsStay ==
  ASSUME UNCHANGED wallets
  PROVE  \A c \in Coins : Stays(c)
BY DEF wallets, Stays, SpentStays, KnownStays, LegStays, In

\* and coins that are spent only leave them.
LEMMA SpentStay ==
  ASSUME TypeOK, NEW C, Spent(C)
  PROVE  \A c \in Coins : Stays(c)
BY DEF TypeOK, WalletTypes, Spent, Stays, SpentStays, KnownStays, LegStays, In

\* A broadcast that starts owes what the balances of its sources count.
LEMMA OwedConfirmed ==
  ASSUME TypeOK, TypeOK', ForceKept, OwedInv, Confirmed
  PROVE  OwedInv'
<1>0. WalletTypes /\ job \in [Jobs -> Job] /\ ClientTypes /\ client \in Clients
  BY JobTypesEach DEF TypeOK, ClientTypes
<1>1. PICK k \in Jobs :
        /\ UNCHANGED wallets
        /\ job' = [job EXCEPT ![k] =
             [NoJob EXCEPT
                !.on = TRUE,
                !.must = Owed(IF client.force THEN Ready ELSE open),
                !.queue = Ready]]
  BY <1>0, ConfirmedStep
<1>2. Owed(IF client.force THEN Ready ELSE open) \subseteq Owed(Ready)
  BY <1>0 DEF Confirmed, Prepared, Clients
<1>3. ASSUME NEW j \in Jobs, job'[j].on, NEW c \in job'[j].must
      PROVE  Owing(j, c)'
  <2>1. CASE j = k
    <3>1. /\ job'[j].queue = Ready /\ job'[j].legs = << >>
          /\ job'[j].tx = {}
          /\ c \in Owed(Ready)
      BY <1>0, <1>1, <1>2, <1>3, <2>1 DEF NoJob
    <3>2. /\ c \in known /\ Home[c][1] \in Ready \cap open
          /\ shown[Home[c]] = Amount(Home[c])
      BY <3>1 DEF Owed, Ready, Amount
    <3>3. c \in Coins /\ Home[c] \in Legs /\ shown[Home[c]] \in Nat
      BY <1>0, <3>2, ConstantsAssumption, FS_CardinalityType
         DEF WalletTypes
    <3>4. /\ known' = known /\ open' = open /\ shown' = shown
          /\ Amount(Home[c])' = Amount(Home[c])
      BY <1>1 DEF wallets, Amount, In
    <3>5. SourcePending(j, c)'
      BY <3>1, <3>2, <3>3, <3>4 DEF SourcePending
    <3>6. LegTakesAll(j, c)'
      BY <3>1 DEF LegTakesAll
    <3> QED
      BY <3>1, <3>2, <3>4, <3>5, <3>6 DEF Owing
  <2>2. CASE j # k
    <3>1. job'[j] = job[j]
      BY <1>0, <1>1, <2>2
    <3> QED
      BY <1>1, <1>3, <3>1, WalletsStay, OwedElsewhere
  <2> QED
    BY <2>1, <2>2
<1> QED
  BY <1>3 DEF OwedInv

\* The next source brings the legs of every coin it owes.
LEMMA OwedNextSource ==
  ASSUME TypeOK, OwedInv, NEW j \in Jobs, NextSource(j),
         NEW c \in job'[j].must
  PROVE  Owing(j, c)'
<1>0. /\ WalletTypes /\ job \in [Jobs -> Job] /\ job[j] \in Job
      /\ job[j].on /\ job[j].legs = << >> /\ job[j].tx = {}
  BY JobTypesEach DEF TypeOK, JobOK, NextSource, Between
<1>1. PICK s \in Turns(j) :
        /\ job' = [job EXCEPT ![j] = SourceLegs(j, s)]
        /\ UNCHANGED wallets
  BY DEF NextSource
<1>2. s \in Sources
  BY <1>0, <1>1 DEF Turns, Job
<1>3. /\ job'[j].queue = job[j].queue \ {s} /\ job'[j].legs = LegsOf(s)
      /\ job'[j].tx = {} /\ job'[j].must = job[j].must
  BY <1>0, <1>1 DEF SourceLegs, Job
<1>4. /\ c \in Coins /\ Owing(j, c) /\ Home[c] \in Legs
      /\ shown[Home[c]] \in Nat
  <2>1. c \in Coins /\ Owing(j, c) /\ Home[c] \in Legs
    BY <1>0, <1>3, ConstantsAssumption DEF Job, OwedInv
  <2>2. shown[Home[c]] \in 0..Cardinality(Coins)
    BY <1>0, <2>1 DEF WalletTypes
  <2> QED
    BY <2>1, <2>2, ConstantsAssumption, FS_CardinalityType
<1>5. /\ known' = known /\ open' = open /\ shown' = shown /\ coin' = coin
      /\ Amount(Home[c])' = Amount(Home[c])
  BY <1>1 DEF wallets, Amount, In
<1>6. CASE coin[c] = "spent"
  BY <1>5, <1>6 DEF Owing
<1>7. CASE coin[c] # "spent"
  <2>1. c \in known /\ SourcePending(j, c)
    BY <1>0, <1>4, <1>7 DEF Owing, LegPending
  <2>2. CASE Home[c][1] = s
    <3>1. Amount(Home[c]) \in Nat /\ Amount(Home[c]) > 0
      <4>1. In(Home[c]) = Of(known, Home[c]) /\ known \in SUBSET Coins
        BY <1>0 DEF In, Of, WalletTypes
      <4>2. c \in Of(known, Home[c]) /\ IsFiniteSet(Of(known, Home[c]))
        BY <2>1, <4>1, OfType DEF Of
      <4>3. /\ Cardinality(Of(known, Home[c])) \in Nat
            /\ Cardinality(Of(known, Home[c])) # 0
        BY <4>2, FS_CardinalityType, FS_EmptySet
      <4> QED
        BY <4>1, <4>3 DEF Amount
    <3>2. shown[Home[c]] > 0 /\ s \in open
      BY <1>4, <2>1, <2>2, <3>1 DEF SourcePending
    <3>3. \E i \in DOMAIN LegsOf(s) : LegsOf(s)[i][1] = Home[c]
      BY <1>0, <1>2, <1>4, <2>2, <3>2, LegsOfSource
    <3>4. \A i \in DOMAIN LegsOf(s) : LegsOf(s)[i][1] = Home[c] =>
            Amount(Home[c]) <= LegsOf(s)[i][2]
      BY <1>0, <1>2, <2>1, LegsOfSource DEF SourcePending
    <3>5. LegPending(j, c)' /\ LegTakesAll(j, c)'
      BY <1>3, <1>5, <3>3, <3>4 DEF LegPending, LegTakesAll
    <3> QED
      BY <1>3, <1>5, <2>1, <3>5 DEF Owing
  <2>3. CASE Home[c][1] # s
    <3>1. SourcePending(j, c)'
      BY <1>3, <1>5, <2>1, <2>3 DEF SourcePending
    <3>2. \A i \in DOMAIN LegsOf(s) : LegsOf(s)[i][1] # Home[c]
      BY <1>0, <1>2, <2>3, LegsOfSource
    <3>3. LegTakesAll(j, c)'
      BY <1>3, <3>2 DEF LegTakesAll
    <3> QED
      BY <1>3, <1>5, <2>1, <3>1, <3>3 DEF Owing
  <2> QED
    BY <2>2, <2>3
<1> QED
  BY <1>6, <1>7

\* A transaction takes every coin of its leg.
LEMMA OwedCreateTx ==
  ASSUME TypeOK, OwedInv, NEW j \in Jobs, CreateTx(j), job'[j].on,
         NEW c \in job'[j].must
  PROVE  Owing(j, c)'
<1>0. /\ WalletTypes /\ job \in [Jobs -> Job] /\ job[j] \in Job
      /\ job[j].on /\ job[j].legs # << >> /\ job[j].legs \in Seq(Pairs)
  BY JobTypesEach DEF TypeOK, JobOK, Job, CreateTx
<1> DEFINE leg == Head(job[j].legs)[1]
           amount == Head(job[j].legs)[2]
<1>1. PICK tx \in SUBSET In(leg) :
        /\ Cardinality(tx) = amount
        /\ job' = [job EXCEPT ![j].tx = tx] /\ UNCHANGED wallets
  <2>1. ~Fails(j)
    <3>1. Fails(j) => ~job'[j].on
      BY <1>0, NoJobOK DEF Fails
    <3> QED
      BY <3>1
  <2> QED
    BY <2>1 DEF CreateTx
<1> HIDE DEF leg, amount
<1>2. /\ job'[j].queue = job[j].queue /\ job'[j].legs = job[j].legs
      /\ job'[j].tx = tx /\ job'[j].must = job[j].must
  BY <1>0, <1>1 DEF Job
<1>3. c \in Coins /\ Owing(j, c) /\ Home[c] \in Legs
  BY <1>0, <1>2, ConstantsAssumption DEF Job, OwedInv
<1>4. /\ known' = known /\ open' = open /\ shown' = shown /\ coin' = coin
      /\ Amount(Home[c])' = Amount(Home[c])
  BY <1>1 DEF wallets, Amount, In
<1>5. CASE coin[c] = "spent"
  BY <1>4, <1>5 DEF Owing
<1>6. CASE coin[c] # "spent"
  <2>1. /\ c \in known
        /\ LegPending(j, c) \/ SourcePending(j, c)
        /\ LegTakesAll(j, c)
    BY <1>3, <1>6 DEF Owing
  <2>2. /\ c \in known'
        /\ LegPending(j, c)' \/ SourcePending(j, c)'
        /\ LegTakesAll(j, c)'
    BY <1>2, <1>4, <2>1 DEF LegPending, SourcePending, LegTakesAll
  <2>3. Head(job'[j].legs)[1] = Home[c] => c \in job'[j].tx
    <3>0. HAVE Head(job'[j].legs)[1] = Home[c]
    <3>1. leg = Home[c]
      BY <1>2, <3>0 DEF leg
    <3>2. 1 \in DOMAIN job[j].legs /\ Head(job[j].legs) = job[j].legs[1]
      BY <1>0, TailOfLegs
    <3>3. Cardinality(In(leg)) <= amount
      BY <2>1, <3>1, <3>2 DEF LegTakesAll, Amount, leg, amount
    <3>4. In(leg) = Of(known, leg) /\ known \in SUBSET Coins
      BY <1>0 DEF In, Of, WalletTypes
    <3>5. IsFiniteSet(In(leg))
      BY <3>4, OfType
    <3>6. tx = In(leg)
      <4>1. /\ Cardinality(tx) \in Nat /\ Cardinality(In(leg)) \in Nat
            /\ IsFiniteSet(tx)
        BY <1>1, <3>5, FS_Subset, FS_CardinalityType
      <4>2. Cardinality(tx) = Cardinality(In(leg)) => tx = In(leg)
        BY <1>1, <3>5, FS_Subset
      <4>3. Cardinality(tx) <= Cardinality(In(leg))
        BY <1>1, <3>5, FS_Subset
      <4> QED
        BY <1>1, <3>3, <4>1, <4>2, <4>3
    <3>7. c \in In(leg)
      BY <2>1, <3>1 DEF In
    <3> QED
      BY <1>2, <3>6, <3>7
  <2> QED
    BY <1>2, <2>2, <2>3 DEF Owing
<1> QED
  BY <1>5, <1>6

\* A transaction that is sent spends its coins, and the other legs still come.
LEMMA OwedSent ==
  ASSUME TypeOK, TypeOK', OwedInv, NEW j \in Jobs, job[j].tx # {},
         Sent(j), Spent(job[j].tx), NEW c \in job'[j].must
  PROVE  Owing(j, c)'
<1>0. /\ WalletTypes /\ WalletTypes' /\ job \in [Jobs -> Job]
      /\ job[j] \in Job /\ job[j].on /\ job[j].legs # << >>
      /\ job[j].legs \in Seq(Pairs)
  BY JobTypesEach DEF TypeOK, JobOK, Job
<1>1. /\ job'[j].queue = job[j].queue /\ job'[j].legs = Tail(job[j].legs)
      /\ job'[j].tx = {} /\ job'[j].must = job[j].must
  BY <1>0 DEF Sent, Job
<1>2. c \in Coins /\ Owing(j, c) /\ Home[c] \in Legs
  BY <1>0, <1>1, ConstantsAssumption DEF Job, OwedInv
<1>3. CASE coin[c] = "spent" \/ c \in job[j].tx
  BY <1>2, <1>3 DEF Spent, Owing
<1>4. CASE coin[c] # "spent" /\ c \notin job[j].tx
  <2>1. /\ c \in known
        /\ LegPending(j, c) \/ SourcePending(j, c)
        /\ LegTakesAll(j, c) /\ Head(job[j].legs)[1] # Home[c]
    BY <1>2, <1>4 DEF Owing
  <2>2. /\ c \in known' /\ open' = open /\ shown' = shown
        /\ In(Home[c])' \subseteq In(Home[c])
    BY <1>4, <2>1 DEF Spent, In
  <2>3. /\ Amount(Home[c])' <= Amount(Home[c])
        /\ Amount(Home[c]) \in Nat /\ Amount(Home[c])' \in Nat
    BY <1>0, <1>2, <2>2, AmountFalls
  <2>4. /\ Head(job[j].legs) = job[j].legs[1]
        /\ \A i \in DOMAIN job[j].legs : i # 1 =>
             /\ i - 1 \in DOMAIN Tail(job[j].legs)
             /\ Tail(job[j].legs)[i - 1] = job[j].legs[i]
        /\ \A i \in DOMAIN Tail(job[j].legs) :
             /\ i + 1 \in DOMAIN job[j].legs
             /\ Tail(job[j].legs)[i] = job[j].legs[i + 1]
    BY <1>0, TailOfLegs
  <2>5. LegPending(j, c) => LegPending(j, c)'
    BY <1>1, <2>1, <2>4 DEF LegPending
  <2>6. SourcePending(j, c) => SourcePending(j, c)'
    <3>1. shown[Home[c]] \in Nat
      BY <1>0, <1>2, FS_CardinalityType, ConstantsAssumption DEF WalletTypes
    <3> QED
      BY <1>1, <2>2, <2>3, <3>1 DEF SourcePending
  <2>7. LegTakesAll(j, c)'
    <3>1. ASSUME NEW i \in DOMAIN Tail(job[j].legs),
                 Tail(job[j].legs)[i][1] = Home[c]
          PROVE  Amount(Home[c])' <= Tail(job[j].legs)[i][2]
      <4>1. /\ i + 1 \in DOMAIN job[j].legs
            /\ Tail(job[j].legs)[i] = job[j].legs[i + 1]
        BY <2>4
      <4>2. Amount(Home[c]) <= job[j].legs[i + 1][2]
        BY <2>1, <3>1, <4>1 DEF LegTakesAll
      <4>3. job[j].legs[i + 1] \in Pairs
        BY <1>0, <4>1
      <4>4. job[j].legs[i + 1][2] \in Nat
        BY <4>3 DEF Pairs
      <4> QED
        BY <2>3, <4>1, <4>2, <4>4
    <3> QED
      BY <1>1, <3>1 DEF LegTakesAll
  <2> QED
    BY <1>1, <2>1, <2>2, <2>5, <2>6, <2>7 DEF Owing
<1> QED
  BY <1>3, <1>4

\* Every action of a broadcast keeps what all of them owe,
LEMMA OwedBroadcast ==
  ASSUME TypeOK, TypeOK', ForceKept, OwedInv, NEW k \in Jobs, Broadcast(k)
  PROVE  OwedInv'
<1>0. /\ WalletTypes /\ client \in Clients /\ JobTypes
      /\ job \in [Jobs -> Job]
  BY JobTypesEach DEF TypeOK, ClientTypes
<1>1. PICK r : job' = [job EXCEPT ![k] = r]
  BY <1>0, BroadcastStep DEF BroadcastTo
<1>2. \A c \in Coins : Stays(c)
  <2>1. UNCHANGED wallets \/ Spent(job[k].tx)
    BY DEF Broadcast, NextSource, CreateTx, SendTx, SweepEnds
  <2> QED
    BY <2>1, WalletsStay, SpentStay
<1>3. ASSUME NEW j \in Jobs, j # k, job'[j].on, NEW c \in job'[j].must
      PROVE  Owing(j, c)'
  <2>1. job'[j] = job[j]
    BY <1>0, <1>1, <1>3
  <2> QED
    BY <1>2, <1>3, <2>1, OwedElsewhere
<1>4. ASSUME job'[k].on, NEW c \in job'[k].must
      PROVE  Owing(k, c)'
  <2>1. ~Fails(k)
    BY <1>0, <1>4, NoJobOK DEF Fails
  <2>2. ~SweepEnds(k)
    <3>1. SweepEnds(k) => ~job'[k].on
      <4>1. CASE client.job = k
        BY <1>0, <4>1 DEF SweepEnds, Job
      <4>2. CASE client.job # k
        BY <1>0, <4>2, NoJobOK DEF SweepEnds
      <4> QED
        BY <4>1, <4>2
    <3> QED
      BY <1>4, <3>1
  <2>3. CASE NextSource(k)
    BY <1>4, <2>3, OwedNextSource
  <2>4. CASE CreateTx(k)
    BY <1>4, <2>4, OwedCreateTx
  <2>5. CASE SendTx(k)
    BY <1>4, <2>1, <2>5, OwedSent DEF SendTx
  <2> QED
    BY <2>2, <2>3, <2>4, <2>5 DEF Broadcast
<1> QED
  BY <1>3, <1>4 DEF OwedInv

\* and so does every step.
LEMMA OwedStep ==
  ASSUME TypeOK, TypeOK', ForceKept, OwedInv, [Next]_vars
  PROVE  OwedInv'
<1>0. job \in [Jobs -> Job]
  BY JobTypesEach DEF TypeOK
<1>1. CASE Moves \/ UNCHANGED vars
  <2>1. /\ UNCHANGED wallets
        /\ \/ UNCHANGED job
           \/ job' = [j \in Jobs |-> IF job[j].on THEN job[j] ELSE NoJob]
    BY <1>1, MovesStep DEF vars
  <2>2. ASSUME NEW j \in Jobs, job'[j].on
        PROVE  job'[j] = job[j] /\ job[j].on
    BY <2>1, <2>2, NoJobOK
  <2> QED
    BY <2>1, <2>2, WalletsStay, OwedElsewhere DEF OwedInv
<1> QED
  BY <1>1, StepKinds, OwedConfirmed, OwedBroadcast, OwedSources

-----------------------------------------------------------------------------
(* What was owed has been moved.                                           *)

\* A broadcast only ends with success when nothing is left of its queue and
\* its legs: what it owes has been spent, and what is spent stays so.
LEMMA MovedStep ==
  ASSUME IInv, TypeOK', [Next]_vars
  PROVE  SuccessMovedAll'
<1>0. /\ WalletTypes /\ client \in Clients /\ JobTypes /\ ClientTypes
      /\ job \in [Jobs -> Job] /\ TypeOK /\ ForceKept /\ OwedInv
  BY JobTypesEach DEF TypeOK, ClientTypes, IInv
<1>1. CASE client'.at # "done"
  BY <1>1 DEF SuccessMovedAll
<1>2. ASSUME client' = client, client'.at = "done",
             \A j \in Jobs : job'[j].must \subseteq job[j].must,
             \A c \in Coins : SpentStays(c)
      PROVE  SuccessMovedAll'
  <2>1. client.job \in Jobs
    BY <1>0, <1>2 DEF ClientTypes
  <2>2. \A c \in job[client.job].must : c \in Coins /\ coin[c] = "spent"
    BY <1>0, <1>2, <2>1 DEF IInv, SuccessMovedAll, Job
  <2> QED
    BY <1>2, <2>1, <2>2 DEF SuccessMovedAll, SpentStays
<1>3. CASE Moves
  BY <1>0, <1>1, <1>3, MovesStep DEF Free
<1>4. CASE Confirmed
  <2>1. client'.at = "confirming"
    BY <1>0, <1>4, ConfirmedStep DEF Clients
  <2> QED
    BY <1>1, <2>1
<1>5. ASSUME NEW j \in Jobs, Broadcast(j)
      PROVE  SuccessMovedAll'
  <2>1. PICK r : BroadcastTo(j, r)
    BY <1>0, <1>5, BroadcastStep
  <2>2. CASE client' = client
    <3>1. \A c \in Coins : SpentStays(c)
      <4>1. UNCHANGED wallets \/ Spent(job[j].tx)
        BY <1>5 DEF Broadcast, NextSource, CreateTx, SendTx, SweepEnds
      <4> QED
        BY <1>0, <4>1, WalletsStay, SpentStay DEF Stays
    <3>2. job'[j].must \subseteq job[j].must
      <4>1. job'[j].must = job[j].must \/ job'[j].must = {}
        <5>1. CASE Fails(j)
          BY <1>0, <5>1 DEF Fails, NoJob
        <5>2. CASE Sent(j)
          BY <1>0, <5>2 DEF Sent, Job
        <5>3. CASE NextSource(j)
          BY <1>0, <5>3 DEF NextSource, SourceLegs, Job
        <5>4. CASE CreateTx(j) /\ ~Fails(j)
          BY <1>0, <5>4 DEF CreateTx, Job
        <5>5. CASE SweepEnds(j)
          BY <1>0, <5>5 DEF SweepEnds, NoJob, Job
        <5> QED
          BY <1>5, <5>1, <5>2, <5>3, <5>4, <5>5 DEF Broadcast, SendTx
      <4> QED
        BY <4>1
    <3>3. \A k \in Jobs : job'[k].must \subseteq job[k].must
      <4>1. \A k \in Jobs : k # j => job'[k] = job[k]
        BY <1>0, <2>1 DEF BroadcastTo
      <4> QED
        BY <3>2, <4>1
    <3> QED
      BY <1>1, <1>2, <2>2, <3>1, <3>3
  <2>3. CASE Free(client')
    BY <1>1, <2>3 DEF Free
  <2>4. CASE client.job = j /\ client' = [client EXCEPT !.at = "done"]
                            /\ client' # client
    <3>1. SweepEnds(j)
      <4>1. client.at # "done" /\ client'.at = "done"
        BY <1>0, <2>4 DEF Clients
      <4>2. ~Fails(j)
        <5>1. Fails(j) => Free(client')
          BY <1>0, <2>4, AfterErrorFree DEF Fails
        <5> QED
          BY <4>1, <5>1 DEF Free
      <4> QED
        BY <1>5, <2>4, <4>2
           DEF Broadcast, NextSource, CreateTx, SendTx, Sent
    <3>2. /\ job[j].on /\ job[j].legs = << >> /\ job[j].queue = {}
          /\ job' = [job EXCEPT ![j].on = FALSE] /\ UNCHANGED wallets
          /\ client'.job = j
      BY <1>0, <2>4, <3>1 DEF SweepEnds, Between, Clients
    <3>3. job'[j].must = job[j].must
      BY <1>0, <3>2 DEF Job
    <3>4. \A c \in job[j].must : coin[c] = "spent"
      BY <1>0, <3>2 DEF OwedInv, Owing, LegPending, SourcePending
    <3> QED
      BY <3>2, <3>3, <3>4 DEF SuccessMovedAll, wallets
  <2> QED
    BY <2>1, <2>2, <2>3, <2>4 DEF BroadcastTo
<1>6. CASE SourcesSteps
  <2>1. /\ client' = client
        /\ \E C : job' = [j \in Jobs |-> [job[j] EXCEPT !.must = @ \ C]]
    BY <1>0, <1>6, SourcesExcuse
  <2>2. \A j \in Jobs : job'[j].must \subseteq job[j].must
    BY <1>0, <2>1 DEF Job
  <2>3. \A c \in Coins : SpentStays(c)
    BY <1>0, <1>6 DEF SpentStays, SourcesSteps, Drop, Returns, Close,
       Rescan, Progress, Finds, ScanFails, Refresh, Receive, WalletTypes
  <2> QED
    BY <1>1, <1>2, <2>1, <2>2, <2>3
<1>7. CASE UNCHANGED vars
  BY <1>1, <1>2, <1>7, WalletsStay DEF vars, Stays
<1> QED
  BY <1>0, <1>3, <1>4, <1>5, <1>6, <1>7, StepKinds

-----------------------------------------------------------------------------
\* The invariant holds at first.
LEMMA IInvInit ==
  ASSUME Init
  PROVE  IInv
<1>1. TypeOK /\ ForceKept
  BY TypeInit
<1>2. OwedInv
  BY NoJobOK DEF Init, OwedInv
<1>3. SuccessMovedAll
  BY DEF Init, SuccessMovedAll, NewClient
<1> QED
  BY <1>1, <1>2, <1>3 DEF IInv

\* Every step keeps it.
LEMMA IInvStep ==
  ASSUME IInv, [Next]_vars
  PROVE  IInv'
BY TypeStep, OwedStep, MovedStep DEF IInv

\* IInv holds in every state.
THEOREM IInvHolds == Spec => []IInv
<1>1. Init => IInv
  BY IInvInit
<1>2. IInv /\ [Next]_vars => IInv'
  BY IInvStep
<1> QED
  BY <1>1, <1>2, PTL DEF Spec

\* TypeOK: wallets, clients and broadcasts have the values the code can give
\* them, and a client that waits for a broadcast waits for one under way.
THEOREM TypeCorrect == Spec => []TypeOK
<1>1. IInv => TypeOK
  BY DEF IInv
<1> QED
  BY <1>1, IInvHolds, PTL

\* ForceWasShown: however previews, errors, answers and the buttons of the
\* clients follow each other, a broadcast skips sources only if its preview was
\* made with the same choice.
THEOREM ForceWasShownHolds == Spec => []ForceWasShown
<1>1. IInv => ForceWasShown
  BY DEF IInv, ForceKept, ForceWasShown
<1> QED
  BY <1>1, IInvHolds, PTL

\* SuccessMovedAll: for every set of sources, coins and overlapping broadcasts,
\* a sweep that is reported as broadcast has spent every coin it owed.
THEOREM SuccessMovedAllHolds == Spec => []SuccessMovedAll
<1>1. IInv => SuccessMovedAll
  BY DEF IInv
<1> QED
  BY <1>1, IInvHolds, PTL
=============================================================================
