------------------------------- MODULE Sweep --------------------------------
(***************************************************************************)
(* Sending every coin away: prepareSweep, executeSweep and broadcastLeg of *)
(* src/src/wallet-manager.js behind the /sweep requests of                 *)
(* src/src/daemon.js, and the three clients that ask for it step by step:  *)
(* `sweep` on the command line, in the terminal UI, and the Sweep view.    *)
(* Sources drop, are rescanned, closed and refreshed meanwhile, coins      *)
(* arrive, broadcasts fail, and a client that goes away leaves its         *)
(* broadcast running beside that of the next one.                          *)
(*                                                                         *)
(* Amounts are counted in coins of one value; fees are left out.  Asking   *)
(* for a preview and answering is one step, and so is the gate of a        *)
(* confirmation; the broadcast behind it is a job of the daemon.           *)
(***************************************************************************)
EXTENDS Integers, FiniteSets, Sequences

CONSTANTS
  Sources, Order,  \* the open sources, and the place of each in walletState
  Coins, Home,     \* the coins, and the source and leg of each
  Late,            \* the coins that arrive later
  Addresses,       \* what a user may type as a destination
  Jobs,            \* identities of broadcasts
  Budget           \* how many events of the environment may happen

Legs == Sources \X {"nav", "xnav"}
None == "none"

ASSUME ConstantsAssumption ==
  /\ Order \in [Sources -> Nat]
  /\ \A s, t \in Sources : Order[s] = Order[t] => s = t
  /\ IsFiniteSet(Coins) /\ Home \in [Coins -> Legs] /\ Late \subseteq Coins
  /\ None \notin Addresses \cup Jobs /\ Budget \in Nat

VARIABLES
  open,    \* the sources in walletState that have a wallet
  status,  \* "synced", "syncing" (which stands for all that is neither) or
           \* "error"
  rescan,  \* the sources a rescan runs on
  shown,   \* state.balance: the confirmed coins of each leg
  known,   \* the coins that are unspent in the wallets' databases
  coin,    \* each coin on the chain
  client,  \* what the user does, has typed and has seen
  job,     \* the broadcasts of the daemon
  left

wallets == <<open, status, rescan, shown, known, coin>>
vars == <<wallets, client, job, left>>

Spend == left > 0 /\ left' = left - 1
In(leg) == {c \in known : Home[c] = leg}

\* `matched` is the destination that was typed twice (observed).
NewClient(kind) ==
  [kind |-> kind, at |-> IF kind = "gui" THEN "entry" ELSE "idle",
   dest |-> None, matched |-> None, asked |-> FALSE, force |-> FALSE,
   preview |-> {}, previewForce |-> FALSE,
   blocked |-> FALSE, error |-> FALSE, job |-> None]

\* The transaction being sent, the legs of the present source with their
\* amounts, the sources after it, and what the sweep owes (observed).
NoJob == [on |-> FALSE, tx |-> {}, legs |-> << >>, queue |-> {},
          must |-> {}]

Init ==
  /\ open = Sources
  /\ status = [s \in Sources |-> "synced"] /\ rescan = {}
  /\ known = Coins \ Late
  /\ coin = [c \in Coins |-> IF c \in Late THEN "absent" ELSE "unspent"]
  /\ shown = [l \in Legs |-> Cardinality(In(l))]
  /\ client = NewClient("cli")
  /\ job = [j \in Jobs |-> NoJob]
  /\ left = Budget

-----------------------------------------------------------------------------
(* /sweep/prepare and the gate of /sweep/confirm.                          *)

\* sweepBlockReason and partitionSweepSources.
Ready == {s \in open : status[s] = "synced"}

\* prepareSweep: the preview, the sources that hold it up, or another error.
Prepared(force) ==
  IF open = {} THEN "error"
  ELSE IF Ready # open /\ ~force THEN "blocked"
  ELSE IF Ready = {} THEN "error" ELSE "ok"

-----------------------------------------------------------------------------
(* The clients up to the confirmation.                                     *)

Set(r) == client' = r /\ UNCHANGED <<wallets, job>>
Go(at) == Set([client EXCEPT !.at = at])
Over == Set(NewClient(client.kind))
Gui == client.kind = "gui"

\* The user turns to a client; what the last one held is gone, but not the
\* request it waits for.
Turn ==
  /\ client.at \in {"idle", "entry", "done"} \/ Spend
  /\ client.at \in {"idle", "entry", "done"} => UNCHANGED left
  /\ \E kind \in {"cli", "tui", "gui"} : client' = NewClient(kind)
  /\ job' = [j \in Jobs |-> IF job[j].on THEN job[j] ELSE NoJob]
  /\ UNCHANGED wallets

\* cli sweep <destination> [--force]; sweep in the terminal UI.
CliStarts ==
  /\ client.kind = "cli" /\ client.at = "idle"
  /\ \E d \in Addresses, f \in BOOLEAN :
       Set([client EXCEPT !.at = "preparing", !.dest = d, !.asked = f])
  /\ UNCHANGED left

TuiStarts ==
  /\ client.kind = "tui" /\ client.at = "idle"
  /\ Go("preparing")
  /\ UNCHANGED left

\* Mutant: the view keeps the force of an earlier preview.
PreviewedStale ==
  [client EXCEPT !.preview = Ready, !.asked = FALSE,
                 !.previewForce = client.asked, !.force = @ \/ client.asked,
                 !.at = CASE client.kind = "cli" -> "reenter"
                          [] client.kind = "tui" -> "dest"
                          [] OTHER -> "review"]

\* The sources of the preview are shown, and those it skips if it is forced.
Previewed ==
  [client EXCEPT !.preview = Ready, !.asked = FALSE,
                 !.previewForce = client.asked, !.force = client.asked,
                 !.at = CASE client.kind = "cli" -> "reenter"
                          [] client.kind = "tui" -> "dest"
                          [] OTHER -> "review"]

\* The terminal UI asks whether to go on without the sources that are not
\* ready, the view shows a button, the command line ends.
NotPrepared(blocked) ==
  CASE client.kind = "tui" /\ blocked /\ ~client.asked -> Go("askForce")
    [] Gui -> Set([client EXCEPT !.at = "verify", !.error = TRUE,
                                 !.asked = FALSE, !.blocked = blocked])
    [] OTHER -> Over

PrepareAnswers ==
  /\ client.at = "preparing"
  /\ IF Prepared(client.asked) = "ok"
     THEN Set(Previewed)
     ELSE NotPrepared(Prepared(client.asked) = "blocked")
  /\ UNCHANGED left

\* No daemon answers: nothing that could be forced.
PrepareUnreachable ==
  client.at = "preparing" /\ Spend /\ NotPrepared(FALSE)

TuiForces ==
  /\ client.at = "askForce"
  /\ Set([client EXCEPT !.at = "preparing", !.asked = TRUE]) \/ Over
  /\ UNCHANGED left

TuiDestination ==
  /\ client.at = "dest"
  /\ \/ \E d \in Addresses : Set([client EXCEPT !.at = "reenter", !.dest = d])
     \/ Over
  /\ UNCHANGED left

\* Both ask for the destination once more, and then for the phrase.
Reenter ==
  /\ client.at = "reenter"
  /\ \E d \in Addresses :
       IF d = client.dest
       THEN Set([client EXCEPT !.at = "phrase", !.matched = d])
       ELSE Over
  /\ UNCHANGED left

\* The Sweep view: entry and verify.
GuiContinues ==
  /\ client.at = "entry"
  /\ \E d \in Addresses :
       Set([client EXCEPT !.at = "verify", !.dest = d, !.error = FALSE])
  /\ UNCHANGED left

\* goToReview, which leaves blockedMessage as it is when the two differ.
GuiVerifies ==
  /\ client.at = "verify"
  /\ \E d \in Addresses :
       Set(IF d = client.dest
           THEN [client EXCEPT !.at = "preparing", !.matched = d,
                               !.error = FALSE, !.blocked = FALSE]
           ELSE [client EXCEPT !.error = TRUE])
  /\ UNCHANGED left

\* The button under the error, whichever error it is.
GuiForces ==
  /\ client.at \in {"entry", "verify", "review"}
  /\ client.error /\ client.blocked
  /\ Set([client EXCEPT !.at = "preparing", !.asked = TRUE,
                        !.error = FALSE, !.blocked = FALSE])
  /\ UNCHANGED left

GuiBack ==
  /\ Gui /\ client.at \in {"verify", "review"}
  /\ Set([client EXCEPT !.error = FALSE,
                        !.at = IF @ = "verify" THEN "entry" ELSE "verify"])
  /\ UNCHANGED left

-----------------------------------------------------------------------------
(* /sweep/confirm: executeSweep and broadcastLeg.                          *)

\* What a client does with an error: the view stays where it was.
AfterError ==
  IF Gui THEN [client EXCEPT !.at = "review", !.error = TRUE, !.job = None]
         ELSE NewClient(client.kind)

\* The coins of these sources that their balances count.
Owed(S) == {c \in known : /\ Home[c][1] \in S
                          /\ shown[Home[c]] = Cardinality(In(Home[c]))}

AtConfirm == client.at = IF Gui THEN "review" ELSE "phrase"

\* The phrase has been typed; the gate is asked again and the sources to
\* spend from are settled.
Confirm ==
  /\ AtConfirm
  /\ IF Prepared(client.force) # "ok"
     THEN client' = AfterError /\ UNCHANGED job
     ELSE \E j \in Jobs :
            /\ ~job[j].on
            /\ client' = [client EXCEPT !.at = "confirming", !.error = FALSE,
                                        !.job = j]
            /\ job' = [job EXCEPT ![j] =
                 [NoJob EXCEPT
                    !.on = TRUE,
                    !.must = Owed(IF client.force THEN Ready ELSE open),
                    !.queue = Ready]]
  /\ UNCHANGED <<wallets, left>>

\* Another phrase, or no daemon to ask.
ConfirmFails ==
  /\ AtConfirm /\ Spend /\ client' = AfterError /\ UNCHANGED <<wallets, job>>

Leg(l) == IF shown[l] > 0 THEN << <<l, shown[l]>> >> ELSE << >>
LegsOf(s) ==
  IF s \in open THEN Leg(<<s, "nav">>) \o Leg(<<s, "xnav">>) ELSE << >>
SourceLegs(j, s) == [job[j] EXCEPT !.queue = @ \ {s}, !.legs = LegsOf(s)]
Between(j) == job[j].on /\ job[j].legs = << >>
Turns(j) == {s \in job[j].queue :
               \A t \in job[j].queue : Order[s] <= Order[t]}


\* The legs of the next source: both amounts are read before either is sent.
\* A source that has closed is passed over.
NextSource(j) ==
  /\ Between(j)
  /\ \E s \in Turns(j) : job' = [job EXCEPT ![j] = SourceLegs(j, s)]
  /\ UNCHANGED <<wallets, client, left>>

Fails(j) ==
  /\ job' = [job EXCEPT ![j] = NoJob]
  /\ client' = IF client.job = j THEN AfterError ELSE client

\* navcoin-js takes coins for the amount, or there are not enough.
CreateTx(j) ==
  /\ job[j].legs # << >> /\ job[j].tx = {}
  /\ LET leg == Head(job[j].legs)[1]
         amount == Head(job[j].legs)[2]
         txs == {tx \in SUBSET In(leg) : Cardinality(tx) = amount} IN
     IF leg[1] \in open /\ txs # {}
     THEN /\ \E tx \in txs : job' = [job EXCEPT ![j].tx = tx]
          /\ UNCHANGED client
     ELSE Fails(j)
  /\ UNCHANGED <<wallets, left>>

Accepted(j) == /\ Head(job[j].legs)[1][1] \in open
               /\ \A c \in job[j].tx : coin[c] = "unspent"
Sent(j) == /\ job' = [job EXCEPT ![j].legs = Tail(@), ![j].tx = {}]
           /\ UNCHANGED client
Spent(C) == /\ coin' = [c \in Coins |-> IF c \in C THEN "spent" ELSE coin[c]]
            /\ known' = known \ C
            /\ UNCHANGED <<open, status, rescan, shown>>

\* Mutant: the error in the answer is not looked at.
SendTxUnchecked(j) ==
  /\ job[j].tx # {}
  /\ \/ Accepted(j) /\ Sent(j) /\ Spent(job[j].tx) /\ UNCHANGED left
     \/ Spend /\ Sent(j) /\ UNCHANGED wallets

\* The network takes it if its coins are still there, and may refuse anyway.
SendTx(j) ==
  /\ job[j].tx # {}
  /\ \/ Accepted(j) /\ Sent(j) /\ Spent(job[j].tx) /\ UNCHANGED left
     \/ ~Accepted(j) /\ Fails(j) /\ UNCHANGED <<wallets, left>>
     \/ Accepted(j) /\ Spend /\ Fails(j) /\ UNCHANGED wallets

\* The result is shown, if somebody still waits for it.
SweepEnds(j) ==
  /\ Between(j) /\ job[j].queue = {}
  /\ IF client.job = j
     THEN /\ client' = [client EXCEPT !.at = "done"]
          /\ job' = [job EXCEPT ![j].on = FALSE]
     ELSE /\ job' = [job EXCEPT ![j] = NoJob]
          /\ UNCHANGED client
  /\ UNCHANGED <<wallets, left>>

-----------------------------------------------------------------------------
(* The sources meanwhile.                                                  *)

Present(s) == {c \in Coins : Home[c][1] = s /\ coin[c] = "unspent"}
Excuse(C) == /\ job' = [j \in Jobs |-> [job[j] EXCEPT !.must = @ \ C]]
             /\ UNCHANGED client

\* A lost connection, and the one after it.
Drop(s) ==
  /\ s \in open /\ status[s] = "synced" /\ Spend
  /\ status' = [status EXCEPT ![s] = "syncing"]
  /\ UNCHANGED <<open, rescan, shown, known, coin, client, job>>

Returns(s) ==
  /\ s \in open \ rescan /\ status[s] = "syncing"
  /\ status' = [status EXCEPT ![s] = "synced"]
  /\ UNCHANGED <<open, rescan, shown, known, coin, client, job, left>>

\* state.error is set for good, whatever later scans make of the source.
ScanFails(s) ==
  /\ s \in open \cap rescan /\ Spend
  /\ rescan' = rescan \ {s} /\ status' = [status EXCEPT ![s] = "error"]
  /\ UNCHANGED <<open, shown, known, coin, client, job>>

\* rescanAllSources: the database and the balance are wiped, while the status
\* stays what it was until the scan reports progress.
Rescan(s) ==
  /\ s \in open \ rescan /\ status[s] # "syncing" /\ Spend
  /\ rescan' = rescan \cup {s}
  /\ shown' = [l \in Legs |-> IF l[1] = s THEN 0 ELSE shown[l]]
  /\ known' = {c \in known : Home[c][1] # s}
  /\ Excuse({c \in Coins : Home[c][1] = s})
  /\ UNCHANGED <<open, status, coin>>

Progress(s) ==
  /\ s \in open \cap rescan /\ status[s] = "synced"
  /\ status' = [status EXCEPT ![s] = "syncing"]
  /\ UNCHANGED <<open, rescan, shown, known, coin, client, job, left>>

\* The scan finds coins again, and ends when it has them all; the balance
\* follows with a refresh.
Finds(s) ==
  /\ s \in open \cap rescan
  /\ \E C \in SUBSET (Present(s) \ known) :
       /\ known' = known \cup C
       /\ Excuse({c \in Coins : \E d \in C : Home[d] = Home[c]})
       /\ \/ C # {} /\ UNCHANGED <<rescan, status>>
          \/ /\ Present(s) \subseteq known \cup C
             /\ rescan' = rescan \ {s}
             /\ status' = [status EXCEPT ![s] =
                              IF @ = "error" THEN @ ELSE "synced"]
  /\ UNCHANGED <<open, shown, coin, left>>

\* refreshAddressesAndBalance.
Refresh(l) ==
  /\ l[1] \in open /\ shown[l] # Cardinality(In(l))
  /\ shown' = [shown EXCEPT ![l] = Cardinality(In(l))]
  /\ UNCHANGED <<open, status, rescan, known, coin, client, job, left>>

Close(s) ==
  /\ s \in open /\ Spend
  /\ open' = open \ {s}
  /\ Excuse({c \in Coins : Home[c][1] = s})
  /\ rescan' = rescan \ {s}
  /\ UNCHANGED <<status, shown, known, coin>>

Receive(c) ==
  /\ coin[c] = "absent" /\ Home[c][1] \in open /\ Spend
  /\ coin' = [coin EXCEPT ![c] = "unspent"]
  /\ known' = known \cup {c}
  /\ Excuse({d \in Coins : Home[d] = Home[c]})
  /\ UNCHANGED <<open, status, rescan, shown>>

Broadcast(j) == NextSource(j) \/ CreateTx(j) \/ SendTx(j) \/ SweepEnds(j)
Prompts ==
  \/ CliStarts \/ TuiStarts \/ TuiForces \/ TuiDestination \/ Reenter
  \/ GuiContinues \/ GuiVerifies \/ GuiForces \/ GuiBack
Requests == PrepareAnswers \/ PrepareUnreachable \/ Confirm \/ ConfirmFails

Next ==
  \/ Turn \/ Prompts \/ Requests
  \/ \E j \in Jobs : Broadcast(j)
  \/ \E s \in Sources : \/ Drop(s) \/ Returns(s) \/ Close(s)
                         \/ Rescan(s) \/ Progress(s) \/ Finds(s)
                         \/ ScanFails(s)
  \/ \E l \in Legs : Refresh(l)
  \/ \E c \in Coins : Receive(c)

Spec == Init /\ [][Next]_vars

\* navcoin-js creates or refuses a transaction, and the node answers.
FairSpec == Spec /\ \A j \in Jobs : WF_vars(Broadcast(j))

-----------------------------------------------------------------------------
Places == {"idle", "preparing", "askForce", "dest", "reenter", "phrase",
           "confirming", "entry", "verify", "review", "done"}

WalletTypes ==
  /\ open \subseteq Sources /\ rescan \subseteq open
  /\ status \in [Sources -> {"synced", "syncing", "error"}]
  /\ shown \in [Legs -> 0..Cardinality(Coins)]
  /\ coin \in [Coins -> {"absent", "unspent", "spent"}]
  /\ known \subseteq {c \in Coins : coin[c] = "unspent"}
Clients ==
  [kind : {"cli", "tui", "gui"}, at : Places,
   dest : Addresses \cup {None}, matched : Addresses \cup {None},
   asked : BOOLEAN, force : BOOLEAN,
   preview : SUBSET Sources, previewForce : BOOLEAN,
   blocked : BOOLEAN, error : BOOLEAN, job : Jobs \cup {None}]
ClientTypes ==
  /\ client \in Clients
  /\ client.job \in Jobs <=> client.at \in {"confirming", "done"}
JobTypes ==
  /\ job \in
       [Jobs -> [on : BOOLEAN, tx : SUBSET Coins, legs : Seq(Legs \X Nat),
                 queue : SUBSET Sources, must : SUBSET Coins]]
  /\ \A j \in Jobs : /\ job[j].tx # {} => job[j].legs # << >>
                     /\ job[j].legs # << >> => job[j].on

\* Types; what is unspent in a database is unspent on the chain, a transaction
\* is only there while its leg is being sent, and a client that waits for a
\* broadcast waits for one that is under way.
TypeOK ==
  /\ WalletTypes /\ ClientTypes /\ JobTypes
  /\ client.at = "confirming" => job[client.job].on
  /\ left \in 0..Budget

\* A sweep that is reported as broadcast has moved every coin that the
\* balances counted when it was confirmed: of every open source, or of the
\* ready ones if it was forced.  Excused are sources closed or rescanned and
\* legs in which a coin arrived or was found again meanwhile
\* (wallet-manager.js:840-853).
SuccessMovedAll ==
  client.at = "done" => \A c \in job[client.job].must : coin[c] = "spent"

\* Sources are only skipped by a sweep whose preview listed what it skips:
\* force is never left over from an earlier preview (daemon.js:339-342,
\* Sweep.svelte:20-22).
ForceWasShown == client.at = "confirming" => client.force = client.previewForce


\* What the view says of itself (Sweep.svelte:7-11) and does not keep: what
\* is reviewed and broadcast has been retyped.
ReviewedWasVerified ==
  client.at \in {"review", "confirming"} => client.matched = client.dest

\* What the code says (wallet-manager.js:742-745, 852-853) and does not keep:
\* a sweep spends from the sources its preview showed.
BroadcastIsPreviewed ==
  client.at = "done" =>
    \A c \in job[client.job].must : Home[c][1] \in client.preview
=============================================================================
