----------------------------- MODULE RescueScan -----------------------------
(***************************************************************************)
(* rescueScan of src/src/rescue-scan.js: the walk along the receive and    *)
(* the change branch, the staking and xNAV passes, and the reap that marks *)
(* spent what the scan did not see.  The chain moves while a scan runs,    *)
(* navcoin-js writes into the same database, lookups fail, and a scan that *)
(* was aborted goes on beside the one that replaces it until its lookups   *)
(* have returned.                                                          *)
(*                                                                         *)
(* A lookup is an item: an address of a branch, the discovery of staking   *)
(* partners, the one staking script, or the transaction of an xNAV coin.   *)
(* Every coin is ours, and an address is as good as its script hash.       *)
(* Deriving the addresses of a batch is one step.                          *)
(***************************************************************************)
EXTENDS Integers, FiniteSets, FiniteSetsExt

CONSTANTS
  Coins,       \* unspent outputs, by outpoint
  Home,        \* the item whose lookup reports each coin
  Last,        \* the highest index a branch is modelled to
  Gap, Batch,  \* gapLimit and walkBatchSize
  Concurrency, \* lookups a pass keeps in flight
  Scans,       \* the scans of the wallet: 1 is the first
  Sources,     \* "phrase", walked, with a view key, or "private-key"
  Imported,    \* the addresses of a private-key source
  Chains,      \* the coins that may be on the chain at first
  Budget       \* how many events of the environment may happen

Branches == {"receive", "change"}
Nav == Branches \X (0..Last)
Keys == <<"keys", 0>>
Stake == <<"stake", 0>>
XTx(c) == <<"tx", c>>
XCoins == {c \in Coins : Home[c] = XTx(c)}
Items == Nav \cup {Keys, Stake} \cup {XTx(c) : c \in XCoins}

ASSUME ConstantsAssumption ==
  /\ Home \in [Coins -> Items \ {Keys}]
  /\ \A c, d \in Coins : Home[c] = XTx(d) => c = d
  /\ Last \in Nat /\ {Gap, Batch, Concurrency} \subseteq Nat \ {0}
  /\ Scans \subseteq Nat \ {0} /\ \A s \in Scans : 1..s \subseteq Scans
  /\ Sources \subseteq {"phrase", "private-key"}
  /\ Imported \subseteq Nav /\ Chains \subseteq SUBSET Coins
  /\ Budget \in Nat

VARIABLES
  chain,     \* "none", "unspent" or "spent": each coin on the chain
  db,        \* the same in the wallet's database
  derived,   \* how many addresses of each branch exist
  partner,   \* the database knows the staking partner
  requested, \* wallet.requestedStakingKeys
  source,
  scan,      \* the scans
  left

env == <<chain, derived, source>>
vars == <<chain, db, derived, partner, requested, source, scan, left>>

Fates == {"none", "unspent", "spent"}
Stages == {"none", "todo", "history", "listing", "hydrating", "asked"}
Ended == {"done", "thrown", "nothing"}
Phases == Branches \cup Ended \cup
  {"new", "existing", "discovering", "stake", "staking", "anchor",
   "anchorUnspent", "txKeys", "claim", "reap", "reading", "reaping"}

Spend == left > 0 /\ left' = left - 1
Lookups(s, stages) == {i \in Items : scan[s].look[i] \in stages}
InFlight(s) == Lookups(s, Stages \ {"none", "todo"})
Quiet(s) == scan[s].at \in Ended \cup {"new"} /\ InFlight(s) = {}
PassDone(s, phases) ==
  scan[s].at \in phases /\ Lookups(s, Stages \ {"none"}) = {}
Unspent(i) == {c \in Coins : Home[c] = i /\ chain[c] = "unspent"}
Known(i) == \E c \in Coins : Home[c] = i /\ chain[c] # "none"
Looking(look, S, stage) ==
  [i \in Items |-> IF i \in S THEN stage ELSE look[i]]

-----------------------------------------------------------------------------
NewScan ==
  [at |-> "new", aborted |-> FALSE, look |-> [i \in Items |-> "none"],
   upTo |-> 0, seen |-> {}, failures |-> FALSE, adding |-> {}, found |-> {},
   entries |-> {}, anchorUnspent |-> {}, stale |-> {},
   \* observed: the coins unspent since the scan began, those spent before
   \* it, what was lost without a trace, of that what had no transaction to
   \* read, whether it ran alone, and whether it knew the staking partner
   \* when it came to the stakes
   live |-> {}, gone |-> {}, lost |-> {}, unread |-> {}, alone |-> FALSE,
   knew |-> FALSE]

Init ==
  /\ \E S \in Chains :
       chain = [c \in Coins |-> IF c \in S THEN "unspent" ELSE "none"]
  /\ db = [c \in Coins |-> "none"]
  /\ derived = [b \in Branches |-> 0]
  /\ partner = FALSE /\ requested = FALSE
  /\ source \in Sources
  /\ scan = [s \in Scans |-> NewScan]
  /\ left = Budget

\* A rescan wipes the coins first; the retry of a scan that was cut off keeps
\* them, and does not wait for what that scan still has in flight.
Wiped(s) == IF s - 1 \in Scans /\ ~scan[s - 1].aborted
            THEN [c \in Coins |-> "none"] ELSE db

\* What a scan knew goes with it.
Over(s) == [NewScan EXCEPT !.at = scan[s].at, !.aborted = scan[s].aborted]

MayStart(s) ==
  /\ scan[s].at = "new"
  /\ s - 1 \in Scans => /\ scan[s - 1].at # "new"
                        /\ scan[s - 1].aborted \/ Quiet(s - 1)

Start(s) ==
  /\ MayStart(s)
  /\ db' = Wiped(s)
  /\ requested' = FALSE
  /\ scan' = [t \in Scans |->
       CASE t = s ->
              [NewScan EXCEPT
                 !.at = IF source = "phrase" THEN "receive" ELSE "existing",
                 !.look = IF source = "phrase" THEN @
                          ELSE Looking(@, Imported, "todo"),
                 !.live = {c \in Coins : chain[c] = "unspent"},
                 !.gone = {c \in Coins : chain[c] = "spent"},
                 !.alone = \A u \in Scans : Quiet(u)]
         [] t = s - 1 /\ Quiet(t) -> Over(t)
         [] OTHER -> scan[t]]
  /\ UNCHANGED <<env, partner, left>>

\* There is no connection, or filling the pool or deriving throws.
StartFails(s) ==
  /\ MayStart(s) \/ PassDone(s, Branches)
  /\ Spend
  /\ scan' = [scan EXCEPT ![s].at = IF @ = "new" THEN "nothing" ELSE "thrown"]
  /\ UNCHANGED <<env, db, partner, requested>>

\* throwIfAborted: what has not been sent is not sent, what has been sent is
\* still answered.
Throw(s) ==
  /\ scan[s].aborted
  /\ scan' = [scan EXCEPT ![s].at = "thrown",
                          ![s].look = Looking(@, Lookups(s, {"todo"}), "none")]

-----------------------------------------------------------------------------
(* The passes.                                                             *)

LastUsed(s, b) == Max({-1} \cup {Home[c][2] :
                         c \in {d \in scan[s].found : Home[d][1] = b}})

\* Mutant: the walk counts the gap from the address after the last one it
\* looked up.
WalkStopsEarly(s, b) == scan[s].upTo > 0
                        /\ scan[s].upTo - LastUsed(s, b) >= Gap

WalkStops(s, b) == scan[s].upTo > 0
                   /\ scan[s].upTo - 1 - LastUsed(s, b) >= Gap

\* What follows the walk: discoverStakingPartners asks for the partners,
\* unless the flag says that has been done.
Discover(s) ==
  [scan[s] EXCEPT !.at = IF requested THEN "stake" ELSE "discovering",
                  !.upTo = 0, !.look[Keys] = IF requested THEN @ ELSE "todo"]

\* A branch has been walked far enough, or scanExistingNavAddrs has looked up
\* what was imported.
WalkEnds(s) ==
  /\ \/ PassDone(s, Branches) /\ WalkStops(s, scan[s].at)
     \/ PassDone(s, {"existing"})
  /\ scan' = [scan EXCEPT ![s] =
       IF @.at = "receive" THEN [@ EXCEPT !.at = "change", !.upTo = 0]
                           ELSE Discover(s)]
  /\ UNCHANGED <<env, db, partner, requested, left>>

\* The next batch of a branch is derived and looked up.
WalkOn(s) ==
  /\ PassDone(s, Branches) /\ ~WalkStops(s, scan[s].at)
  /\ IF scan[s].aborted
     THEN Throw(s) /\ UNCHANGED derived
     ELSE LET b == scan[s].at
              next == scan[s].upTo + Batch IN
          /\ derived' = [derived EXCEPT ![b] = Max({@, next})]
          /\ scan' = [scan EXCEPT
               ![s].upTo = next,
               ![s].look = Looking(@, {i \in Nav : /\ i[1] = b
                                                   /\ i[2] >= next - Batch
                                                   /\ i[2] < next}, "todo")]
  /\ UNCHANGED <<chain, source, db, partner, requested, left>>

\* mapConcurrent: a worker takes the next item, or throws.
Take(s, i) ==
  /\ scan[s].look[i] = "todo"
  /\ Cardinality(InFlight(s)) <
       (IF scan[s].at = "claim" THEN 1 ELSE Concurrency)
  /\ IF scan[s].aborted
     THEN Throw(s)
     ELSE scan' = [scan EXCEPT ![s].look[i] =
            CASE i \in Nav -> "history"
              [] i = Stake -> "listing"
              [] OTHER -> "asked"]
  /\ UNCHANGED <<env, db, partner, requested, left>>

\* An address without a history has no coins.
HistoryAnswers(s, i) ==
  /\ scan[s].look[i] = "history"
  /\ scan' = [scan EXCEPT ![s].look[i] =
               IF Known(i) THEN "listing" ELSE "none"]
  /\ UNCHANGED <<env, db, partner, requested, left>>

\* Every coin the server lists counts as seen, whatever becomes of adding it.
ListAnswers(s, i) ==
  /\ scan[s].look[i] = "listing"
  /\ scan' = [scan EXCEPT
       ![s].look[i] = IF Unspent(i) = {} THEN "none" ELSE "hydrating",
       ![s].seen = @ \cup Unspent(i), ![s].adding = @ \cup Unspent(i)]
  /\ UNCHANGED <<env, db, partner, requested, left>>

LookupFails(s, i) ==
  /\ scan[s].look[i] \in {"history", "listing"}
  /\ Spend
  /\ scan' = [scan EXCEPT ![s].look[i] = "none", ![s].failures = TRUE]
  /\ UNCHANGED <<env, db, partner, requested>>

\* AddOutput of a coin the database has as spent leaves it or revives it:
\* navcoin-js decides.
Added(c) == \/ db' = [db EXCEPT ![c] = "unspent"]
            \/ db[c] = "spent" /\ UNCHANGED db

HydrateEnds(s, c) ==
  LET rest == scan[s].adding \ {c}
      i == Home[c] IN
  [scan[s] EXCEPT
     !.adding = rest,
     !.look[i] = IF \E d \in rest : Home[d] = i THEN @ ELSE "none"]

Hydrate(s, c) ==
  /\ c \in scan[s].adding
  /\ Added(c)
  /\ scan' = [scan EXCEPT
       ![s] = [HydrateEnds(s, c) EXCEPT !.found = @ \cup {c}]]
  /\ UNCHANGED <<env, partner, requested, left>>

\* Mutant: only a coin that was added counts as seen.
HydrateSwallowsUnseen(s, c) ==
  /\ c \in scan[s].adding
  /\ Spend
  /\ scan' = [scan EXCEPT ![s] = [HydrateEnds(s, c) EXCEPT
                                    !.lost = @ \cup {c}, !.seen = @ \ {c}]]
  /\ UNCHANGED <<env, db, partner, requested>>

\* GetTx or AddOutput throws, or there is no transaction to read.
HydrateSwallows(s, c) ==
  /\ c \in scan[s].adding
  /\ Spend
  /\ scan' = [scan EXCEPT
       ![s] = [HydrateEnds(s, c) EXCEPT !.lost = @ \cup {c}]]
  /\ UNCHANGED <<env, db, partner, requested>>

\* The partner of a coin we stake is learnt; a failure is not counted.
KeysAnswer(s) ==
  /\ scan[s].look[Keys] = "asked"
  /\ \/ /\ partner' = (partner \/ Known(Stake))
        /\ scan' = [scan EXCEPT ![s].look[Keys] = "none"]
        /\ UNCHANGED left
     \/ /\ Spend
        /\ scan' = [scan EXCEPT ![s].look[Keys] = "none",
                                ![s].lost = @ \cup {c \in Coins :
                                                      Home[c] = Stake}]
        /\ UNCHANGED partner
  /\ UNCHANGED <<env, db, requested>>

\* scanStaking looks up the scripts of the partners it knows.
StakeBegins(s) ==
  /\ PassDone(s, {"discovering", "stake"})
  /\ requested' = TRUE
  /\ IF partner /\ scan[s].aborted
     THEN Throw(s)
     ELSE scan' = [scan EXCEPT ![s].at = "staking", ![s].knew = partner,
                               ![s].look[Stake] = IF partner THEN "todo"
                                                             ELSE @]
  /\ UNCHANGED <<env, db, partner, left>>

\* Without a view key there is no xNAV to look for.
StakeEnds(s) ==
  /\ PassDone(s, {"staking"})
  /\ scan' = [scan EXCEPT ![s].at = IF source = "phrase" THEN "anchor"
                                                         ELSE "reap"]
  /\ UNCHANGED <<env, db, partner, requested, left>>

-----------------------------------------------------------------------------
(* xNAV: every output of the network has the anchor's script.              *)

AnchorAnswers(s) ==
  /\ scan[s].at = "anchor"
  /\ LET entries == {c \in XCoins : chain[c] # "none"} IN
     scan' = [scan EXCEPT ![s].entries = entries,
                          ![s].at = IF entries = {} THEN "reap"
                                                    ELSE "anchorUnspent"]
  /\ UNCHANGED <<env, db, partner, requested, left>>

AnchorFails(s) ==
  /\ scan[s].at = "anchor"
  /\ Spend
  /\ scan' = [scan EXCEPT ![s].at = "reap", ![s].failures = TRUE]
  /\ UNCHANGED <<env, db, partner, requested>>

\* What to claim if it turns out to be ours: without an answer, everything.
FilterEntries(s, unspent) ==
  [scan[s] EXCEPT
     !.anchorUnspent = unspent, !.at = "txKeys",
     !.look = Looking(@, {XTx(c) : c \in scan[s].entries}, "todo")]

AnchorUnspentAnswers(s) ==
  /\ scan[s].at = "anchorUnspent"
  /\ scan' = [scan EXCEPT ![s] = FilterEntries(s, {c \in XCoins :
                                                     chain[c] = "unspent"})]
  /\ UNCHANGED <<env, db, partner, requested, left>>

\* Mutant: that failure is not counted.
AnchorUnspentFailsUncounted(s) ==
  /\ scan[s].at = "anchorUnspent"
  /\ Spend
  /\ scan' = [scan EXCEPT ![s] = FilterEntries(s, XCoins)]
  /\ UNCHANGED <<env, db, partner, requested>>

AnchorUnspentFails(s) ==
  /\ scan[s].at = "anchorUnspent"
  /\ Spend
  /\ scan' = [scan EXCEPT
       ![s] = [FilterEntries(s, XCoins) EXCEPT !.failures = TRUE]]
  /\ UNCHANGED <<env, db, partner, requested>>

\* loadTxKeys answers or fails: ours, or perhaps ours; both are claimed.
TxKeysAnswer(s, c) ==
  /\ scan[s].at \in {"txKeys", "thrown"}
  /\ scan[s].look[XTx(c)] = "asked"
  /\ scan' = [scan EXCEPT ![s].look[XTx(c)] = "none"]
  /\ UNCHANGED <<env, db, partner, requested, left>>

TxKeysDone(s) ==
  /\ PassDone(s, {"txKeys"})
  /\ scan' = [scan EXCEPT
       ![s].at = "claim",
       ![s].look = Looking(@, {XTx(c) : c \in scan[s].entries}, "todo")]
  /\ UNCHANGED <<env, db, partner, requested, left>>

\* The transaction is there; its output, if it is unspent, counts as seen.
Claim(s, c) ==
  /\ scan[s].at = "claim" /\ scan[s].look[XTx(c)] = "asked"
  /\ LET here == {c} \cap scan[s].anchorUnspent IN
     /\ scan' = [scan EXCEPT ![s].look[XTx(c)] = "none",
                             ![s].seen = @ \cup here]
     /\ IF here = {} THEN UNCHANGED db ELSE Added(c)
  /\ UNCHANGED <<env, partner, requested, left>>

\* GetTx throws, which is counted; or it has nothing to read, or AddOutput
\* throws after the coin was seen, which are not.
ClaimFails(s, c) ==
  /\ scan[s].at = "claim" /\ scan[s].look[XTx(c)] = "asked"
  /\ \/ /\ Spend
        /\ scan' = [scan EXCEPT ![s].look[XTx(c)] = "none",
                                ![s].failures = TRUE]
     \/ /\ Spend
        /\ scan' = [scan EXCEPT ![s].look[XTx(c)] = "none",
                                ![s].unread = @ \cup {c},
                                ![s].lost = @ \cup {c}]
     \/ /\ Spend
        /\ scan' = [scan EXCEPT ![s].look[XTx(c)] = "none",
                                ![s].seen = @ \cup
                                  ({c} \cap scan[s].anchorUnspent),
                                ![s].lost = @ \cup {c}]
  /\ UNCHANGED <<env, db, partner, requested>>

-----------------------------------------------------------------------------
(* reapStaleUtxos, and the end.                                            *)

\* After a failed lookup nothing is reaped, and the scan has still succeeded.
ReapBegins(s) ==
  /\ PassDone(s, {"claim", "reap"})
  /\ IF scan[s].aborted
     THEN Throw(s)
     ELSE scan' = [scan EXCEPT ![s].at = IF scan[s].failures THEN "done"
                                                             ELSE "reading"]
  /\ UNCHANGED <<env, db, partner, requested, left>>

ReapReads(s) ==
  /\ scan[s].at = "reading"
  /\ scan' = [scan EXCEPT
       ![s].at = "reaping",
       ![s].stale = {c \in Coins : db[c] = "unspent"} \ scan[s].seen]
  /\ UNCHANGED <<env, db, partner, requested, left>>

Reap(s, c) ==
  /\ scan[s].at = "reaping" /\ c \in scan[s].stale
  /\ db' = [db EXCEPT ![c] = IF @ = "none" THEN @ ELSE "spent"]
  /\ scan' = [scan EXCEPT ![s].stale = @ \ {c}]
  /\ UNCHANGED <<env, partner, requested, left>>

\* The database cannot be read, or one coin of it not be written.
ReapSwallows(s) ==
  /\ Spend
  /\ \/ /\ scan[s].at = "reading"
        /\ scan' = [scan EXCEPT ![s].at = "reaping",
                                ![s].lost = @ \cup {c \in Coins :
                                                      db[c] = "unspent"}]
     \/ /\ scan[s].at = "reaping"
        /\ \E c \in scan[s].stale :
             scan' = [scan EXCEPT ![s].stale = @ \ {c},
                                  ![s].lost = @ \cup {c}]
  /\ UNCHANGED <<env, db, partner, requested>>

Finish(s) ==
  /\ scan[s].at = "reaping" /\ scan[s].stale = {}
  /\ IF scan[s].aborted THEN Throw(s)
                        ELSE scan' = [scan EXCEPT ![s].at = "done"]
  /\ UNCHANGED <<env, db, partner, requested, left>>

-----------------------------------------------------------------------------
(* The chain, navcoin-js, and the connection.                              *)

Appear(c) ==
  /\ chain[c] = "none" /\ Spend
  /\ chain' = [chain EXCEPT ![c] = "unspent"]
  /\ UNCHANGED <<db, derived, partner, requested, source, scan>>

SpendOnChain(c) ==
  /\ chain[c] = "unspent" /\ Spend
  /\ chain' = [chain EXCEPT ![c] = "spent"]
  /\ scan' = [s \in Scans |-> [scan[s] EXCEPT !.live = @ \ {c}]]
  /\ UNCHANGED <<db, derived, partner, requested, source>>

\* navcoin-js follows the addresses there are and records what happens to
\* their coins, while a scan runs as at any other time.
Follows(c) ==
  /\ c \in XCoins => source = "phrase"
  /\ Home[c] = Stake => partner
  /\ Home[c] \in Nav =>
       IF source = "private-key" THEN Home[c] \in Imported
                                 ELSE Home[c][2] < derived[Home[c][1]]

LibraryRecords(c) ==
  /\ \/ chain[c] = "unspent" /\ db[c] = "none" /\ Follows(c)
     \/ chain[c] = "spent" /\ db[c] = "unspent"
  /\ Spend
  /\ db' = [db EXCEPT ![c] = chain[c]]
  /\ UNCHANGED <<env, partner, requested, scan>>

Abort(s) ==
  /\ scan[s].at \notin Ended \cup {"new"} /\ ~scan[s].aborted
  /\ Spend
  /\ scan' = [scan EXCEPT ![s].aborted = TRUE]
  /\ UNCHANGED <<env, db, partner, requested>>

Answer(s) ==
  \/ \E i \in Items : HistoryAnswers(s, i) \/ ListAnswers(s, i)
  \/ \E c \in Coins : Hydrate(s, c)
  \/ \E c \in XCoins : TxKeysAnswer(s, c) \/ Claim(s, c)
  \/ KeysAnswer(s) \/ AnchorAnswers(s) \/ AnchorUnspentAnswers(s)
Proceed(s) ==
  \/ WalkEnds(s) \/ WalkOn(s) \/ StakeBegins(s)
  \/ StakeEnds(s) \/ TxKeysDone(s)
  \/ ReapBegins(s) \/ ReapReads(s) \/ Finish(s)
  \/ \E i \in Items : Take(s, i)
  \/ \E c \in Coins : Reap(s, c)
Fail(s) ==
  \/ StartFails(s) \/ AnchorFails(s) \/ AnchorUnspentFails(s)
  \/ ReapSwallows(s)
  \/ \E i \in Items : LookupFails(s, i)
  \/ \E c \in Coins : HydrateSwallows(s, c)
  \/ \E c \in XCoins : ClaimFails(s, c)

Next ==
  \/ \E s \in Scans : \/ Start(s) \/ Proceed(s) \/ Answer(s) \/ Fail(s)
                      \/ Abort(s)
  \/ \E c \in Coins : Appear(c) \/ SpendOnChain(c) \/ LibraryRecords(c)

Spec == Init /\ [][Next]_vars

-----------------------------------------------------------------------------
\* Types; nothing waits in a scan that has ended, and a coin is being added
\* while its lookup is open.
TypeOK ==
  /\ chain \in [Coins -> Fates] /\ db \in [Coins -> Fates]
  /\ derived \in [Branches -> Nat]
  /\ partner \in BOOLEAN /\ requested \in BOOLEAN /\ source \in Sources
  /\ \A s \in Scans :
       /\ scan[s].at \in Phases
       /\ scan[s].look \in [Items -> Stages]
       /\ {scan[s].aborted, scan[s].failures, scan[s].alone,
           scan[s].knew} \subseteq BOOLEAN
       /\ scan[s].upTo \in Nat
       /\ UNION {scan[s].seen, scan[s].adding, scan[s].found, scan[s].entries,
                 scan[s].anchorUnspent, scan[s].stale, scan[s].live,
                 scan[s].gone, scan[s].lost, scan[s].unread} \subseteq Coins
       /\ scan[s].at \in Ended \cup {"new"} => Lookups(s, {"todo"}) = {}
       /\ \A c \in scan[s].adding : scan[s].look[Home[c]] = "hydrating"
  /\ left \in 0..Budget

\* A scan owes the addresses of a branch up to the first Gap in a row that
\* hold no coin it could add.
Owed(s, a) ==
  \A n \in (Gap - 1)..(a[2] - 1) : \E c \in scan[s].live \ scan[s].lost :
    Home[c][1] = a[1] /\ Home[c][2] \in (n - Gap + 1)..n

\* The coins a scan owes: they were unspent when it began and still are, and
\* are where it has to look.  A staked coin is not owed when the scan did not
\* know its partner, because getKeys failed or another scan was at it; an xNAV
\* coin not when the node had no transaction to read for it.
Covered(s) ==
  {c \in scan[s].live :
     CASE Home[c] \in Nav /\ source = "phrase" -> Owed(s, Home[c])
       [] Home[c] \in Nav /\ source # "phrase" -> Home[c] \in Imported
       [] Home[c] = Stake -> \/ scan[s].knew
                             \/ scan[s].alone /\ c \notin scan[s].lost
       [] OTHER -> source = "phrase" /\ c \notin scan[s].unread}

\* s has just ended with every lookup answered, and ran alone.
Clean(s) == /\ scan[s].at = "done" /\ ~scan[s].failures /\ scan[s].alone
            /\ s + 1 \in Scans => scan[s + 1].at = "new"

\* The coins a step of s marks spent by reaping.
Reaped(s) == {c \in scan[s].stale : scan[s].at = "reaping"
                                    /\ db[c] # "spent" /\ db'[c] = "spent"
                                    /\ c \notin scan'[s].stale}

\* A reap spares every coin its scan owes (Covered says which, and which it
\* does not), also after other lookups failed, coins arrived, or beside another
\* scan and navcoin-js (rescue-scan.js:33-45).
CoveredSpared ==
  [][\A s \in Scans : Reaped(s) \cap Covered(s) = {}]_vars

\* A scan that ends with every lookup answered has every coin it owes in the
\* database, as far as it could be added (rescue-scan.js:115-119).
CleanScanComplete ==
  \A s \in Scans :
    Clean(s) => \A c \in Covered(s) \ scan[s].lost : db[c] # "none"

\* ... and shows no coin as unspent that was spent before it began, unless a
\* write was lost or another scan was still writing (rescue-scan.js:522-524).
StaleGone ==
  \A s \in Scans :
    Clean(s) => \A c \in scan[s].gone \ scan[s].lost : db[c] # "unspent"

\* What the code says (rescue-scan.js:98-101, 522-524) and does not keep: a
\* coin marked spent by a reap has been spent.
ReapTakesOnlySpent ==
  [][\A s \in Scans : \A c \in Reaped(s) : chain[c] = "spent"]_vars
=============================================================================
