-------------------------- MODULE RescueScanProofs --------------------------
(***************************************************************************)
(* What RescueScan keeps for every set of coins, wherever their lookups    *)
(* are, every gap, batch and concurrency, every number of scans and every  *)
(* budget of events: its types; that a reap spares every coin its scan     *)
(* owes; and that a scan that ran alone and had every lookup answered      *)
(* leaves every coin it owes in the database, and none unspent that was    *)
(* spent before it began.                                                  *)
(*                                                                         *)
(* None of the three is inductive.  A scan is followed through its passes: *)
(* LookInv says which lookups a phase has open, WalkInv, XInv and, of the  *)
(* staked coins, KnewInv and StakeInv which coins have been looked up, or  *)
(* been settled, by then, and LateInv that at the reap those are all that  *)
(* is due.  TimeInv ties what it has seen to the chain.  DbInv and GoneInv *)
(* tie it to the database, and with StakeInv they hold only while nothing  *)
(* else writes there: OrderInv says that a scan which was alone stays so   *)
(* until the next one begins.                                              *)
(*                                                                         *)
(* A step of a scan either answers a lookup of its phase (GoesOn) or takes *)
(* it to the next phase (PhaseMoves).  The step that needs an argument is  *)
(* the end of a branch: BranchDone.                                        *)
(***************************************************************************)
EXTENDS RescueScan, WellFoundedInduction, TLAPS

-----------------------------------------------------------------------------
(* The inductive invariant.                                                *)

\* One scan, field by field.
ScanRec ==
  [at : Phases, aborted : BOOLEAN, look : [Items -> Stages], upTo : Nat,
   seen : SUBSET Coins, failures : BOOLEAN, adding : SUBSET Coins,
   found : SUBSET Coins, entries : SUBSET Coins,
   anchorUnspent : SUBSET Coins, stale : SUBSET Coins, live : SUBSET Coins,
   gone : SUBSET Coins, lost : SUBSET Coins, unread : SUBSET Coins,
   alone : BOOLEAN, knew : BOOLEAN]

Types ==
  /\ chain \in [Coins -> Fates] /\ db \in [Coins -> Fates]
  /\ derived \in [Branches -> Nat]
  /\ partner \in BOOLEAN /\ requested \in BOOLEAN /\ source \in Sources
  /\ scan \in [Scans -> ScanRec]
  /\ left \in 0..Budget

\* The phases in which an item is looked up.
PhasesOf(i) ==
  IF i \in Nav THEN Branches \cup {"existing"}
  ELSE IF i = Keys THEN {"discovering"}
  ELSE IF i = Stake THEN {"staking"} ELSE {"txKeys", "claim"}

\* A phase has its own lookups open, and no other; what a scan that was cut
\* off has sent is still answered, but nothing more is sent.
LookInv(r) ==
  /\ \A i \in Items :
       /\ r.look[i] # "none" => r.at \in PhasesOf(i) \cup {"thrown"}
       /\ r.look[i] = "todo" => r.at # "thrown"
       /\ r.look[i] \in {"history", "listing", "hydrating"} =>
            i \in Nav \cup {Stake}
  /\ \A c \in r.adding : r.look[Home[c]] = "hydrating"

\* The chain only goes forward, so what was spent before the scan is not seen
\* by it, unless the server could not say what is unspent.
TimeInv(r, ch) ==
  /\ \A c \in r.live : ch[c] = "unspent"
  /\ \A c \in r.gone : ch[c] = "spent"
  /\ r.adding \cap r.gone = {}
  /\ ~r.failures => (r.seen \cup r.anchorUnspent) \cap r.gone = {}

\* Owed and Covered, of a record.
OwedOf(r, a) ==
  \A n \in (Gap - 1)..(a[2] - 1) : \E c \in r.live \ r.lost :
    Home[c][1] = a[1] /\ Home[c][2] \in (n - Gap + 1)..n

Due(r, so, c) ==
  IF Home[c] \in Nav
  THEN IF so = "phrase" THEN OwedOf(r, Home[c]) ELSE Home[c] \in Imported
  ELSE IF Home[c] = Stake THEN r.knew \/ (r.alone /\ c \notin r.lost)
  ELSE so = "phrase" /\ c \notin r.unread

\* The server has listed the coin and what became of adding it is known; or
\* that is still to come.
Settled(r, c) == c \in r.seen /\ c \in r.found \cup r.lost
Looked(r, c) ==
  \/ r.look[Home[c]] \in {"todo", "history", "listing"}
  \/ c \in r.seen /\ c \in r.adding \cup r.found \cup r.lost

\* The coin is on the branch; and the phases after the walk.
On(c, b) == Home[c] \in Nav /\ Home[c][1] = b
Walked == {"discovering", "stake", "staking", "anchor", "anchorUnspent",
           "txKeys", "claim", "reap"}

\* Without a failed lookup, what was walked has been looked up, and what is
\* due on a branch that is behind the scan is settled.
WalkInv(r, so) ==
  /\ r.at \in Branches => so = "phrase"
  /\ r.at = "existing" => so # "phrase"
  /\ ~r.failures => \A c \in r.live :
       /\ r.at \in Branches /\ On(c, r.at) /\ Home[c][2] < r.upTo =>
            Looked(r, c)
       /\ r.at = "existing" /\ Home[c] \in Imported => Looked(r, c)
       /\ r.at = "change" /\ On(c, "receive") /\ Due(r, so, c) => Settled(r, c)
       /\ r.at \in Walked /\ Home[c] \in Nav /\ Due(r, so, c) => Settled(r, c)

\* Without a failed lookup, an xNAV coin that was unspent all along is among
\* what the anchor showed, then among what it showed unspent, then seen.
XInv(r, so) ==
  /\ r.at \in {"anchor", "anchorUnspent", "txKeys", "claim"} => so = "phrase"
  /\ so = "phrase" /\ ~r.failures => \A c \in r.live \cap XCoins :
       /\ r.at \in {"anchorUnspent", "txKeys"} => c \in r.entries
       /\ r.at \in {"txKeys", "claim"} => c \in r.anchorUnspent
       /\ r.at = "claim" => \/ r.look[XTx(c)] \in {"todo", "asked"}
                            \/ c \in r.seen \cup r.unread
       /\ r.at = "reap" => c \in r.seen \cup r.unread

\* The phases after the staking pass.
Beyond == {"anchor", "anchorUnspent", "txKeys", "claim", "reap"}

\* Without a failed lookup, a scan that knew the partner looks for the staked
\* coins and has then settled them, whatever runs beside it.
KnewInv(r) ==
  ~r.failures /\ r.knew => \A c \in r.live : Home[c] = Stake =>
    /\ r.at = "staking" => Looked(r, c)
    /\ r.at \in Beyond => Settled(r, c)

\* A reap follows only a scan without a failed lookup, which has seen all that
\* is due, and it takes nothing the scan has seen.
LateInv(r, so) ==
  /\ r.at \in {"reading", "reaping"} => ~r.failures
  /\ r.at \in {"reading", "reaping", "done"} /\ ~r.failures =>
       \A c \in r.live : Due(r, so, c) =>
         c \in r.seen /\ c \in r.found \cup r.lost \cup XCoins
  /\ r.at = "reaping" => r.stale \cap r.seen = {}
  /\ r.at \notin {"reaping", "thrown"} => r.stale = {}

ScanInv(r, ch, so) ==
  /\ LookInv(r) /\ TimeInv(r, ch)
  /\ WalkInv(r, so) /\ XInv(r, so) /\ KnewInv(r) /\ LateInv(r, so)

\* Alone, a scan knows the partners of all its staked coins when it looks for
\* them: no other scan has asked in its stead.
StakeInv(r, p, q) ==
  /\ r.at \in Branches \cup {"existing"} => ~q
  /\ r.at # "stake"
  /\ r.at = "discovering" /\ r.look[Keys] = "none" =>
       p \/ \A c \in r.live : Home[c] = Stake => c \in r.lost
  /\ ~r.failures => \A c \in r.live \ r.lost : Home[c] = Stake =>
       /\ r.at = "staking" => Looked(r, c)
       /\ r.at \in Beyond => Settled(r, c)

\* Alone, what a scan has added stays in the database.
DbInv(r, d) ==
  /\ \A c \in r.found : d[c] # "none"
  /\ \A c \in (XCoins \cap r.seen) \ r.lost : d[c] # "none"

\* Alone, what a scan should mark spent is what it has still to mark, or has
\* failed to.
GoneInv(r, d) ==
  ~r.failures => \A c \in r.gone : d[c] = "unspent" =>
    /\ r.at = "reaping" => c \in r.stale \cup r.lost
    /\ r.at = "done" => c \in r.lost

LoneInv(r, d, p, q) == StakeInv(r, p, q) /\ DbInv(r, d) /\ GoneInv(r, d)

\* s began when no other scan had anything on the way, and none has begun
\* since.
Lone(s) == scan[s].alone /\ (s + 1 \in Scans => scan[s + 1].at = "new")

\* Scans begin one after the other; one that is still under way when the next
\* begins was aborted.
OrderInv ==
  /\ \A t, u \in Scans : t < u /\ scan[u].at # "new" => scan[t].at # "new"
  /\ \A s \in Scans :
       /\ s + 1 \in Scans /\ scan[s + 1].at # "new" =>
            scan[s].aborted \/ Quiet(s)
       /\ scan[s].alone => scan[s].at # "new"
       /\ Lone(s) => \A u \in Scans : u # s => Quiet(u)
       /\ scan[s].at = "done" => ~scan[s].aborted

ScansInv ==
  \A s \in Scans :
    /\ ScanInv(scan[s], chain, source)
    /\ Lone(s) => LoneInv(scan[s], db, partner, requested)

IInv == Types /\ OrderInv /\ ScansInv

-----------------------------------------------------------------------------
(* Greatest numbers.                                                       *)

\* A set of naturals has a least element.
LEMMA Least ==
  ASSUME NEW T, T \subseteq Nat, T # {}
  PROVE  \E t \in T : \A u \in T : t <= u
<1> DEFINE R == OpToRel(<, Nat)
<1>1. PICK t \in T : \A u \in T : ~(<<u, t>> \in R)
  <2> HIDE DEF R
  <2>1. IsWellFoundedOn(R, Nat)
    BY NatLessThanWellFounded, Zenon DEF R
  <2> QED
    BY <2>1, WFMin, Zenon
<1>2. R = {p \in Nat \X Nat : p[1] < p[2]}
  BY Zenon DEF OpToRel
<1>3. \A u \in T : ~(u < t)
  <2> HIDE DEF R
  <2> QED
    BY <1>1, <1>2
<1> QED
  BY <1>3

\* So Max is a greatest element of a set with an upper bound.
LEMMA Greatest ==
  ASSUME NEW n \in Nat, NEW S, S \subseteq (-1)..n, S # {}
  PROVE  Max(S) \in S /\ \A x \in S : x <= Max(S)
<1> DEFINE T == {m \in Nat : n - m \in S}
<1>1. T \subseteq Nat /\ T # {}
  <2>1. PICK x \in S : TRUE
    OBVIOUS
  <2>2. n - x \in Nat /\ n - (n - x) = x
    BY <2>1
  <2> QED
    BY <2>1, <2>2
<1>2. PICK t \in T : \A u \in T : t <= u
  <2> HIDE DEF T
  <2> QED
    BY <1>1, Least
<1>3. ASSUME NEW y \in S
      PROVE  n - t >= y
  <2>1. n - y \in T /\ t \in Nat /\ y \in Int
    BY <1>1
  <2>2. t <= n - y
    BY <1>2, <2>1
  <2> QED
    BY <2>1, <2>2
<1>4. \E z \in S : \A y \in S : z >= y
  BY <1>3
<1>5. Max(S) \in S /\ \A y \in S : Max(S) >= y
  BY <1>4 DEF Max
<1> QED
  BY <1>5

\* The greater of two naturals is a natural.
LEMMA MaxOfTwo ==
  ASSUME NEW a \in Nat, NEW b \in Nat
  PROVE  Max({a, b}) \in Nat
<1>1. \E z \in {a, b} : \A y \in {a, b} : z >= y
  <2>1. CASE a >= b
    BY <2>1
  <2>2. CASE b >= a
    BY <2>2
  <2> QED
    BY <2>1, <2>2
<1> QED
  BY <1>1 DEF Max

-----------------------------------------------------------------------------
(* Items.                                                                  *)

\* The four kinds of items are distinct.
LEMMA ItemKinds ==
  /\ Keys \in Items /\ Keys \notin Nav /\ Stake \in Items /\ Stake \notin Nav
  /\ Stake # Keys
  /\ \A c \in Coins : XTx(c) \notin Nav /\ XTx(c) # Stake /\ XTx(c) # Keys
  /\ \A c \in XCoins : c \in Coins /\ XTx(c) \in Items /\ Home[c] = XTx(c)
  /\ \A i \in Nav : i \in Items /\ i[1] \in Branches /\ i[2] \in 0..Last
BY DEF Items, Nav, Branches, Keys, Stake, XTx, XCoins

\* Every coin is reported by an address, the staking script or the transaction
\* of its own.
LEMMA HomeKinds ==
  ASSUME NEW c \in Coins
  PROVE  /\ Home[c] \in Items
         /\ Home[c] \in Nav \/ Home[c] = Stake \/ c \in XCoins
         /\ Home[c] # Keys
         /\ Home[c][1] \in Branches => Home[c] \in Nav
         /\ \A d \in Coins : Home[c] = XTx(d) => c = d
<1>1. Home[c] \in Items /\ Home[c] # Keys
  BY ConstantsAssumption
<1>2. \A d \in Coins : Home[c] = XTx(d) => c = d
  BY ConstantsAssumption
<1>3. Home[c] \in Nav \/ Home[c] = Stake \/ \E d \in XCoins : Home[c] = XTx(d)
  BY <1>1 DEF Items
<1>4. Home[c] \in Nav \/ Home[c] = Stake \/ c \in XCoins
  BY <1>2, <1>3 DEF XCoins
<1>5. Home[c][1] \in Branches => Home[c] \in Nav
  BY <1>3 DEF Branches, Stake, XTx
<1> QED
  BY <1>1, <1>2, <1>4, <1>5

-----------------------------------------------------------------------------
(* What a scan owes only shrinks.                                          *)

\* Less is owed when coins are spent or lost.
LEMMA OwedShrinks ==
  ASSUME NEW r, NEW q, q.live \subseteq r.live, r.lost \subseteq q.lost,
         NEW a, OwedOf(q, a)
  PROVE  OwedOf(r, a)
BY DEF OwedOf

\* ... and less is due.
LEMMA DueShrinks ==
  ASSUME NEW r, NEW q, q.live \subseteq r.live, r.lost \subseteq q.lost,
         r.unread \subseteq q.unread, q.alone = r.alone,
         NEW so, NEW c, Due(q, so, c), q.knew = r.knew \/ Home[c] \in Nav
  PROVE  Due(r, so, c)
BY OwedShrinks DEF Due

-----------------------------------------------------------------------------
(* Lookups go on.                                                          *)

\* The phases after the last lookup.
Late == {"reading", "reaping", "done"}

\* The phase stays, and what is known grows.
SamePhase(r, q) ==
  /\ q.at = r.at /\ q.upTo = r.upTo /\ q.alone = r.alone
  /\ q.entries = r.entries /\ q.anchorUnspent = r.anchorUnspent
  /\ q.stale = r.stale /\ q.gone = r.gone
  /\ q.live \subseteq r.live /\ r.lost \subseteq q.lost
  /\ r.unread \subseteq q.unread /\ q.knew = r.knew
  /\ r.seen \subseteq q.seen /\ r.found \subseteq q.found
  /\ r.failures => q.failures
  /\ r.at \in Late => q.seen = r.seen /\ q.failures = r.failures

\* What had been looked up still has, and what was to be looked up still is,
\* or has been.
Claimed(r, c) ==
  r.look[XTx(c)] \in {"todo", "asked"} \/ c \in r.seen \cup r.unread
Advances(r, q) ==
  ~q.failures => \A c \in q.live :
    /\ Home[c] \in Nav \cup {Stake} /\ Looked(r, c) => Looked(q, c)
    /\ c \in XCoins /\ r.at = "claim" /\ Claimed(r, c) => Claimed(q, c)

GoesOn(r, q) == SamePhase(r, q) /\ LookInv(q) /\ Advances(r, q)

\* The walk's part of the invariant, when a lookup goes on.
LEMMA WalkGoesOn ==
  ASSUME NEW r \in ScanRec, NEW q \in ScanRec, GoesOn(r, q),
         NEW so, WalkInv(r, so)
  PROVE  WalkInv(q, so)
<1>1. /\ q.at = r.at /\ q.upTo = r.upTo /\ q.live \subseteq r.live
      /\ q.at \in Branches => so = "phrase"
      /\ q.at = "existing" => so # "phrase"
  BY DEF GoesOn, SamePhase, WalkInv
<1>2. ASSUME ~q.failures, NEW c \in q.live
      PROVE  /\ q.at \in Branches /\ On(c, q.at) /\ Home[c][2] < q.upTo =>
                  Looked(q, c)
             /\ q.at = "existing" /\ Home[c] \in Imported => Looked(q, c)
             /\ q.at = "change" /\ On(c, "receive") /\ Due(q, so, c) =>
                  Settled(q, c)
             /\ q.at \in Walked /\ Home[c] \in Nav /\ Due(q, so, c) =>
                  Settled(q, c)
  <2>1. ~r.failures /\ c \in r.live /\ (Due(q, so, c) => Due(r, so, c))
    BY <1>2, DueShrinks DEF GoesOn, SamePhase
  <2>2. Settled(r, c) => Settled(q, c)
    BY DEF GoesOn, SamePhase, Settled
  <2>3. Home[c] \in Nav /\ Looked(r, c) => Looked(q, c)
    BY <1>2 DEF GoesOn, Advances
  <2>4. Home[c] \in Imported => Home[c] \in Nav
    BY ConstantsAssumption
  <2> QED
    BY <1>1, <2>1, <2>2, <2>3, <2>4 DEF WalkInv, On
<1> QED
  BY <1>1, <1>2 DEF WalkInv

\* The xNAV part.
LEMMA XGoesOn ==
  ASSUME NEW r \in ScanRec, NEW q \in ScanRec, GoesOn(r, q),
         NEW so, XInv(r, so)
  PROVE  XInv(q, so)
<1>1. ASSUME ~q.failures, NEW c \in q.live, c \in XCoins
      PROVE  /\ c \in r.live /\ ~r.failures
             /\ q.at = "claim" /\ Claimed(r, c) => Claimed(q, c)
  BY <1>1 DEF GoesOn, SamePhase, Advances
<1> QED
  BY <1>1 DEF GoesOn, SamePhase, XInv, Claimed

\* The staked coins of a scan that knew the partner.
LEMMA KnewGoesOn ==
  ASSUME NEW r \in ScanRec, NEW q \in ScanRec, GoesOn(r, q), KnewInv(r)
  PROVE  KnewInv(q)
<1>1. ASSUME ~q.failures, q.knew, NEW c \in q.live, Home[c] = Stake
      PROVE  /\ q.at = "staking" => Looked(q, c)
             /\ q.at \in Beyond => Settled(q, c)
  <2>1. ~r.failures /\ r.knew /\ c \in r.live /\ q.at = r.at
    BY <1>1 DEF GoesOn, SamePhase
  <2>2. Settled(r, c) => Settled(q, c)
    BY DEF GoesOn, SamePhase, Settled
  <2>3. Looked(r, c) => Looked(q, c)
    BY <1>1 DEF GoesOn, Advances
  <2> QED
    BY <1>1, <2>1, <2>2, <2>3 DEF KnewInv
<1> QED
  BY <1>1 DEF KnewInv

\* The part about the reap.
LEMMA LateGoesOn ==
  ASSUME NEW r \in ScanRec, NEW q \in ScanRec, GoesOn(r, q),
         NEW so, LateInv(r, so)
  PROVE  LateInv(q, so)
BY DueShrinks DEF GoesOn, SamePhase, LateInv, Late

\* The coins of a scan that are unspent, and those that were spent.
LEMMA TimeGoesOn ==
  ASSUME NEW r \in ScanRec, NEW q \in ScanRec, GoesOn(r, q),
         NEW ch, TimeInv(r, ch),
         q.adding \cap q.gone = {}, ~q.failures => q.seen \cap q.gone = {}
  PROVE  TimeInv(q, ch)
BY DEF GoesOn, SamePhase, TimeInv

\* What holds of a scan whatever runs beside it, when a lookup goes on.
LEMMA ScanGoesOn ==
  ASSUME NEW r \in ScanRec, NEW q \in ScanRec, GoesOn(r, q),
         NEW ch, NEW so, ScanInv(r, ch, so),
         q.adding \cap q.gone = {}, ~q.failures => q.seen \cap q.gone = {}
  PROVE  ScanInv(q, ch, so)
<1>1. LookInv(q)
  BY DEF GoesOn
<1> QED
  BY <1>1, WalkGoesOn, XGoesOn, KnewGoesOn, LateGoesOn, TimeGoesOn DEF ScanInv

\* What holds of a scan that is alone: its staked coins.
LEMMA StakeGoesOn ==
  ASSUME NEW r \in ScanRec, NEW q \in ScanRec, GoesOn(r, q),
         NEW p \in BOOLEAN, NEW p2 \in BOOLEAN, NEW t, StakeInv(r, p, t),
         p => p2,
         r.at = "discovering" /\ q.look[Keys] = "none" =>
           \/ r.look[Keys] = "none" \/ p2
           \/ \A c \in q.live : Home[c] = Stake => c \in q.lost
  PROVE  StakeInv(q, p2, t)
<1>1. /\ q.at \in Branches \cup {"existing"} => ~t
      /\ q.at # "stake"
      /\ q.at = "discovering" /\ q.look[Keys] = "none" =>
           p2 \/ \A c \in q.live : Home[c] = Stake => c \in q.lost
  BY DEF GoesOn, SamePhase, StakeInv
<1>2. ASSUME ~q.failures, NEW c \in q.live \ q.lost, Home[c] = Stake
      PROVE  /\ q.at = "staking" => Looked(q, c)
             /\ q.at \in Beyond => Settled(q, c)
  <2>1. ~r.failures /\ c \in r.live \ r.lost /\ q.at = r.at
    BY <1>2 DEF GoesOn, SamePhase
  <2>2. Settled(r, c) => Settled(q, c)
    BY DEF GoesOn, SamePhase, Settled
  <2>3. Looked(r, c) => Looked(q, c)
    BY <1>2 DEF GoesOn, Advances
  <2> QED
    BY <1>2, <2>1, <2>2, <2>3 DEF StakeInv
<1> QED
  BY <1>1, <1>2 DEF StakeInv

\* ... and what was spent before it.
LEMMA GoneGoesOn ==
  ASSUME NEW r \in ScanRec, NEW q \in ScanRec, GoesOn(r, q),
         NEW d, NEW e, GoneInv(r, d),
         ~q.failures =>
           \A c \in r.gone : e[c] = "unspent" => d[c] = "unspent"
  PROVE  GoneInv(q, e)
BY DEF GoesOn, SamePhase, GoneInv

-----------------------------------------------------------------------------
(* The steps of a scan.                                                    *)

\* What holds of a scan.
Sound(s) ==
  /\ ScanInv(scan[s], chain, source)
  /\ Lone(s) => LoneInv(scan[s], db, partner, requested)

\* A step of s, which is under way, that leaves the other scans, the chain and
\* the source alone.
Moved(s) ==
  /\ scan' \in [Scans -> ScanRec] /\ UNCHANGED <<chain, source>>
  /\ \A t \in Scans : t # s => scan'[t] = scan[t]
  /\ scan[s].at # "new" /\ scan'[s].at # "new" /\ ~Quiet(s)
  /\ scan'[s].alone = scan[s].alone
  /\ scan[s].aborted => scan'[s].aborted
  /\ scan'[s].at = "done" => ~scan'[s].aborted
  /\ ScanInv(scan'[s], chain, source)
  /\ Lone(s) => LoneInv(scan'[s], db', partner', requested')

\* A scan with a lookup on the way is under way.
LEMMA Busy ==
  ASSUME Types, NEW s \in Scans, LookInv(scan[s]), NEW i \in Items,
         scan[s].look[i] \notin {"none", "todo"}
  PROVE  /\ scan[s].at # "new" /\ ~Quiet(s) /\ scan[s].at \notin Late
         /\ scan[s].at \in PhasesOf(i) \cup {"thrown"}
<1>1. scan[s] \in ScanRec /\ scan[s].look \in [Items -> Stages]
  BY DEF Types, ScanRec
<1>2. i \in InFlight(s)
  BY <1>1 DEF InFlight, Lookups
<1>3. scan[s].at \in PhasesOf(i) \cup {"thrown"}
  BY DEF LookInv
<1> QED
  BY <1>2, <1>3 DEF Quiet, PhasesOf, Branches, Late

\* So a step that answers a lookup is a step of the scan.
LEMMA MovesOn ==
  ASSUME Types, NEW s \in Scans, Sound(s),
         NEW q \in ScanRec, scan' = [scan EXCEPT ![s] = q],
         GoesOn(scan[s], q), UNCHANGED <<chain, source, requested>>,
         scan[s].at \notin Ended \cup {"new"} \/ ~Quiet(s),
         scan[s].at # "new", scan[s].at # "done",
         scan[s].aborted => q.aborted,
         q.adding \cap q.gone = {}, ~q.failures => q.seen \cap q.gone = {},
         partner \in BOOLEAN, partner' \in BOOLEAN, partner => partner',
         scan[s].at = "discovering" /\ q.look[Keys] = "none" =>
           \/ scan[s].look[Keys] = "none" \/ partner'
           \/ \A c \in q.live : Home[c] = Stake => c \in q.lost,
         DbInv(scan[s], db) => DbInv(q, db'),
         ~q.failures => \A c \in scan[s].gone :
           db'[c] = "unspent" => db[c] = "unspent"
  PROVE  Moved(s)
<1>1. /\ scan[s] \in ScanRec /\ scan'[s] = q
      /\ scan' \in [Scans -> ScanRec]
      /\ \A t \in Scans : t # s => scan'[t] = scan[t]
  BY DEF Types
<1>2. q.at = scan[s].at /\ q.alone = scan[s].alone
  BY DEF GoesOn, SamePhase
<1>3. ~Quiet(s)
  BY DEF Quiet
<1>4. ScanInv(q, chain, source)
  BY <1>1, ScanGoesOn DEF Sound
<1>5. Lone(s) => LoneInv(q, db', partner', requested')
  <2> HAVE Lone(s)
  <2>1. /\ StakeInv(scan[s], partner, requested) /\ DbInv(scan[s], db)
        /\ GoneInv(scan[s], db)
    BY DEF Sound, LoneInv
  <2>2. StakeInv(q, partner', requested)
    BY <1>1, <2>1, StakeGoesOn
  <2>3. GoneInv(q, db')
    BY <1>1, <2>1, GoneGoesOn
  <2> QED
    BY <2>1, <2>2, <2>3 DEF LoneInv
<1> QED
  BY <1>1, <1>2, <1>3, <1>4, <1>5 DEF Moved

\* A scan that throws is over, and sends nothing more.
LEMMA ThrowMoves ==
  ASSUME Types, NEW s \in Scans, Sound(s), Throw(s),
         scan[s].at # "new", ~Quiet(s),
         UNCHANGED <<chain, source, db, partner>>
  PROVE  Moved(s)
<1> DEFINE r == scan[s]
           q == [r EXCEPT !.at = "thrown",
                          !.look = Looking(@, Lookups(s, {"todo"}), "none")]
<1>1. r \in ScanRec /\ scan' = [scan EXCEPT ![s] = q]
  BY DEF Types, Throw
<1>2. /\ q.look \in [Items -> Stages]
      /\ \A i \in Items : q.look[i] =
           IF r.look[i] = "todo" THEN "none" ELSE r.look[i]
  BY <1>1 DEF ScanRec, Looking, Lookups, Stages
<1>3. /\ q \in ScanRec /\ q.at = "thrown" /\ q.alone = r.alone
      /\ q.aborted = r.aborted /\ q.live = r.live /\ q.gone = r.gone
      /\ q.adding = r.adding /\ q.seen = r.seen /\ q.found = r.found
      /\ q.lost = r.lost /\ q.failures = r.failures
      /\ q.anchorUnspent = r.anchorUnspent
  BY <1>1, <1>2 DEF ScanRec, Phases, Ended
<1> HIDE DEF q
<1>4. LookInv(q)
  <2>1. LookInv(r)
    BY DEF Sound, ScanInv
  <2> QED
    BY <1>1, <1>2, <1>3, <2>1, HomeKinds DEF LookInv, ScanRec
<1>5. TimeInv(q, chain)
  BY <1>3 DEF Sound, ScanInv, TimeInv
<1>6. /\ WalkInv(q, source) /\ XInv(q, source) /\ KnewInv(q)
      /\ LateInv(q, source)
  BY <1>3 DEF WalkInv, XInv, KnewInv, LateInv, Branches, Walked, Beyond
<1>7. Lone(s) => LoneInv(q, db', partner', requested')
  <2> HAVE Lone(s)
  <2>1. DbInv(r, db)
    BY DEF Sound, LoneInv
  <2> QED
    BY <1>3, <2>1 DEF LoneInv, StakeInv, DbInv, GoneInv, Branches, Beyond
<1> QED
  BY <1>1, <1>3, <1>4, <1>5, <1>6, <1>7 DEF Moved, Types, ScanInv, Throw

\* What the phase of a lookup is not.
LEMMA LookupPhase ==
  ASSUME Types, NEW s \in Scans, Sound(s), NEW i \in Items,
         scan[s].look[i] # "none"
  PROVE  /\ scan[s] \in ScanRec /\ scan[s].look \in [Items -> Stages]
         /\ LookInv(scan[s]) /\ TimeInv(scan[s], chain)
         /\ scan[s].at \in PhasesOf(i) \cup {"thrown"}
         /\ scan[s].look[i] = "todo" => scan[s].at # "thrown"
         /\ scan[s].at \notin Late \cup {"new"}
         /\ scan[s].at \notin Ended \cup {"new"} \/ ~Quiet(s)
<1>1. /\ scan[s] \in ScanRec /\ scan[s].look \in [Items -> Stages]
      /\ LookInv(scan[s]) /\ TimeInv(scan[s], chain)
  BY DEF Types, ScanRec, Sound, ScanInv
<1>2. /\ scan[s].at \in PhasesOf(i) \cup {"thrown"}
      /\ scan[s].look[i] = "todo" => scan[s].at # "thrown"
  BY <1>1 DEF LookInv
<1>3. scan[s].at \notin Late \cup {"new"}
  BY <1>2 DEF PhasesOf, Branches, Late
<1>4. scan[s].at \notin Ended \cup {"new"} \/ ~Quiet(s)
  <2>1. CASE scan[s].look[i] = "todo"
    BY <1>2, <2>1 DEF PhasesOf, Branches, Ended
  <2>2. CASE scan[s].look[i] # "todo"
    BY <1>1, <2>2, Busy DEF Stages
  <2> QED
    BY <2>1, <2>2
<1> QED
  BY <1>1, <1>2, <1>3, <1>4

\* A lookup goes on, or ends without a coin.
LEMMA LookMoves ==
  ASSUME Types, NEW s \in Scans, Sound(s), NEW i \in Items,
         scan[s].look[i] \notin {"none", "hydrating"},
         NEW st \in {"none", "history", "listing", "asked"},
         st \in {"history", "listing"} => i \in Nav \cup {Stake},
         scan' = [scan EXCEPT ![s].look[i] = st],
         \/ st = IF i \in Nav \cup {Stake} THEN "listing" ELSE "asked"
         \/ st = "history"
         \/ i \notin Nav \cup {Stake} /\ scan[s].at # "claim"
         \/ \A c \in scan[s].live : Home[c] # i,
         UNCHANGED <<chain, source, db, requested>>,
         partner' \in BOOLEAN, partner => partner',
         i = Keys /\ st = "none" =>
           partner' \/ \A c \in scan[s].live : Home[c] # Stake
  PROVE  Moved(s)
<1> DEFINE r == scan[s]
           q == [r EXCEPT !.look[i] = st]
<1>1. /\ scan' = [scan EXCEPT ![s] = q] /\ r \in ScanRec
      /\ LookInv(r) /\ TimeInv(r, chain) /\ r.at \notin Late \cup {"new"}
      /\ r.at \notin Ended \cup {"new"} \/ ~Quiet(s)
  BY LookupPhase DEF Types
<1>2. q \in ScanRec /\ q.look = [r.look EXCEPT ![i] = st]
  BY <1>1 DEF ScanRec, Stages
<1>3. /\ SamePhase(r, q) /\ q.aborted = r.aborted /\ q.adding = r.adding
      /\ q.seen = r.seen /\ q.found = r.found /\ q.lost = r.lost
      /\ q.live = r.live /\ q.gone = r.gone /\ q.failures = r.failures
  BY <1>1 DEF SamePhase, ScanRec
<1>4. r.look \in [Items -> Stages] /\ r.live \subseteq Coins
      /\ r.adding \subseteq Coins
  BY <1>1 DEF ScanRec
<1> HIDE DEF q
<1>5. LookInv(q)
  BY <1>1, <1>2, <1>3, <1>4, HomeKinds DEF LookInv, SamePhase
<1>6. Advances(r, q)
  <2> SUFFICES ASSUME NEW c \in r.live
               PROVE  /\ Home[c] \in Nav \cup {Stake} /\ Looked(r, c) =>
                           Looked(q, c)
                      /\ c \in XCoins /\ r.at = "claim" /\ Claimed(r, c) =>
                           Claimed(q, c)
    BY <1>3 DEF Advances
  <2>1. CASE Home[c] # i
    BY <1>2, <1>3, <1>4, <2>1, HomeKinds, ItemKinds
    DEF Looked, Claimed, SamePhase
  <2>2. CASE Home[c] = i /\ i \in Nav \cup {Stake}
    BY <1>2, <1>3, <1>4, <2>2, HomeKinds, ItemKinds DEF Looked
  <2>3. CASE Home[c] = i /\ i \notin Nav \cup {Stake}
    BY <1>2, <1>3, <1>4, <2>3, HomeKinds, ItemKinds DEF Claimed, SamePhase
  <2> QED
    BY <2>1, <2>2, <2>3
<1>7. GoesOn(r, q)
  BY <1>3, <1>5, <1>6 DEF GoesOn
<1>8. /\ q.adding \cap q.gone = {}
      /\ ~q.failures => q.seen \cap q.gone = {}
      /\ DbInv(r, db) => DbInv(q, db')
  BY <1>1, <1>3 DEF TimeInv, DbInv
<1>9. r.at = "discovering" /\ q.look[Keys] = "none" =>
        \/ r.look[Keys] = "none" \/ partner'
        \/ \A c \in q.live : Home[c] = Stake => c \in q.lost
  BY <1>2, <1>3, <1>4, ItemKinds
<1> QED
  BY <1>1, <1>2, <1>3, <1>7, <1>8, <1>9, MovesOn DEF Types, Late

\* Take: a worker takes an item, or throws.
LEMMA TakeMoves ==
  ASSUME Types, NEW s \in Scans, Sound(s), NEW i \in Items, Take(s, i)
  PROVE  Moved(s)
<1>1. /\ scan[s].look[i] = "todo"
      /\ UNCHANGED <<chain, source, db, partner, requested>>
  BY DEF Take, env
<1>2. CASE scan[s].aborted
  BY <1>1, <1>2, ThrowMoves, LookupPhase, ItemKinds
  DEF Take, PhasesOf, Branches, Quiet, Ended
<1>3. CASE ~scan[s].aborted
  BY <1>1, <1>3, LookMoves, ItemKinds DEF Take, Types
<1> QED
  BY <1>2, <1>3

\* HistoryAnswers: an address without a history has no coin that is unspent.
LEMMA HistoryAnswersMoves ==
  ASSUME Types, NEW s \in Scans, Sound(s), NEW i \in Items,
         HistoryAnswers(s, i)
  PROVE  Moved(s)
<1>1. /\ scan[s].look[i] = "history"
      /\ UNCHANGED <<chain, source, db, partner, requested>>
  BY DEF HistoryAnswers, env
<1>2. /\ TimeInv(scan[s], chain) /\ LookInv(scan[s]) /\ scan[s] \in ScanRec
  BY <1>1, LookupPhase
<1>3. i \in Nav \cup {Stake}
  BY <1>1, <1>2 DEF LookInv
<1>4. ~Known(i) => \A c \in scan[s].live : Home[c] # i
  BY <1>2 DEF Known, TimeInv, ScanRec
<1>5. CASE Known(i)
  <2>1. scan' = [scan EXCEPT ![s].look[i] = "listing"]
    BY <1>5 DEF HistoryAnswers
  <2> QED
    BY <1>1, <1>3, <2>1, LookMoves, ItemKinds DEF Types
<1>6. CASE ~Known(i)
  <2>1. scan' = [scan EXCEPT ![s].look[i] = "none"]
    BY <1>6 DEF HistoryAnswers
  <2> QED
    BY <1>1, <1>3, <1>4, <1>6, <2>1, LookMoves, ItemKinds DEF Types
<1> QED
  BY <1>5, <1>6

\* TxKeysAnswer says nothing about a coin.
LEMMA TxKeysMoves ==
  ASSUME Types, NEW s \in Scans, Sound(s), NEW c \in XCoins,
         TxKeysAnswer(s, c)
  PROVE  Moved(s)
BY LookMoves, ItemKinds DEF TxKeysAnswer, Types, env

\* ListAnswers: every live coin of the item is listed, and counts as seen.
LEMMA ListAnswersMoves ==
  ASSUME Types, NEW s \in Scans, Sound(s), NEW i \in Items, ListAnswers(s, i)
  PROVE  Moved(s)
<1> DEFINE r == scan[s]
           U == Unspent(i)
           st == IF U = {} THEN "none" ELSE "hydrating"
           q == [r EXCEPT !.look[i] = st, !.seen = @ \cup U,
                          !.adding = @ \cup U]
<1>1. /\ scan' = [scan EXCEPT ![s] = q] /\ r \in ScanRec
      /\ LookInv(r) /\ TimeInv(r, chain) /\ r.at \notin Late \cup {"new"}
      /\ r.at \notin Ended \cup {"new"} \/ ~Quiet(s)
      /\ r.look[i] = "listing"
      /\ UNCHANGED <<chain, source, db, partner, requested>>
  BY LookupPhase DEF Types, ListAnswers, env
<1>2. /\ r.look \in [Items -> Stages] /\ r.live \subseteq Coins
      /\ r.adding \subseteq Coins /\ i \in Nav \cup {Stake}
  BY <1>1 DEF ScanRec, LookInv
<1>3. /\ U \subseteq Coins
      /\ \A c \in U : Home[c] = i /\ c \notin r.gone /\ c \notin XCoins
      /\ \A c \in r.live : Home[c] = i => c \in U
  BY <1>1, <1>2, ItemKinds DEF TimeInv, Unspent
<1> HIDE DEF U
<1>4. /\ q \in ScanRec /\ q.look = [r.look EXCEPT ![i] = st]
      /\ q.seen = r.seen \cup U /\ q.adding = r.adding \cup U
  BY <1>1, <1>3 DEF ScanRec, Stages
<1>5. /\ SamePhase(r, q) /\ q.aborted = r.aborted
      /\ q.found = r.found /\ q.lost = r.lost
      /\ q.live = r.live /\ q.gone = r.gone /\ q.failures = r.failures
  BY <1>1 DEF SamePhase, ScanRec
<1> HIDE DEF q
<1>6. LookInv(q)
  BY <1>1, <1>2, <1>3, <1>4, <1>5, HomeKinds DEF LookInv, SamePhase
<1>7. Advances(r, q)
  BY <1>1, <1>2, <1>3, <1>4, <1>5, HomeKinds, ItemKinds
  DEF Advances, Looked, Claimed, SamePhase
<1>8. /\ q.adding \cap q.gone = {}
      /\ ~q.failures => q.seen \cap q.gone = {}
      /\ DbInv(r, db) => DbInv(q, db')
  BY <1>1, <1>3, <1>4, <1>5 DEF TimeInv, DbInv
<1> QED
  BY <1>1, <1>2, <1>4, <1>5, <1>6, <1>7, <1>8, MovesOn, ItemKinds
  DEF Types, Late, GoesOn

\* LookupFails: the failure is counted, and the scan will not reap.
LEMMA LookupFailsMoves ==
  ASSUME Types, NEW s \in Scans, Sound(s), NEW i \in Items, LookupFails(s, i)
  PROVE  Moved(s)
<1> DEFINE r == scan[s]
           q == [r EXCEPT !.look[i] = "none", !.failures = TRUE]
<1>1. /\ scan' = [scan EXCEPT ![s] = q] /\ r \in ScanRec
      /\ LookInv(r) /\ TimeInv(r, chain) /\ r.at \notin Late \cup {"new"}
      /\ r.at \notin Ended \cup {"new"} \/ ~Quiet(s)
      /\ r.look[i] \in {"history", "listing"}
      /\ UNCHANGED <<chain, source, db, partner, requested>>
  BY LookupPhase DEF Types, LookupFails, env
<1>2. r.look \in [Items -> Stages] /\ i \in Nav \cup {Stake}
  BY <1>1 DEF ScanRec, LookInv
<1>3. /\ q \in ScanRec /\ q.look = [r.look EXCEPT ![i] = "none"]
      /\ q.failures
  BY <1>1 DEF ScanRec, Stages
<1>4. /\ SamePhase(r, q) /\ q.aborted = r.aborted /\ q.adding = r.adding
      /\ q.seen = r.seen /\ q.found = r.found /\ q.lost = r.lost
      /\ q.live = r.live /\ q.gone = r.gone
  BY <1>1 DEF SamePhase, ScanRec
<1> HIDE DEF q
<1>5. LookInv(q)
  BY <1>1, <1>2, <1>3, <1>4, HomeKinds DEF LookInv, SamePhase, ScanRec
<1>6. GoesOn(r, q)
  BY <1>3, <1>4, <1>5 DEF GoesOn, Advances
<1>7. q.adding \cap q.gone = {} /\ (DbInv(r, db) => DbInv(q, db'))
  BY <1>1, <1>4 DEF TimeInv, DbInv
<1> QED
  BY <1>1, <1>2, <1>3, <1>4, <1>6, <1>7, MovesOn, ItemKinds DEF Types, Late

\* The coin is added or not, and the next one, if there is one, comes.
LEMMA HydrateEndsFacts ==
  ASSUME Types, NEW s \in Scans, Sound(s), NEW c \in scan[s].adding
  PROVE  LET r == scan[s]
             q == HydrateEnds(s, c) IN
         /\ q \in ScanRec /\ r \in ScanRec /\ SamePhase(r, q) /\ LookInv(q)
         /\ q.aborted = r.aborted /\ q.adding = r.adding \ {c}
         /\ q.seen = r.seen /\ q.found = r.found /\ q.lost = r.lost
         /\ q.live = r.live /\ q.gone = r.gone /\ q.failures = r.failures
         /\ q.look[Keys] = r.look[Keys]
         /\ TimeInv(r, chain) /\ r.at \notin Late \cup {"new"}
         /\ r.at \notin Ended \cup {"new"} \/ ~Quiet(s)
         /\ c \in Coins /\ c \notin r.gone /\ c \notin XCoins
         /\ \A d \in Coins : d # c =>
              /\ Looked(r, d) => Looked(q, d)
              /\ d \in XCoins /\ Claimed(r, d) => Claimed(q, d)
<1> DEFINE r == scan[s]
           rest == r.adding \ {c}
           i == Home[c]
           st == IF \E d \in rest : Home[d] = i THEN "hydrating" ELSE "none"
           q == HydrateEnds(s, c)
<1>1. /\ r \in ScanRec /\ LookInv(r) /\ TimeInv(r, chain)
  BY DEF Types, Sound, ScanInv
<1>2. /\ r.look \in [Items -> Stages] /\ r.adding \subseteq Coins
      /\ c \in Coins /\ i \in Items /\ r.look[i] = "hydrating"
      /\ i \in Nav \cup {Stake}
  BY <1>1, HomeKinds DEF ScanRec, LookInv
<1>3. /\ r.at \notin Late \cup {"new"}
      /\ r.at \notin Ended \cup {"new"} \/ ~Quiet(s)
  BY <1>2, LookupPhase
<1>4. q = [r EXCEPT !.adding = rest, !.look[i] = st]
  BY <1>1, <1>2 DEF HydrateEnds, ScanRec
<1>5. /\ st \in {"hydrating", "none"}
      /\ \A d \in rest : Home[d] = i => st = "hydrating"
  OBVIOUS
<1> HIDE DEF st, q
<1>6. /\ q \in ScanRec /\ q.look = [r.look EXCEPT ![i] = st]
      /\ SamePhase(r, q) /\ q.aborted = r.aborted /\ q.adding = rest
      /\ q.seen = r.seen /\ q.found = r.found /\ q.lost = r.lost
      /\ q.live = r.live /\ q.gone = r.gone /\ q.failures = r.failures
  BY <1>1, <1>2, <1>4, <1>5 DEF ScanRec, SamePhase, Stages
<1>7. LookInv(q)
  BY <1>1, <1>2, <1>5, <1>6, HomeKinds DEF LookInv, SamePhase
<1>8. ASSUME NEW d \in Coins, d # c
      PROVE  /\ Looked(r, d) => Looked(q, d)
             /\ d \in XCoins /\ Claimed(r, d) => Claimed(q, d)
  <2>1. Home[d] \in Items /\ (d \in XCoins => XTx(d) \in Items /\ XTx(d) # i)
    BY <1>2, HomeKinds, ItemKinds
  <2> QED
    BY <1>2, <1>5, <1>6, <1>8, <2>1 DEF Looked, Claimed, SamePhase
<1>9. c \notin r.gone /\ c \notin XCoins /\ q.look[Keys] = r.look[Keys]
  BY <1>1, <1>2, <1>6, ItemKinds DEF TimeInv
<1> QED
  BY <1>1, <1>2, <1>3, <1>6, <1>7, <1>8, <1>9 DEF q

\* Hydrate: the coin is found.
LEMMA HydrateMoves ==
  ASSUME Types, NEW s \in Scans, Sound(s), NEW c \in Coins, Hydrate(s, c)
  PROVE  Moved(s)
<1> DEFINE r == scan[s]
           h == HydrateEnds(s, c)
           q == [h EXCEPT !.found = @ \cup {c}]
<1>1. /\ scan' = [scan EXCEPT ![s] = q] /\ c \in r.adding /\ Added(c)
      /\ UNCHANGED <<chain, source, partner, requested>>
  BY DEF Hydrate, env
<1> HIDE DEF h
<1>2. /\ h \in ScanRec /\ r \in ScanRec /\ SamePhase(r, h) /\ LookInv(h)
      /\ h.aborted = r.aborted /\ h.adding = r.adding \ {c}
      /\ h.seen = r.seen /\ h.found = r.found /\ h.lost = r.lost
      /\ h.live = r.live /\ h.gone = r.gone /\ h.failures = r.failures
      /\ h.look[Keys] = r.look[Keys]
      /\ TimeInv(r, chain) /\ r.at \notin Late \cup {"new"}
      /\ r.at \notin Ended \cup {"new"} \/ ~Quiet(s)
      /\ c \notin r.gone /\ c \notin XCoins
      /\ \A d \in Coins : d # c =>
           /\ Looked(r, d) => Looked(h, d)
           /\ d \in XCoins /\ Claimed(r, d) => Claimed(h, d)
  BY <1>1, HydrateEndsFacts DEF h
<1>3. /\ q \in ScanRec /\ q.found = h.found \cup {c}
      /\ SamePhase(h, q) /\ q.look = h.look
      /\ q.aborted = h.aborted /\ q.adding = h.adding
      /\ q.seen = h.seen /\ q.lost = h.lost
      /\ q.live = h.live /\ q.gone = h.gone /\ q.failures = h.failures
  BY <1>2 DEF SamePhase, ScanRec
<1> HIDE DEF q
<1>4. SamePhase(r, q)
  BY <1>2, <1>3 DEF SamePhase
<1>5. LookInv(q)
  BY <1>2, <1>3 DEF LookInv, SamePhase
<1>6. Advances(r, q)
  <2>1. r.look[Home[c]] = "hydrating" /\ r.live \subseteq Coins
    BY <1>1, <1>2 DEF Sound, ScanInv, LookInv, ScanRec
  <2>2. \A d \in Coins : /\ Looked(h, d) => Looked(q, d)
                         /\ Claimed(h, d) => Claimed(q, d)
    BY <1>3 DEF Looked, Claimed, SamePhase
  <2>3. Looked(r, c) => Looked(q, c)
    BY <1>2, <1>3, <2>1 DEF Looked
  <2> QED
    BY <1>2, <1>3, <2>1, <2>2, <2>3 DEF Advances
<1>7. /\ q.adding \cap q.gone = {}
      /\ ~q.failures => q.seen \cap q.gone = {}
  BY <1>2, <1>3 DEF TimeInv
<1>8. /\ \A d \in Coins : d # c => db'[d] = db[d]
      /\ db'[c] \in {"unspent", "spent"}
  BY <1>1 DEF Types, Added
<1>9. DbInv(r, db) => DbInv(q, db')
  BY <1>2, <1>3, <1>8, ItemKinds DEF DbInv, ScanRec
<1>10. \A d \in r.gone : db'[d] = db[d]
  BY <1>2, <1>8 DEF ScanRec
<1> QED
  BY <1>1, <1>2, <1>3, <1>4, <1>5, <1>6, <1>7, <1>9, <1>10, MovesOn
  DEF Types, Late, GoesOn

\* HydrateSwallows: the coin is lost, but it was seen.
LEMMA HydrateSwallowsMoves ==
  ASSUME Types, NEW s \in Scans, Sound(s), NEW c \in Coins,
         HydrateSwallows(s, c)
  PROVE  Moved(s)
<1> DEFINE r == scan[s]
           h == HydrateEnds(s, c)
           q == [h EXCEPT !.lost = @ \cup {c}]
<1>1. /\ scan' = [scan EXCEPT ![s] = q] /\ c \in r.adding
      /\ UNCHANGED <<chain, source, db, partner, requested>>
  BY DEF HydrateSwallows, env
<1> HIDE DEF h
<1>2. /\ h \in ScanRec /\ r \in ScanRec /\ SamePhase(r, h) /\ LookInv(h)
      /\ h.aborted = r.aborted /\ h.adding = r.adding \ {c}
      /\ h.seen = r.seen /\ h.found = r.found /\ h.lost = r.lost
      /\ h.live = r.live /\ h.gone = r.gone /\ h.failures = r.failures
      /\ h.look[Keys] = r.look[Keys]
      /\ TimeInv(r, chain) /\ r.at \notin Late \cup {"new"}
      /\ c \notin XCoins
      /\ r.at \notin Ended \cup {"new"} \/ ~Quiet(s)
      /\ \A d \in Coins : d # c =>
           /\ Looked(r, d) => Looked(h, d)
           /\ d \in XCoins /\ Claimed(r, d) => Claimed(h, d)
  BY <1>1, HydrateEndsFacts DEF h
<1>3. /\ q \in ScanRec /\ q.lost = h.lost \cup {c}
      /\ SamePhase(h, q) /\ q.look = h.look
      /\ q.aborted = h.aborted /\ q.adding = h.adding
      /\ q.seen = h.seen /\ q.found = h.found
      /\ q.live = h.live /\ q.gone = h.gone /\ q.failures = h.failures
  BY <1>2 DEF SamePhase, ScanRec
<1> HIDE DEF q
<1>4. SamePhase(r, q)
  BY <1>2, <1>3 DEF SamePhase
<1>5. LookInv(q)
  BY <1>2, <1>3 DEF LookInv, SamePhase
<1>6. Advances(r, q)
  <2>1. r.look[Home[c]] = "hydrating" /\ r.live \subseteq Coins
    BY <1>1, <1>2 DEF Sound, ScanInv, LookInv, ScanRec
  <2>2. \A d \in Coins : /\ Looked(h, d) => Looked(q, d)
                         /\ Claimed(h, d) => Claimed(q, d)
    BY <1>3 DEF Looked, Claimed, SamePhase
  <2>3. Looked(r, c) => Looked(q, c)
    BY <1>2, <1>3, <2>1 DEF Looked
  <2> QED
    BY <1>2, <1>3, <2>1, <2>2, <2>3 DEF Advances
<1>7. /\ q.adding \cap q.gone = {}
      /\ ~q.failures => q.seen \cap q.gone = {}
      /\ DbInv(r, db) => DbInv(q, db')
  BY <1>1, <1>2, <1>3 DEF TimeInv, DbInv
<1> QED
  BY <1>1, <1>2, <1>3, <1>4, <1>5, <1>6, <1>7, MovesOn
  DEF Types, Late, GoesOn

\* KeysAnswer: the partner of a live staked coin is learnt, or all are lost.
LEMMA KeysAnswerMoves ==
  ASSUME Types, NEW s \in Scans, Sound(s), KeysAnswer(s)
  PROVE  Moved(s)
<1> DEFINE r == scan[s]
           K == {c \in Coins : Home[c] = Stake}
           q == [r EXCEPT !.look[Keys] = "none", !.lost = @ \cup K]
<1>1. /\ r.look[Keys] = "asked" /\ UNCHANGED <<chain, source, db, requested>>
      /\ partner' \in BOOLEAN /\ (partner => partner')
  BY DEF KeysAnswer, env, Types
<1>2. /\ r \in ScanRec /\ LookInv(r) /\ TimeInv(r, chain)
      /\ r.at \in {"discovering", "thrown"} /\ r.at \notin Late \cup {"new"}
      /\ r.at \notin Ended \cup {"new"} \/ ~Quiet(s)
  BY <1>1, ItemKinds, LookupPhase DEF PhasesOf
<1>3. CASE /\ partner' = (partner \/ Known(Stake))
           /\ scan' = [scan EXCEPT ![s].look[Keys] = "none"]
  <2>1. partner' \/ \A c \in r.live : Home[c] # Stake
    BY <1>2, <1>3 DEF Known, TimeInv, ScanRec
  <2> QED
    BY <1>1, <1>2, <1>3, <2>1, LookMoves, ItemKinds
<1>4. CASE scan' = [scan EXCEPT ![s].look[Keys] = "none",
                                ![s].lost = @ \cup {c \in Coins :
                                                      Home[c] = Stake}]
  <2>1. scan' = [scan EXCEPT ![s] = q]
    BY <1>4 DEF Types
  <2>2. /\ q \in ScanRec /\ q.look = [r.look EXCEPT ![Keys] = "none"]
        /\ q.lost = r.lost \cup K
        /\ SamePhase(r, q) /\ q.aborted = r.aborted /\ q.adding = r.adding
        /\ q.seen = r.seen /\ q.found = r.found
        /\ q.live = r.live /\ q.gone = r.gone /\ q.failures = r.failures
    BY <1>2, ItemKinds DEF SamePhase, ScanRec, Stages
  <2>3. /\ \A c \in q.live : Home[c] = Stake => c \in q.lost
        /\ \A i \in Items : i # Keys => q.look[i] = r.look[i]
        /\ q.look[Keys] = "none"
    BY <1>2, <2>2, ItemKinds DEF ScanRec
  <2> HIDE DEF q, K
  <2>4. LookInv(q)
    BY <1>2, <2>2, <2>3, HomeKinds DEF LookInv, SamePhase, ScanRec
  <2>5. Advances(r, q)
    BY <1>2, <2>2, <2>3, HomeKinds, ItemKinds
    DEF Advances, Looked, Claimed, ScanRec, SamePhase
  <2>6. /\ q.adding \cap q.gone = {}
        /\ ~q.failures => q.seen \cap q.gone = {}
        /\ DbInv(r, db) => DbInv(q, db')
    BY <1>1, <1>2, <2>2 DEF TimeInv, DbInv
  <2>7. GoesOn(r, q)
    BY <2>2, <2>4, <2>5 DEF GoesOn
  <2>8. \A c \in q.live : Home[c] = Stake => c \in q.lost
    BY <2>3
  <2>9. /\ partner \in BOOLEAN
        /\ r.at # "new" /\ r.at # "done"
        /\ r.aborted => q.aborted
        /\ \A c \in r.gone : db'[c] = "unspent" => db[c] = "unspent"
    BY <1>1, <1>2, <2>2 DEF Types
  <2> QED
    BY <1>1, <1>2, <2>1, <2>2, <2>6, <2>7, <2>8, <2>9, MovesOn
<1> QED
  BY <1>3, <1>4 DEF KeysAnswer

\* A claim ends: its coin counts as seen, is lost, or the failure is counted.
LEMMA ClaimOver ==
  ASSUME Types, NEW s \in Scans, Sound(s), NEW c \in XCoins,
         scan[s].at = "claim", scan[s].look[XTx(c)] = "asked",
         NEW q \in ScanRec, scan' = [scan EXCEPT ![s] = q],
         SamePhase(scan[s], q), q.aborted = scan[s].aborted,
         q.look = [scan[s].look EXCEPT ![XTx(c)] = "none"],
         q.adding = scan[s].adding, q.found = scan[s].found,
         q.live = scan[s].live,
         \A d \in q.seen : d \in scan[s].seen \/ d = c,
         c \in q.seen => c \in scan[s].seen \cup scan[s].anchorUnspent,
         UNCHANGED <<chain, source, partner, requested>>,
         \/ q.failures \/ c \in q.unread \/ c \in q.seen
         \/ c \notin scan[s].anchorUnspent,
         UNCHANGED db \/ (Added(c) /\ c \in scan[s].anchorUnspent),
         c \in q.seen => c \in scan[s].seen \cup q.lost \/ Added(c)
  PROVE  Moved(s)
<1> DEFINE r == scan[s]
           i == XTx(c)
<1>1. c \in Coins /\ i \in Items /\ i \notin Nav \cup {Stake} /\ i # Keys
  BY ItemKinds
<1>2. /\ r \in ScanRec /\ LookInv(r) /\ TimeInv(r, chain) /\ XInv(r, source)
      /\ r.at \notin Ended \cup {"new"}
  BY <1>1, LookupPhase DEF Sound, ScanInv, Ended
<1>3. ~q.failures => ~r.failures
  BY DEF SamePhase
<1>4. /\ q.gone = r.gone /\ r.seen \subseteq q.seen
      /\ r.lost \subseteq q.lost /\ r.unread \subseteq q.unread
  BY DEF SamePhase
<1>5. LookInv(q)
  BY <1>1, <1>2, <1>3, <1>4, HomeKinds DEF LookInv, SamePhase, ScanRec
<1>6. Advances(r, q)
  <2> SUFFICES ASSUME ~q.failures, NEW d \in r.live
               PROVE  /\ Home[d] \in Nav \cup {Stake} /\ Looked(r, d) =>
                           Looked(q, d)
                      /\ d \in XCoins /\ Claimed(r, d) => Claimed(q, d)
    BY <1>4 DEF Advances
  <2>1. d \in Coins /\ r.look \in [Items -> Stages]
    BY <1>2 DEF ScanRec
  <2>2. CASE d = c
    <3>1. source = "phrase" /\ c \in r.anchorUnspent
      BY <1>2, <1>3, <2>2 DEF XInv
    <3>2. Claimed(q, c)
      BY <3>1 DEF Claimed
    <3> QED
      BY <1>1, <2>2, <3>2, ItemKinds
  <2>3. CASE d # c
    <3>1. d \in XCoins => XTx(d) # i /\ XTx(d) \in Items
      BY <1>1, <2>3, ItemKinds, HomeKinds
    <3> QED
      BY <1>1, <1>4, <2>1, <3>1, HomeKinds DEF Looked, Claimed
  <2> QED
    BY <2>2, <2>3
<1>7. ~q.failures => c \notin r.anchorUnspent \cap r.gone
  BY <1>2, <1>3 DEF TimeInv
<1>8. /\ q.adding \cap q.gone = {}
      /\ ~q.failures => q.seen \cap q.gone = {}
  BY <1>2, <1>3, <1>4, <1>7 DEF TimeInv
<1>9. /\ \A d \in Coins : d # c => db'[d] = db[d]
      /\ db[c] # "none" => db'[c] # "none"
      /\ c \in q.seen => c \in r.seen \cup q.lost \/ db'[c] # "none"
      /\ \/ db' = db
         \/ c \in r.anchorUnspent
  BY <1>1 DEF Types, Added
<1>10. DbInv(r, db) => DbInv(q, db')
  BY <1>1, <1>2, <1>3, <1>4, <1>9, ItemKinds DEF DbInv, ScanRec
<1>11. ~q.failures => \A d \in r.gone : db'[d] = "unspent" => db[d] = "unspent"
  BY <1>2, <1>7, <1>9 DEF ScanRec
<1> QED
  BY <1>1, <1>2, <1>3, <1>4, <1>5, <1>6, <1>8, <1>10, <1>11, MovesOn
  DEF Types, GoesOn, Ended

\* Claim: the coin is there.
LEMMA ClaimMoves ==
  ASSUME Types, NEW s \in Scans, Sound(s), NEW c \in XCoins, Claim(s, c)
  PROVE  Moved(s)
<1> DEFINE r == scan[s]
           here == {c} \cap r.anchorUnspent
           q == [r EXCEPT !.look[XTx(c)] = "none", !.seen = @ \cup here]
<1>1. /\ r \in ScanRec /\ scan' = [scan EXCEPT ![s] = q]
      /\ r.at = "claim" /\ r.look[XTx(c)] = "asked"
      /\ UNCHANGED <<chain, source, partner, requested>>
      /\ IF here = {} THEN UNCHANGED db ELSE Added(c)
  BY DEF Types, Claim, env
<1>2. /\ q \in ScanRec /\ SamePhase(r, q) /\ q.aborted = r.aborted
      /\ q.look = [r.look EXCEPT ![XTx(c)] = "none"]
      /\ q.adding = r.adding /\ q.found = r.found /\ q.live = r.live
      /\ q.seen = r.seen \cup here
  BY <1>1, ItemKinds DEF ScanRec, SamePhase, Stages, Late
<1> HIDE DEF q
<1> QED
  BY <1>1, <1>2, ClaimOver

\* ClaimFails: the failure is counted, or the coin lost.
LEMMA ClaimFailsMoves ==
  ASSUME Types, NEW s \in Scans, Sound(s), NEW c \in XCoins, ClaimFails(s, c)
  PROVE  Moved(s)
<1> DEFINE r == scan[s]
           here == {c} \cap r.anchorUnspent
<1>1. /\ r \in ScanRec /\ r.at = "claim" /\ r.look[XTx(c)] = "asked"
      /\ UNCHANGED <<chain, source, db, partner, requested>>
  BY DEF Types, ClaimFails, env
<1>2. CASE scan' = [scan EXCEPT ![s].look[XTx(c)] = "none",
                                ![s].failures = TRUE]
  <2> DEFINE q == [r EXCEPT !.look[XTx(c)] = "none", !.failures = TRUE]
  <2>1. scan' = [scan EXCEPT ![s] = q]
    BY <1>2 DEF Types
  <2>2. /\ q \in ScanRec /\ SamePhase(r, q) /\ q.aborted = r.aborted
        /\ q.look = [r.look EXCEPT ![XTx(c)] = "none"]
        /\ q.adding = r.adding /\ q.found = r.found /\ q.live = r.live
        /\ q.seen = r.seen /\ q.failures
    BY <1>1, ItemKinds DEF ScanRec, SamePhase, Stages, Late
  <2> HIDE DEF q
  <2> QED
    BY <1>1, <2>1, <2>2, ClaimOver
<1>3. ASSUME NEW q,
             \/ q = [r EXCEPT !.look[XTx(c)] = "none",
                              !.unread = @ \cup {c}, !.lost = @ \cup {c}]
             \/ q = [r EXCEPT !.look[XTx(c)] = "none",
                              !.seen = @ \cup here, !.lost = @ \cup {c}],
             scan' = [scan EXCEPT ![s] = q]
      PROVE  Moved(s)
  <2>1. /\ q \in ScanRec /\ SamePhase(r, q) /\ q.aborted = r.aborted
        /\ q.look = [r.look EXCEPT ![XTx(c)] = "none"]
        /\ q.adding = r.adding /\ q.found = r.found /\ q.live = r.live
        /\ q.lost = r.lost \cup {c}
        /\ \/ q.seen = r.seen /\ q.unread = r.unread \cup {c}
           \/ q.seen = r.seen \cup here
    <3>1. CASE q = [r EXCEPT !.look[XTx(c)] = "none",
                             !.unread = @ \cup {c}, !.lost = @ \cup {c}]
      <4>1. q \in ScanRec
        BY <1>1, <3>1, ItemKinds DEF ScanRec, Stages
      <4>2. SamePhase(r, q)
        BY <1>1, <3>1 DEF ScanRec, SamePhase, Late
      <4> QED
        BY <1>1, <3>1, <4>1, <4>2 DEF ScanRec
    <3>2. CASE q = [r EXCEPT !.look[XTx(c)] = "none",
                             !.seen = @ \cup here, !.lost = @ \cup {c}]
      BY <1>1, <3>2, ItemKinds DEF ScanRec, SamePhase, Stages, Late
    <3> QED
      BY <1>3, <3>1, <3>2
  <2>2. \A d \in here : d = c /\ c \in r.anchorUnspent
    OBVIOUS
  <2>3. c \in here <=> c \in r.anchorUnspent
    OBVIOUS
  <2> QED
    BY <1>1, <1>3, <2>1, <2>2, <2>3, ClaimOver
<1>4. CASE scan' = [scan EXCEPT ![s].look[XTx(c)] = "none",
                                ![s].unread = @ \cup {c},
                                ![s].lost = @ \cup {c}]
  <2>1. scan' = [scan EXCEPT ![s] = [r EXCEPT !.look[XTx(c)] = "none",
                                              !.unread = @ \cup {c},
                                              !.lost = @ \cup {c}]]
    BY <1>4 DEF Types
  <2> QED
    BY <1>3, <2>1
<1>5. CASE scan' = [scan EXCEPT ![s].look[XTx(c)] = "none",
                                ![s].seen = @ \cup here,
                                ![s].lost = @ \cup {c}]
  <2>1. scan' = [scan EXCEPT ![s] = [r EXCEPT !.look[XTx(c)] = "none",
                                              !.seen = @ \cup here,
                                              !.lost = @ \cup {c}]]
    BY <1>5 DEF Types
  <2> QED
    BY <1>3, <2>1
<1> QED
  BY <1>2, <1>4, <1>5 DEF ClaimFails

\* Abort changes nothing the scan knows.
LEMMA AbortMoves ==
  ASSUME Types, NEW s \in Scans, Sound(s), Abort(s)
  PROVE  Moved(s)
<1> DEFINE r == scan[s]
           q == [r EXCEPT !.aborted = TRUE]
<1>1. /\ r \in ScanRec /\ scan' = [scan EXCEPT ![s] = q]
      /\ LookInv(r) /\ TimeInv(r, chain) /\ r.at \notin Ended \cup {"new"}
      /\ UNCHANGED <<chain, source, db, partner, requested>>
  BY DEF Types, Abort, Sound, ScanInv, env
<1>2. /\ q \in ScanRec /\ SamePhase(r, q) /\ q.look = r.look
      /\ q.aborted /\ q.adding = r.adding /\ q.seen = r.seen
      /\ q.found = r.found /\ q.lost = r.lost
      /\ q.live = r.live /\ q.gone = r.gone /\ q.failures = r.failures
  BY <1>1 DEF SamePhase, ScanRec
<1> HIDE DEF q
<1>3. LookInv(q) /\ Advances(r, q)
  BY <1>1, <1>2 DEF LookInv, SamePhase, Advances, Looked, Claimed
<1>4. /\ q.adding \cap q.gone = {}
      /\ ~q.failures => q.seen \cap q.gone = {}
      /\ DbInv(r, db) => DbInv(q, db')
  BY <1>1, <1>2 DEF TimeInv, DbInv
<1> QED
  BY <1>1, <1>2, <1>3, <1>4, MovesOn DEF Types, GoesOn, Ended

-----------------------------------------------------------------------------
(* From phase to phase.                                                    *)

\* What a scan knows of its coins.
SameCoins(r, q) ==
  /\ q.alone = r.alone /\ q.live = r.live /\ q.gone = r.gone
  /\ q.seen = r.seen /\ q.found = r.found /\ q.adding = r.adding
  /\ r.lost \subseteq q.lost /\ q.unread = r.unread
  /\ r.failures => q.failures

\* A step that takes a scan to its next phase and keeps what it knows of its
\* coins is a step of the scan if the parts of the invariant that depend on the
\* phase hold in the new one.
LEMMA PhaseMoves ==
  ASSUME Types, NEW s \in Scans, Sound(s),
         NEW q \in ScanRec, scan' = [scan EXCEPT ![s] = q],
         UNCHANGED <<chain, source>>,
         scan[s].at \notin Ended \cup {"new"}, q.at # "new",
         q.aborted = scan[s].aborted, q.at = "done" => ~q.aborted,
         SameCoins(scan[s], q), q.stale \subseteq Coins,
         ~q.failures => q.anchorUnspent \cap q.gone = {},
         LookInv(q), WalkInv(q, source), XInv(q, source), KnewInv(q),
         LateInv(q, source),
         Lone(s) => StakeInv(q, partner', requested'),
         Lone(s) => GoneInv(q, db'),
         \A c \in Coins : db[c] # "none" => db'[c] # "none"
  PROVE  Moved(s)
<1>1. /\ scan[s] \in ScanRec /\ scan'[s] = q
      /\ scan' \in [Scans -> ScanRec]
      /\ \A t \in Scans : t # s => scan'[t] = scan[t]
  BY DEF Types
<1>2. ~Quiet(s)
  BY DEF Quiet
<1>3. TimeInv(q, chain)
  BY DEF Sound, ScanInv, TimeInv, SameCoins
<1>4. Lone(s) => DbInv(q, db')
  BY <1>1, ItemKinds DEF Sound, LoneInv, DbInv, SameCoins, ScanRec
<1> QED
  BY <1>1, <1>2, <1>3, <1>4 DEF Moved, ScanInv, LoneInv, SameCoins

\* A pass has ended: no lookup is left.
LEMMA PassEnd ==
  ASSUME Types, NEW s \in Scans, Sound(s), NEW P, PassDone(s, P)
  PROVE  /\ scan[s] \in ScanRec /\ scan[s].at \in P
         /\ scan[s].look \in [Items -> Stages]
         /\ \A i \in Items : scan[s].look[i] = "none"
         /\ scan[s].adding = {}
         /\ LookInv(scan[s]) /\ TimeInv(scan[s], chain)
         /\ WalkInv(scan[s], source) /\ XInv(scan[s], source)
         /\ KnewInv(scan[s]) /\ LateInv(scan[s], source)
         /\ \A c \in Coins : Looked(scan[s], c) => Settled(scan[s], c)
<1>1. /\ scan[s] \in ScanRec /\ scan[s].at \in P
      /\ scan[s].look \in [Items -> Stages]
      /\ LookInv(scan[s]) /\ TimeInv(scan[s], chain)
      /\ WalkInv(scan[s], source) /\ XInv(scan[s], source)
      /\ KnewInv(scan[s]) /\ LateInv(scan[s], source)
  BY DEF Types, ScanRec, PassDone, Sound, ScanInv
<1>2. \A i \in Items : scan[s].look[i] = "none"
  BY <1>1 DEF PassDone, Lookups
<1>3. scan[s].adding = {}
  BY <1>1, <1>2, HomeKinds DEF LookInv, ScanRec
<1>4. \A c \in Coins : Looked(scan[s], c) => Settled(scan[s], c)
  BY <1>2, <1>3, HomeKinds DEF Looked, Settled
<1> QED
  BY <1>1, <1>2, <1>3, <1>4

\* StakeEnds: every staked coin that was looked up is settled.
LEMMA StakeEndsMoves ==
  ASSUME Types, NEW s \in Scans, Sound(s), StakeEnds(s)
  PROVE  Moved(s)
<1> DEFINE r == scan[s]
           to == IF source = "phrase" THEN "anchor" ELSE "reap"
           q == [r EXCEPT !.at = to]
<1>1. /\ PassDone(s, {"staking"}) /\ scan' = [scan EXCEPT ![s] = q]
      /\ UNCHANGED <<chain, source, db, partner, requested>>
  BY DEF StakeEnds, Types, env
<1>2. /\ r \in ScanRec /\ r.at = "staking"
      /\ \A i \in Items : r.look[i] = "none"
      /\ LookInv(r) /\ TimeInv(r, chain) /\ WalkInv(r, source)
      /\ LateInv(r, source)
      /\ KnewInv(r) /\ r.live \subseteq Coins
      /\ \A c \in Coins : Looked(r, c) => Settled(r, c)
  BY <1>1, PassEnd DEF ScanRec
<1>3. /\ q \in ScanRec /\ SameCoins(r, q) /\ q.aborted = r.aborted
      /\ q.at = to /\ to \in {"anchor", "reap"} /\ q.look = r.look
      /\ q.failures = r.failures /\ q.lost = r.lost /\ q.stale = r.stale
      /\ q.anchorUnspent = r.anchorUnspent /\ q.knew = r.knew
  BY <1>2 DEF ScanRec, SameCoins, Phases
<1> HIDE DEF q
<1>4. LookInv(q)
  BY <1>2, <1>3 DEF LookInv, SameCoins
<1>5. WalkInv(q, source)
  BY <1>2, <1>3, DueShrinks
  DEF WalkInv, SameCoins, Walked, Branches, Settled
<1>6. XInv(q, source) /\ KnewInv(q) /\ LateInv(q, source)
  BY <1>2, <1>3 DEF XInv, KnewInv, LateInv, SameCoins, Settled
<1>7. Lone(s) => StakeInv(q, partner', requested')
  BY <1>1, <1>2, <1>3
  DEF Sound, LoneInv, StakeInv, SameCoins, Settled, ScanRec, Branches, Beyond
<1>8. GoneInv(q, db')
  BY <1>3 DEF GoneInv
<1> QED
  BY <1>1, <1>2, <1>3, <1>4, <1>5, <1>6, <1>7, <1>8, PhaseMoves
  DEF Ended, TimeInv, ScanRec, SameCoins

\* Between two passes nothing is looked up.
LEMMA Idle ==
  ASSUME Types, NEW s \in Scans, Sound(s),
         scan[s].at \in {"anchor", "anchorUnspent", "reap", "reading",
                        "reaping"}
  PROVE  PassDone(s, {scan[s].at}) /\ scan[s].at \notin Ended \cup {"new"}
<1>1. LookInv(scan[s])
  BY DEF Sound, ScanInv
<1>2. \A i \in Items : scan[s].look[i] = "none"
  BY <1>1 DEF LookInv, PhasesOf, Branches
<1> QED
  BY <1>2 DEF PassDone, Lookups, Ended

\* The staked coins of a scan that has gone on are still settled,
LEMMA StakeBeyond ==
  ASSUME NEW r, NEW q, SameCoins(r, q), NEW p, NEW t, StakeInv(r, p, t),
         r.at \in Beyond, q.at \in Beyond \cup Late \cup {"thrown"}
  PROVE  StakeInv(q, p, t)
BY DEF StakeInv, Beyond, Late, SameCoins, Settled, Branches

\* ... whether it was alone or knew their partner,
LEMMA KnewBeyond ==
  ASSUME NEW r, NEW q, SameCoins(r, q), KnewInv(r), q.knew = r.knew,
         r.at \in Beyond, q.at \in Beyond \cup Late \cup {"thrown"}
  PROVE  KnewInv(q)
BY DEF KnewInv, Beyond, Late, SameCoins, Settled

\* ... and so are those of the branches.
LEMMA WalkBeyond ==
  ASSUME NEW r, NEW q, SameCoins(r, q), NEW so, WalkInv(r, so),
         r.at \in Walked, q.at \in Walked \cup Late \cup {"thrown"}
  PROVE  WalkInv(q, so)
BY DueShrinks DEF WalkInv, SameCoins, Walked, Late, Settled, Branches

\* AnchorAnswers, AnchorFails: a live xNAV coin is on the chain, so it is among
\* the entries.
LEMMA AnchorMoves ==
  ASSUME Types, NEW s \in Scans, Sound(s), AnchorAnswers(s) \/ AnchorFails(s)
  PROVE  Moved(s)
<1> DEFINE r == scan[s]
<1>1. /\ r.at = "anchor" /\ UNCHANGED <<chain, source, db, partner, requested>>
  BY DEF AnchorAnswers, AnchorFails, env
<1>2. /\ r \in ScanRec /\ r.at \notin Ended \cup {"new"}
      /\ \A i \in Items : r.look[i] = "none"
      /\ LookInv(r) /\ TimeInv(r, chain) /\ WalkInv(r, source)
      /\ XInv(r, source) /\ KnewInv(r) /\ LateInv(r, source)
  BY <1>1, Idle, PassEnd
<1>3. CASE AnchorAnswers(s)
  <2> DEFINE entries == {c \in XCoins : chain[c] # "none"}
             to == IF entries = {} THEN "reap" ELSE "anchorUnspent"
             q == [r EXCEPT !.entries = entries, !.at = to]
  <2>1. scan' = [scan EXCEPT ![s] = q] /\ entries \subseteq Coins
    BY <1>3, ItemKinds DEF AnchorAnswers, Types
  <2>2. \A c \in r.live \cap XCoins : c \in entries
    BY <1>2 DEF TimeInv
  <2>3. to = "reap" => entries = {}
    OBVIOUS
  <2>4. to \in {"reap", "anchorUnspent"}
    OBVIOUS
  <2> HIDE DEF entries, to
  <2>5. /\ q \in ScanRec /\ SameCoins(r, q) /\ q.aborted = r.aborted
        /\ q.at = to /\ q.look = r.look /\ q.entries = entries
        /\ q.failures = r.failures /\ q.lost = r.lost /\ q.stale = r.stale
        /\ q.anchorUnspent = r.anchorUnspent /\ q.knew = r.knew
    BY <1>2, <2>1, <2>4 DEF ScanRec, SameCoins, Phases
  <2> HIDE DEF q
  <2>6. LookInv(q)
    BY <1>2, <2>5 DEF LookInv, SameCoins
  <2>7. WalkInv(q, source)
    BY <1>1, <1>2, <2>4, <2>5, WalkBeyond DEF Walked
  <2>8. XInv(q, source) /\ LateInv(q, source)
    BY <1>1, <1>2, <2>2, <2>3, <2>4, <2>5 DEF XInv, LateInv, SameCoins
  <2>9. KnewInv(q) /\ (Lone(s) => StakeInv(q, partner', requested'))
    BY <1>1, <1>2, <2>4, <2>5, StakeBeyond, KnewBeyond
    DEF Sound, LoneInv, Beyond
  <2>10. GoneInv(q, db')
    BY <2>4, <2>5 DEF GoneInv
  <2> QED
    BY <1>1, <1>2, <2>1, <2>4, <2>5, <2>6, <2>7, <2>8, <2>9, <2>10, PhaseMoves
    DEF TimeInv, ScanRec, SameCoins
<1>4. CASE AnchorFails(s)
  <2> DEFINE q == [r EXCEPT !.at = "reap", !.failures = TRUE]
  <2>1. scan' = [scan EXCEPT ![s] = q]
    BY <1>4 DEF AnchorFails, Types
  <2>2. /\ q \in ScanRec /\ SameCoins(r, q) /\ q.aborted = r.aborted
        /\ q.at = "reap" /\ q.look = r.look /\ q.failures
        /\ q.lost = r.lost /\ q.stale = r.stale /\ q.knew = r.knew
    BY <1>2 DEF ScanRec, SameCoins, Phases
  <2> HIDE DEF q
  <2>3. LookInv(q)
    BY <1>2, <2>2 DEF LookInv, SameCoins
  <2>4. WalkInv(q, source)
    BY <1>1, <1>2, <2>2, WalkBeyond DEF Walked
  <2>5. XInv(q, source) /\ LateInv(q, source) /\ GoneInv(q, db')
    BY <1>1, <1>2, <2>2 DEF XInv, LateInv, GoneInv
  <2>6. KnewInv(q) /\ (Lone(s) => StakeInv(q, partner', requested'))
    BY <1>1, <1>2, <2>2, StakeBeyond, KnewBeyond DEF Sound, LoneInv, Beyond
  <2> QED
    BY <1>1, <1>2, <2>1, <2>2, <2>3, <2>4, <2>5, <2>6, PhaseMoves
    DEF ScanRec
<1> QED
  BY <1>3, <1>4

\* Lookups of the transactions of what the anchor showed.
LEMMA Entered ==
  ASSUME NEW r \in ScanRec, NEW q, r.look \in [Items -> Stages],
         \A i \in Items : r.look[i] = "none", r.adding = {}, q.adding = {},
         q.at \in {"txKeys", "claim"},
         q.look = Looking(r.look, {XTx(c) : c \in r.entries}, "todo")
  PROVE  /\ q.look \in [Items -> Stages] /\ LookInv(q)
         /\ \A c \in r.entries \cap XCoins : q.look[XTx(c)] = "todo"
<1>1. /\ q.look \in [Items -> Stages]
      /\ \A i \in Items : q.look[i] \in {"none", "todo"} /\
           (q.look[i] = "todo" => \E c \in Coins : i = XTx(c))
  BY DEF Looking, ScanRec, Stages
<1>2. LookInv(q)
  BY <1>1, ItemKinds DEF LookInv, PhasesOf
<1> QED
  BY <1>1, <1>2, ItemKinds DEF Looking

\* AnchorUnspentAnswers, AnchorUnspentFails: a live coin is unspent, one that
\* was spent before is not.
LEMMA AnchorUnspentMoves ==
  ASSUME Types, NEW s \in Scans, Sound(s),
         AnchorUnspentAnswers(s) \/ AnchorUnspentFails(s)
  PROVE  Moved(s)
<1> DEFINE r == scan[s]
           Q(unspent) == FilterEntries(s, unspent)
<1>1. /\ r.at = "anchorUnspent"
      /\ UNCHANGED <<chain, source, db, partner, requested>>
  BY DEF AnchorUnspentAnswers, AnchorUnspentFails, env
<1>2. /\ r \in ScanRec /\ r.at \notin Ended \cup {"new"}
      /\ r.look \in [Items -> Stages]
      /\ \A i \in Items : r.look[i] = "none"
      /\ LookInv(r) /\ TimeInv(r, chain) /\ WalkInv(r, source)
      /\ XInv(r, source) /\ KnewInv(r) /\ LateInv(r, source)
      /\ r.adding = {}
  BY <1>1, Idle, PassEnd
<1>3. ASSUME NEW unspent \in SUBSET Coins, NEW q,
             scan' = [scan EXCEPT ![s] = q],
             \/ /\ q = FilterEntries(s, unspent)
                /\ r.live \cap XCoins \subseteq unspent
                /\ unspent \cap r.gone = {}
             \/ q = [FilterEntries(s, unspent) EXCEPT !.failures = TRUE]
      PROVE  Moved(s)
  <2>1. /\ q.look = Looking(r.look, {XTx(c) : c \in r.entries}, "todo")
        /\ q.at = "txKeys" /\ q.anchorUnspent = unspent
        /\ q.entries = r.entries /\ SameCoins(r, q) /\ q.aborted = r.aborted
        /\ q.lost = r.lost /\ q.stale = r.stale /\ q.adding = r.adding
        /\ q.knew = r.knew
        /\ \/ q.failures
           \/ /\ q.failures = r.failures
              /\ r.live \cap XCoins \subseteq unspent
              /\ unspent \cap r.gone = {}
    <3>1. CASE q = FilterEntries(s, unspent)
      <4>1. SameCoins(r, q) /\ q.failures = r.failures
        BY <1>2, <3>1 DEF FilterEntries, ScanRec, SameCoins
      <4>2. \/ r.live \cap XCoins \subseteq unspent /\ unspent \cap r.gone = {}
            \/ q.failures
        <5>1. CASE q = [FilterEntries(s, unspent) EXCEPT !.failures = TRUE]
          BY <1>2, <5>1 DEF FilterEntries, ScanRec
        <5> QED
          BY <1>3, <5>1
      <4> QED
        BY <1>2, <3>1, <4>1, <4>2 DEF FilterEntries, ScanRec
    <3>2. CASE q = [FilterEntries(s, unspent) EXCEPT !.failures = TRUE]
      BY <1>2, <3>2 DEF FilterEntries, ScanRec, SameCoins
    <3> QED
      BY <1>3, <3>1, <3>2
  <2>2. q.look \in [Items -> Stages] /\ LookInv(q)
    BY <1>2, <2>1, Entered
  <2>3. q \in ScanRec
    BY <1>2, <1>3, <2>1, <2>2 DEF FilterEntries, ScanRec, Phases
  <2>4. WalkInv(q, source)
    BY <1>1, <1>2, <2>1, WalkBeyond DEF Walked
  <2>5. XInv(q, source) /\ LateInv(q, source) /\ GoneInv(q, db')
    BY <1>1, <1>2, <2>1 DEF XInv, LateInv, GoneInv, SameCoins
  <2>6. KnewInv(q) /\ (Lone(s) => StakeInv(q, partner', requested'))
    BY <1>1, <1>2, <2>1, StakeBeyond, KnewBeyond DEF Sound, LoneInv, Beyond
  <2>7. ~q.failures => q.anchorUnspent \cap q.gone = {}
    BY <2>1 DEF SameCoins
  <2> QED
    BY <1>1, <1>2, <1>3, <2>1, <2>2, <2>3, <2>4, <2>5, <2>6, <2>7, PhaseMoves
    DEF ScanRec
<1>4. CASE AnchorUnspentAnswers(s)
  <2> DEFINE unspent == {c \in XCoins : chain[c] = "unspent"}
  <2>1. scan' = [scan EXCEPT ![s] = FilterEntries(s, unspent)]
    BY <1>4 DEF AnchorUnspentAnswers
  <2>2. /\ unspent \in SUBSET Coins /\ r.live \cap XCoins \subseteq unspent
        /\ unspent \cap r.gone = {}
    BY <1>2, ItemKinds DEF TimeInv
  <2> HIDE DEF unspent
  <2> QED
    BY <1>3, <2>1, <2>2
<1>5. CASE AnchorUnspentFails(s)
  BY <1>3, <1>5, ItemKinds DEF AnchorUnspentFails
<1> QED
  BY <1>4, <1>5

\* TxKeysDone: every entry is claimed.
LEMMA TxKeysDoneMoves ==
  ASSUME Types, NEW s \in Scans, Sound(s), TxKeysDone(s)
  PROVE  Moved(s)
<1> DEFINE r == scan[s]
           q == [r EXCEPT
                   !.at = "claim",
                   !.look = Looking(@, {XTx(c) : c \in r.entries}, "todo")]
<1>1. /\ PassDone(s, {"txKeys"}) /\ scan' = [scan EXCEPT ![s] = q]
      /\ UNCHANGED <<chain, source, db, partner, requested>>
  BY DEF TxKeysDone, Types, env
<1>2. /\ r \in ScanRec /\ r.at = "txKeys"
      /\ r.look \in [Items -> Stages]
      /\ \A i \in Items : r.look[i] = "none"
      /\ LookInv(r) /\ TimeInv(r, chain) /\ WalkInv(r, source)
      /\ XInv(r, source) /\ KnewInv(r) /\ LateInv(r, source)
      /\ r.adding = {}
  BY <1>1, PassEnd
<1>3. /\ q.look = Looking(r.look, {XTx(c) : c \in r.entries}, "todo")
      /\ SameCoins(r, q) /\ q.aborted = r.aborted /\ q.at = "claim"
      /\ q.failures = r.failures /\ q.lost = r.lost /\ q.stale = r.stale
      /\ q.anchorUnspent = r.anchorUnspent /\ q.adding = r.adding
      /\ q.entries = r.entries /\ q.knew = r.knew
  BY <1>2 DEF ScanRec, SameCoins
<1>4. /\ q.look \in [Items -> Stages] /\ LookInv(q)
      /\ \A c \in r.entries \cap XCoins : q.look[XTx(c)] = "todo"
  <2> HIDE DEF q
  <2>1. q.look \in [Items -> Stages] /\ LookInv(q)
    BY <1>2, <1>3, Entered
  <2>2. \A c \in r.entries \cap XCoins : q.look[XTx(c)] = "todo"
    BY <1>2, <1>3, ItemKinds DEF Looking
  <2> QED
    BY <2>1, <2>2
<1>5. q \in ScanRec
  BY <1>2, <1>3, <1>4 DEF ScanRec, Phases
<1> HIDE DEF q
<1>6. WalkInv(q, source)
  BY <1>2, <1>3, WalkBeyond DEF Walked
<1>7. XInv(q, source) /\ LateInv(q, source) /\ GoneInv(q, db')
  BY <1>2, <1>3, <1>4 DEF XInv, LateInv, GoneInv, SameCoins
<1>8. KnewInv(q) /\ (Lone(s) => StakeInv(q, partner', requested'))
  BY <1>1, <1>2, <1>3, StakeBeyond, KnewBeyond DEF Sound, LoneInv, Beyond
<1> QED
  BY <1>1, <1>2, <1>3, <1>4, <1>5, <1>6, <1>7, <1>8, PhaseMoves
  DEF Ended, TimeInv, ScanRec, SameCoins

-----------------------------------------------------------------------------
(* The walk.                                                               *)

\* A branch that has been walked far enough has every coin the scan owes: if
\* the scan owed a coin further on, it would hold one within the last Gap
\* addresses, and that one would have moved the end.
LEMMA BranchDone ==
  ASSUME Types, NEW s \in Scans, Sound(s), PassDone(s, Branches),
         WalkStops(s, scan[s].at), ~scan[s].failures,
         NEW c \in scan[s].live, On(c, scan[s].at), Due(scan[s], source, c)
  PROVE  Settled(scan[s], c)
<1> DEFINE r == scan[s]
           b == r.at
           S == {-1} \cup {Home[d][2] : d \in {e \in r.found : Home[e][1] = b}}
           L == LastUsed(s, b)
<1>1. /\ r \in ScanRec /\ b \in Branches /\ WalkInv(r, source)
      /\ \A d \in Coins : Looked(r, d) => Settled(r, d)
  BY PassEnd
<1>2. /\ r.live \subseteq Coins /\ r.found \subseteq Coins /\ r.upTo \in Nat
  BY <1>1 DEF ScanRec
<1>3. source = "phrase"
  BY <1>1 DEF WalkInv
<1>4. ASSUME NEW d \in r.live, On(d, b), Home[d][2] < r.upTo
      PROVE  Settled(r, d)
  BY <1>1, <1>2, <1>4 DEF WalkInv
<1>5. /\ L \in S /\ (\A x \in S : x <= L) /\ S \subseteq (-1)..Last
  <2>1. S \subseteq (-1)..Last
    BY <1>1, <1>2, HomeKinds, ItemKinds, ConstantsAssumption
  <2>2. L = Max(S)
    BY DEF LastUsed
  <2>3. S # {} /\ Last \in Nat
    BY ConstantsAssumption
  <2> HIDE DEF S, L
  <2> QED
    BY <2>1, <2>2, <2>3, Greatest
<1>6. CASE Home[c][2] < r.upTo
  BY <1>4, <1>6
<1>7. CASE ~(Home[c][2] < r.upTo)
  <2> DEFINE n == r.upTo - 1
  <2>1. L \in -1..Last /\ Last \in Nat /\ Gap \in Nat \ {0}
    BY <1>5, ConstantsAssumption
  <2>2. Home[c] \in Nav /\ Home[c][1] = b /\ Home[c][2] \in Nat
    BY ItemKinds DEF On
  <2>3. n - L >= Gap
    BY DEF WalkStops
  <2>4. n \in (Gap - 1)..(Home[c][2] - 1)
    <3> HIDE DEF L
    <3> QED
      BY <1>2, <1>7, <2>1, <2>2, <2>3
  <2>5. OwedOf(r, Home[c])
    BY <1>3, <2>2 DEF Due
  <2>6. PICK d \in r.live \ r.lost :
          Home[d][1] = b /\ Home[d][2] \in (n - Gap + 1)..n
    BY <2>2, <2>4, <2>5 DEF OwedOf
  <2>7. d \in Coins /\ Home[d] \in Nav /\ On(d, b)
    BY <1>1, <1>2, <2>6, HomeKinds DEF On
  <2>8. Home[d][2] \in Nat
    BY <2>7, ItemKinds
  <2>9. Home[d][2] < r.upTo
    BY <1>2, <2>6, <2>8
  <2>10. d \in r.found
    BY <1>4, <2>6, <2>7, <2>9 DEF Settled
  <2>11. Home[d][2] <= L
    BY <1>5, <2>6, <2>10
  <2> HIDE DEF L
  <2> QED
    BY <1>2, <2>1, <2>3, <2>6, <2>8, <2>11
<1> QED
  BY <1>6, <1>7

\* WalkEnds: what is due on the branch is settled.
LEMMA WalkEndsMoves ==
  ASSUME Types, NEW s \in Scans, Sound(s), WalkEnds(s)
  PROVE  Moved(s)
<1> DEFINE r == scan[s]
<1>1. /\ UNCHANGED <<chain, source, db, partner, requested>>
      /\ PassDone(s, Branches \cup {"existing"})
      /\ r.at = "existing" \/ (PassDone(s, Branches) /\ WalkStops(s, r.at))
  BY DEF WalkEnds, env, PassDone
<1>2. /\ r \in ScanRec /\ r.at \in Branches \cup {"existing"}
      /\ r.look \in [Items -> Stages]
      /\ \A i \in Items : r.look[i] = "none"
      /\ LookInv(r) /\ TimeInv(r, chain) /\ WalkInv(r, source)
      /\ LateInv(r, source) /\ r.adding = {}
      /\ \A c \in Coins : Looked(r, c) => Settled(r, c)
  BY <1>1, PassEnd
<1>3. ASSUME ~r.failures, NEW c \in r.live, Due(r, source, c),
             (r.at = "existing" /\ Home[c] \in Nav) \/ On(c, r.at)
      PROVE  Settled(r, c)
  <2>1. CASE r.at = "existing"
    <3>1. Home[c] \in Nav /\ source # "phrase"
      BY <1>2, <1>3, <2>1 DEF WalkInv, On, Nav, Branches
    <3>2. Looked(r, c) /\ c \in Coins
      BY <1>2, <1>3, <2>1, <3>1 DEF WalkInv, Due, ScanRec
    <3> QED
      BY <1>2, <3>2
  <2>2. CASE r.at # "existing"
    BY <1>1, <1>2, <1>3, <2>2, BranchDone
  <2> QED
    BY <2>1, <2>2
<1>4. CASE r.at = "receive"
  <2> DEFINE q == [r EXCEPT !.at = "change", !.upTo = 0]
  <2>1. scan' = [scan EXCEPT ![s] = q]
    BY <1>4 DEF WalkEnds, Types
  <2>2. /\ q \in ScanRec /\ SameCoins(r, q) /\ q.aborted = r.aborted
        /\ q.at = "change" /\ q.upTo = 0 /\ q.look = r.look
        /\ q.failures = r.failures /\ q.lost = r.lost /\ q.stale = r.stale
        /\ q.anchorUnspent = r.anchorUnspent
    BY <1>2 DEF ScanRec, SameCoins, Phases, Branches
  <2> HIDE DEF q
  <2>3. LookInv(q)
    BY <1>2, <2>2 DEF LookInv, SameCoins
  <2>4. WalkInv(q, source)
    <3>1. source = "phrase"
      BY <1>2, <1>4 DEF WalkInv, Branches
    <3>2. ASSUME ~r.failures, NEW c \in r.live
          PROVE  /\ On(c, "change") => ~(Home[c][2] < q.upTo)
                 /\ On(c, "receive") /\ Due(q, source, c) => Settled(q, c)
      BY <1>3, <1>4, <2>2, <3>2, DueShrinks, ItemKinds
      DEF On, SameCoins, Settled
    <3> QED
      BY <2>2, <3>1, <3>2 DEF WalkInv, SameCoins, Walked
  <2>5. /\ XInv(q, source) /\ KnewInv(q) /\ LateInv(q, source)
        /\ GoneInv(q, db')
    BY <1>2, <1>4, <2>2 DEF XInv, KnewInv, LateInv, GoneInv, Beyond
  <2>6. Lone(s) => StakeInv(q, partner', requested')
    BY <1>1, <1>4, <2>2 DEF Sound, LoneInv, StakeInv, Branches, Beyond
  <2> QED
    BY <1>1, <1>2, <1>4, <2>1, <2>2, <2>3, <2>4, <2>5, <2>6, PhaseMoves
    DEF Ended, TimeInv, ScanRec, SameCoins
<1>5. CASE r.at # "receive"
  <2> DEFINE q == Discover(s)
             to == IF requested THEN "stake" ELSE "discovering"
             st == IF requested THEN r.look[Keys] ELSE "todo"
  <2>1. scan' = [scan EXCEPT ![s] = q]
    BY <1>5 DEF WalkEnds, Types
  <2>2. /\ q = [r EXCEPT !.at = to, !.upTo = 0, !.look[Keys] = st]
    BY <1>2 DEF Discover, ScanRec
  <2>3. /\ to \in {"stake", "discovering"} /\ st \in {"none", "todo"}
        /\ st = "todo" => to = "discovering"
        /\ ~requested => to = "discovering" /\ st = "todo"
    BY <1>2, ItemKinds
  <2> HIDE DEF q, to, st
  <2>4. /\ q \in ScanRec /\ SameCoins(r, q) /\ q.aborted = r.aborted
        /\ q.at = to /\ q.look = [r.look EXCEPT ![Keys] = st]
        /\ q.failures = r.failures /\ q.lost = r.lost /\ q.stale = r.stale
        /\ q.anchorUnspent = r.anchorUnspent
    BY <1>2, <2>2, <2>3, ItemKinds DEF ScanRec, SameCoins, Phases, Stages
  <2>5. /\ q.look[Keys] = st
        /\ \A i \in Items : i # Keys => q.look[i] = "none"
    BY <1>2, <2>4, ItemKinds
  <2>6. LookInv(q)
    BY <1>2, <2>3, <2>4, <2>5, ItemKinds DEF LookInv, SameCoins, PhasesOf
  <2>7. WalkInv(q, source)
    <3>1. ASSUME ~r.failures, NEW c \in r.live, Home[c] \in Nav,
                 Due(q, source, c)
          PROVE  Settled(q, c)
      <4>1. Due(r, source, c)
        BY <2>4, <3>1, DueShrinks DEF SameCoins
      <4>2. Settled(r, c)
        <5>1. CASE r.at = "existing"
          BY <1>3, <3>1, <4>1, <5>1
        <5>2. CASE r.at = "change"
          <6>1. On(c, "change") \/ On(c, "receive")
            BY <3>1 DEF On, Nav, Branches
          <6> QED
            BY <1>2, <1>3, <3>1, <4>1, <5>2, <6>1 DEF WalkInv
        <5> QED
          BY <1>2, <1>5, <5>1, <5>2 DEF Branches
      <4> QED
        BY <2>4, <4>2 DEF Settled, SameCoins
    <3> QED
      BY <2>3, <2>4, <3>1 DEF WalkInv, SameCoins, Branches
  <2>8. /\ XInv(q, source) /\ KnewInv(q) /\ LateInv(q, source)
        /\ GoneInv(q, db')
    BY <1>2, <2>3, <2>4 DEF XInv, KnewInv, LateInv, GoneInv, Branches, Beyond
  <2>9. Lone(s) => StakeInv(q, partner', requested')
    BY <1>1, <1>2, <2>3, <2>4, <2>5
    DEF Sound, LoneInv, StakeInv, Branches, Beyond
  <2> QED
    BY <1>1, <1>2, <2>1, <2>3, <2>4, <2>6, <2>7, <2>8, <2>9, PhaseMoves
    DEF Ended, TimeInv, ScanRec, SameCoins, Branches
<1> QED
  BY <1>4, <1>5

\* WalkOn: the next batch is looked up.
LEMMA WalkOnMoves ==
  ASSUME Types, NEW s \in Scans, Sound(s), WalkOn(s)
  PROVE  Moved(s)
<1> DEFINE r == scan[s]
           b == r.at
           next == r.upTo + Batch
           I == {i \in Nav : i[1] = b /\ i[2] >= next - Batch /\ i[2] < next}
           q == [r EXCEPT !.upTo = next, !.look = Looking(@, I, "todo")]
<1>1. /\ UNCHANGED <<chain, source, db, partner, requested>>
      /\ PassDone(s, Branches)
  BY DEF WalkOn
<1>2. /\ r \in ScanRec /\ r.at \in Branches /\ r.look \in [Items -> Stages]
      /\ \A i \in Items : r.look[i] = "none"
      /\ LookInv(r) /\ TimeInv(r, chain) /\ WalkInv(r, source)
      /\ r.adding = {} /\ r.at \notin Ended \cup {"new"}
      /\ \A c \in Coins : Looked(r, c) => Settled(r, c)
  BY <1>1, PassEnd DEF Branches, Ended
<1>3. CASE r.aborted
  BY <1>1, <1>2, <1>3, ThrowMoves DEF WalkOn, Quiet
<1>4. CASE ~r.aborted
  <2>1. scan' = [scan EXCEPT ![s] = q]
    BY <1>4 DEF WalkOn, Types
  <2>2. /\ next \in Nat /\ next - Batch = r.upTo /\ r.upTo \in Nat
    BY <1>2, ConstantsAssumption DEF ScanRec
  <2>3. /\ Looking(r.look, I, "todo") \in [Items -> Stages]
        /\ \A i \in Items :
             Looking(r.look, I, "todo")[i] = IF i \in I THEN "todo" ELSE "none"
    BY <1>2 DEF Looking, Stages
  <2>4. I \subseteq Nav /\ \A i \in Nav :
          i[1] = b /\ i[2] < next /\ ~(i[2] < r.upTo) => i \in I
    BY <2>2, ItemKinds
  <2> HIDE DEF I, next
  <2>5. /\ q \in ScanRec /\ SameCoins(r, q) /\ q.aborted = r.aborted
        /\ q.at = b /\ q.upTo = next
        /\ q.failures = r.failures /\ q.lost = r.lost /\ q.stale = r.stale
        /\ q.anchorUnspent = r.anchorUnspent /\ q.knew = r.knew
        /\ \A i \in Items : q.look[i] = IF i \in I THEN "todo" ELSE "none"
    BY <1>2, <2>2, <2>3 DEF ScanRec, SameCoins
  <2> HIDE DEF q
  <2>6. LookInv(q)
    BY <1>2, <2>4, <2>5, ItemKinds
    DEF LookInv, SameCoins, PhasesOf, Branches
  <2>7. WalkInv(q, source)
    <3>1. ASSUME ~r.failures, NEW c \in r.live, On(c, b), Home[c][2] < next
          PROVE  Looked(q, c)
      <4>1. CASE Home[c][2] < r.upTo
        BY <1>2, <2>5, <3>1, <4>1
        DEF WalkInv, Looked, Settled, SameCoins, ScanRec
      <4>2. CASE ~(Home[c][2] < r.upTo)
        BY <2>4, <2>5, <3>1, <4>2, ItemKinds DEF On, Looked
      <4> QED
        BY <4>1, <4>2
    <3>2. ASSUME NEW c
          PROVE  /\ Due(q, source, c) => Due(r, source, c)
                 /\ Settled(r, c) => Settled(q, c)
      BY <2>5, DueShrinks DEF SameCoins, Settled
    <3>3. source = "phrase" /\ b \notin Walked \cup {"existing"}
      BY <1>2 DEF WalkInv, Walked, Branches
    <3> QED
      BY <1>2, <2>5, <3>1, <3>2, <3>3 DEF WalkInv, SameCoins
  <2>8. /\ XInv(q, source) /\ KnewInv(q) /\ LateInv(q, source)
        /\ GoneInv(q, db')
    BY <1>1, <1>2, <2>5, PassEnd
    DEF XInv, KnewInv, LateInv, GoneInv, Branches, Beyond
  <2>9. Lone(s) => StakeInv(q, partner', requested')
    BY <1>1, <1>2, <2>5 DEF Sound, LoneInv, StakeInv, Branches, Beyond
  <2> QED
    BY <1>1, <1>2, <2>1, <2>5, <2>6, <2>7, <2>8, <2>9, PhaseMoves
    DEF Ended, TimeInv, ScanRec, SameCoins, Branches
<1> QED
  BY <1>3, <1>4

\* StakeBegins: a scan that is alone has asked for the partners itself, and
\* knows them unless asking failed.
LEMMA StakeBeginsMoves ==
  ASSUME Types, NEW s \in Scans, Sound(s), StakeBegins(s)
  PROVE  Moved(s)
<1> DEFINE r == scan[s]
           st == IF partner THEN "todo" ELSE r.look[Stake]
           q == [r EXCEPT !.at = "staking", !.knew = partner,
                          !.look[Stake] = st]
<1>1. /\ UNCHANGED <<chain, source, db, partner>>
      /\ PassDone(s, {"discovering", "stake"})
  BY DEF StakeBegins, env
<1>2. /\ r \in ScanRec /\ r.at \in {"discovering", "stake"}
      /\ r.look \in [Items -> Stages]
      /\ \A i \in Items : r.look[i] = "none"
      /\ LookInv(r) /\ TimeInv(r, chain) /\ WalkInv(r, source)
      /\ r.adding = {} /\ r.at \notin Ended \cup {"new"}
  BY <1>1, PassEnd DEF Ended
<1>3. CASE partner /\ r.aborted
  BY <1>1, <1>2, <1>3, ThrowMoves DEF StakeBegins, Quiet
<1>4. CASE ~(partner /\ r.aborted)
  <2>1. scan' = [scan EXCEPT ![s] = q]
    BY <1>4 DEF StakeBegins, Types
  <2>2. /\ st \in {"none", "todo"} /\ (partner => st = "todo")
        /\ partner \in BOOLEAN
    BY <1>2, ItemKinds DEF Types
  <2> HIDE DEF st
  <2>3. /\ q \in ScanRec /\ SameCoins(r, q) /\ q.aborted = r.aborted
        /\ q.at = "staking" /\ q.look = [r.look EXCEPT ![Stake] = st]
        /\ q.failures = r.failures /\ q.lost = r.lost /\ q.stale = r.stale
        /\ q.anchorUnspent = r.anchorUnspent /\ q.knew = partner
    BY <1>2, <2>2, ItemKinds DEF ScanRec, SameCoins, Phases, Stages
  <2> HIDE DEF q
  <2>4. /\ q.look[Stake] = st
        /\ \A i \in Items : i # Stake => q.look[i] = "none"
    BY <1>2, <2>3, ItemKinds
  <2>5. LookInv(q)
    BY <1>2, <2>2, <2>3, <2>4, ItemKinds DEF LookInv, SameCoins, PhasesOf
  <2>6. WalkInv(q, source)
    BY <1>2, <2>3, WalkBeyond DEF Walked
  <2>7. /\ XInv(q, source) /\ KnewInv(q) /\ LateInv(q, source)
        /\ GoneInv(q, db')
    BY <1>1, <1>2, <2>2, <2>3, <2>4, PassEnd
    DEF XInv, KnewInv, LateInv, GoneInv, Looked, Beyond
  <2>8. Lone(s) => StakeInv(q, partner', requested')
    <3> HAVE Lone(s)
    <3>1. StakeInv(r, partner, requested) /\ partner' = partner
      BY <1>1 DEF Sound, LoneInv
    <3>2. partner \/ \A c \in r.live : Home[c] = Stake => c \in r.lost
      BY <1>2, <3>1, ItemKinds DEF StakeInv
    <3> QED
      BY <2>2, <2>3, <2>4, <3>1, <3>2
      DEF StakeInv, SameCoins, Looked, Branches, Beyond
  <2> QED
    BY <1>1, <1>2, <2>1, <2>3, <2>5, <2>6, <2>7, <2>8, PhaseMoves
    DEF TimeInv, ScanRec, SameCoins
<1> QED
  BY <1>3, <1>4

-----------------------------------------------------------------------------
(* The reap.                                                               *)

\* All lookups are over: the scan reaps, unless one failed.
LEMMA ReapBeginsMoves ==
  ASSUME Types, OrderInv, NEW s \in Scans, Sound(s), ReapBegins(s)
  PROVE  Moved(s)
<1> DEFINE r == scan[s]
           to == IF r.failures THEN "done" ELSE "reading"
           q == [r EXCEPT !.at = to]
<1>1. /\ UNCHANGED <<chain, source, db, partner, requested>>
      /\ PassDone(s, {"claim", "reap"})
  BY DEF ReapBegins, env
<1>2. /\ r \in ScanRec /\ r.at \in {"claim", "reap"}
      /\ \A i \in Items : r.look[i] = "none"
      /\ LookInv(r) /\ TimeInv(r, chain) /\ WalkInv(r, source)
      /\ XInv(r, source) /\ KnewInv(r) /\ LateInv(r, source)
      /\ r.at \notin Ended \cup {"new"}
  BY <1>1, PassEnd DEF Ended
<1>3. CASE r.aborted
  BY <1>1, <1>2, <1>3, ThrowMoves DEF ReapBegins, Quiet
<1>4. CASE ~r.aborted
  <2>1. scan' = [scan EXCEPT ![s] = q]
    BY <1>4 DEF ReapBegins, Types
  <2>2. /\ to \in {"done", "reading"}
        /\ to = "reading" => ~r.failures
        /\ to = "done" => r.failures
    OBVIOUS
  <2> HIDE DEF to
  <2>3. /\ q \in ScanRec /\ SameCoins(r, q) /\ q.aborted = r.aborted
        /\ q.at = to /\ q.look = r.look
        /\ q.failures = r.failures /\ q.lost = r.lost /\ q.stale = r.stale
        /\ q.anchorUnspent = r.anchorUnspent /\ q.knew = r.knew
    BY <1>2, <2>2 DEF ScanRec, SameCoins, Phases, Ended
  <2> HIDE DEF q
  <2>4. LookInv(q)
    BY <1>2, <2>3 DEF LookInv, SameCoins
  <2>5. WalkInv(q, source)
    BY <1>2, <2>2, <2>3, WalkBeyond DEF Walked, Late
  <2>6. ASSUME ~r.failures, NEW c \in r.live, Due(r, source, c)
        PROVE  c \in r.seen /\ c \in r.found \cup r.lost \cup XCoins
    <3>1. c \in Coins
      BY <1>2 DEF ScanRec
    <3>2. CASE Home[c] \in Nav
      BY <1>2, <2>6, <3>2 DEF WalkInv, Walked, Settled
    <3>3. CASE Home[c] = Stake
      <4>1. CASE r.knew
        BY <1>2, <2>6, <3>3, <4>1 DEF KnewInv, Beyond, Settled
      <4>2. CASE r.alone /\ c \notin r.lost
        <5>1. Lone(s)
          BY <1>2, <1>4, <4>2 DEF OrderInv, Lone, Quiet
        <5> QED
          BY <1>2, <2>6, <3>3, <4>2, <5>1
          DEF Sound, LoneInv, StakeInv, Beyond, Settled
      <4> QED
        BY <2>6, <3>3, <4>1, <4>2, ItemKinds DEF Due
    <3>4. CASE c \in XCoins
      <4>1. source = "phrase" /\ c \notin r.unread
        BY <2>6, <3>4, ItemKinds DEF Due
      <4>2. XTx(c) \in Items
        BY <3>4, ItemKinds
      <4> QED
        BY <1>2, <2>6, <3>4, <4>1, <4>2 DEF XInv
    <3> QED
      BY <3>1, <3>2, <3>3, <3>4, HomeKinds
  <2>7. XInv(q, source) /\ LateInv(q, source) /\ GoneInv(q, db')
    BY <1>2, <2>2, <2>3, <2>6, DueShrinks
    DEF XInv, LateInv, GoneInv, SameCoins
  <2>8. KnewInv(q) /\ (Lone(s) => StakeInv(q, partner', requested'))
    BY <1>1, <1>2, <2>2, <2>3, StakeBeyond, KnewBeyond
    DEF Sound, LoneInv, Beyond, Late
  <2> QED
    BY <1>1, <1>2, <1>4, <2>1, <2>2, <2>3, <2>4, <2>5, <2>7, <2>8, PhaseMoves
    DEF TimeInv, ScanRec, SameCoins
<1> QED
  BY <1>3, <1>4

\* What a step of the reap leaves of the other parts.
LEMMA LateMoves ==
  ASSUME Types, NEW s \in Scans, Sound(s),
         scan[s].at \in {"reading", "reaping"},
         NEW to \in {"reaping", "done"},
         NEW stale \in SUBSET Coins, NEW lost \in SUBSET Coins,
         scan' = [scan EXCEPT ![s] = [scan[s] EXCEPT
                    !.at = to, !.stale = stale, !.lost = lost]],
         scan[s].lost \subseteq lost,
         to = "done" => ~scan[s].aborted,
         stale \cap scan[s].seen = {}, to = "done" => stale = {},
         \A c \in scan[s].gone : scan[s].at = "reaping" /\
           c \in scan[s].stale \cup scan[s].lost => \/ c \in stale \cup lost
                                                    \/ db'[c] # "unspent",
         scan[s].at = "reading" => \A c \in scan[s].gone :
           c \notin scan[s].seen /\ db[c] = "unspent" => c \in stale \cup lost,
         UNCHANGED <<chain, source, partner, requested>>,
         \A c \in Coins : /\ db[c] # "none" => db'[c] # "none"
                          /\ db'[c] = "unspent" => db[c] = "unspent"
  PROVE  Moved(s)
<1> DEFINE r == scan[s]
           q == [r EXCEPT !.at = to, !.stale = stale, !.lost = lost]
<1>1. /\ r \in ScanRec /\ r.at \notin Ended \cup {"new"}
      /\ \A i \in Items : r.look[i] = "none"
      /\ LookInv(r) /\ TimeInv(r, chain) /\ WalkInv(r, source)
      /\ XInv(r, source) /\ LateInv(r, source) /\ ~r.failures
  <2>1. PassDone(s, {r.at}) /\ r.at \notin Ended \cup {"new"}
    BY Idle
  <2> QED
    BY <2>1, PassEnd DEF LateInv
<1>2. scan' = [scan EXCEPT ![s] = q]
  OBVIOUS
<1>3. /\ q \in ScanRec /\ SameCoins(r, q) /\ q.aborted = r.aborted
      /\ q.at = to /\ q.look = r.look /\ q.failures = r.failures
      /\ q.lost = lost /\ q.stale = stale
      /\ q.anchorUnspent = r.anchorUnspent /\ q.knew = r.knew
  BY <1>1 DEF ScanRec, SameCoins, Phases, Ended
<1> HIDE DEF q
<1>4. LookInv(q)
  BY <1>1, <1>3 DEF LookInv, SameCoins
<1>5. WalkInv(q, source) /\ XInv(q, source) /\ KnewInv(q)
  BY <1>3 DEF WalkInv, XInv, KnewInv, Walked, Branches, Beyond
<1>6. LateInv(q, source)
  <2>1. ASSUME NEW c \in q.live, Due(q, source, c)
        PROVE  c \in q.seen /\ c \in q.found \cup q.lost \cup XCoins
    <3>1. c \in r.live /\ Due(r, source, c)
      BY <1>3, <2>1, DueShrinks DEF SameCoins
    <3> QED
      BY <1>1, <1>3, <3>1 DEF LateInv, SameCoins
  <2> QED
    BY <1>1, <1>3, <2>1 DEF LateInv, SameCoins
<1>7. StakeInv(q, partner', requested')
  BY <1>3 DEF StakeInv, Branches, Beyond
<1>8. Lone(s) => GoneInv(q, db')
  <2> SUFFICES ASSUME Lone(s), NEW c \in r.gone, db'[c] = "unspent"
               PROVE  c \in stale \cup lost
    BY <1>3 DEF GoneInv, SameCoins
  <2>1. db[c] = "unspent" /\ c \notin r.seen
    BY <1>1 DEF ScanRec, TimeInv
  <2>2. GoneInv(r, db)
    BY DEF Sound, LoneInv
  <2> QED
    BY <1>1, <2>1, <2>2 DEF GoneInv
<1> QED
  BY <1>1, <1>2, <1>3, <1>4, <1>5, <1>6, <1>7, <1>8, PhaseMoves
  DEF TimeInv, ScanRec, SameCoins

\* ReapReads: what is unspent in the database and was not seen is stale.
LEMMA ReapReadsMoves ==
  ASSUME Types, NEW s \in Scans, Sound(s), ReapReads(s)
  PROVE  Moved(s)
<1> DEFINE r == scan[s]
           stale == {c \in Coins : db[c] = "unspent"} \ r.seen
<1>1. /\ r.at = "reading" /\ r \in ScanRec
      /\ UNCHANGED <<chain, source, db, partner, requested>>
      /\ scan' = [scan EXCEPT ![s] = [r EXCEPT !.at = "reaping",
                                               !.stale = stale]]
  BY DEF ReapReads, Types, env
<1>2. scan' = [scan EXCEPT ![s] = [r EXCEPT
                 !.at = "reaping", !.stale = stale, !.lost = r.lost]]
  BY <1>1 DEF ScanRec
<1>3. /\ stale \in SUBSET Coins /\ r.lost \in SUBSET Coins
      /\ stale \cap r.seen = {}
      /\ \A c \in r.gone : c \notin r.seen /\ db[c] = "unspent" => c \in stale
  BY <1>1 DEF ScanRec
<1> HIDE DEF stale
<1> QED
  BY <1>1, <1>2, <1>3, LateMoves

\* Reap: one coin less is stale, and it is not unspent any more.
LEMMA ReapMoves ==
  ASSUME Types, NEW s \in Scans, Sound(s), NEW c \in Coins, Reap(s, c)
  PROVE  Moved(s)
<1> DEFINE r == scan[s]
           stale == r.stale \ {c}
<1>1. /\ r.at = "reaping" /\ r \in ScanRec /\ c \in r.stale
      /\ UNCHANGED <<chain, source, partner, requested>>
      /\ scan' = [scan EXCEPT ![s] = [r EXCEPT !.stale = stale]]
      /\ LateInv(r, source)
  BY DEF Reap, Types, env, Sound, ScanInv
<1>2. scan' = [scan EXCEPT ![s] = [r EXCEPT
                 !.at = "reaping", !.stale = stale, !.lost = r.lost]]
  BY <1>1 DEF ScanRec
<1>3. /\ \A d \in Coins : d # c => db'[d] = db[d]
      /\ db'[c] # "unspent" /\ (db[c] # "none" => db'[c] # "none")
  BY DEF Reap, Types
<1>4. /\ stale \in SUBSET Coins /\ r.lost \in SUBSET Coins
      /\ stale \cap r.seen = {}
      /\ \A d \in r.gone : d \in r.stale \cup r.lost =>
           d \in stale \cup r.lost \/ db'[d] # "unspent"
  BY <1>1, <1>3 DEF ScanRec, LateInv
<1>5. \A d \in Coins : /\ db[d] # "none" => db'[d] # "none"
                       /\ db'[d] = "unspent" => db[d] = "unspent"
  BY <1>3
<1>6. /\ \A d \in r.gone : r.at = "reading" /\ d \notin r.seen
           /\ db[d] = "unspent" => d \in stale \cup r.lost
      /\ \A d \in r.gone : r.at = "reaping" /\ d \in r.stale \cup r.lost =>
           d \in stale \cup r.lost \/ db'[d] # "unspent"
      /\ r.at \in {"reading", "reaping"} /\ r.lost \subseteq r.lost
  BY <1>1, <1>4
<1> HIDE DEF stale
<1> QED
  BY <1>1, <1>2, <1>4, <1>5, <1>6, LateMoves

\* ReapSwallows: what could not be marked is lost.
LEMMA ReapSwallowsMoves ==
  ASSUME Types, NEW s \in Scans, Sound(s), ReapSwallows(s)
  PROVE  Moved(s)
<1> DEFINE r == scan[s]
<1>1. /\ r \in ScanRec /\ LateInv(r, source)
      /\ UNCHANGED <<chain, source, db, partner, requested>>
  BY DEF ReapSwallows, Types, env, Sound, ScanInv
<1>2. CASE /\ r.at = "reading"
           /\ scan' = [scan EXCEPT ![s].at = "reaping",
                                   ![s].lost = @ \cup {c \in Coins :
                                                         db[c] = "unspent"}]
  <2> DEFINE lost == r.lost \cup {c \in Coins : db[c] = "unspent"}
  <2>1. r.stale = {}
    BY <1>1, <1>2 DEF LateInv
  <2>2. scan' = [scan EXCEPT ![s] = [r EXCEPT !.at = "reaping",
                                              !.lost = lost]]
    BY <1>2 DEF Types
  <2>3. scan' = [scan EXCEPT ![s] = [r EXCEPT
                   !.at = "reaping", !.stale = {}, !.lost = lost]]
    BY <1>1, <2>1, <2>2 DEF ScanRec
  <2>4. /\ lost \in SUBSET Coins /\ r.lost \subseteq lost
        /\ \A c \in r.gone : db[c] = "unspent" => c \in lost
    BY <1>1 DEF ScanRec
  <2>5. /\ {} \in SUBSET Coins /\ {} \cap r.seen = {}
        /\ \A c \in r.gone : r.at = "reading" /\ c \notin r.seen
             /\ db[c] = "unspent" => c \in {} \cup lost
        /\ \A c \in r.gone : r.at = "reaping" /\ c \in r.stale \cup r.lost =>
             c \in {} \cup lost \/ db'[c] # "unspent"
    BY <1>2, <2>4
  <2> HIDE DEF lost
  <2> QED
    BY <1>1, <1>2, <2>3, <2>4, <2>5, LateMoves
<1>3. ASSUME r.at = "reaping", NEW c \in r.stale,
             scan' = [scan EXCEPT ![s].stale = @ \ {c},
                                  ![s].lost = @ \cup {c}]
      PROVE  Moved(s)
  <2> DEFINE stale == r.stale \ {c}
             lost == r.lost \cup {c}
  <2>1. scan' = [scan EXCEPT ![s] = [r EXCEPT !.stale = stale,
                                              !.lost = lost]]
    BY <1>3 DEF Types
  <2>2. scan' = [scan EXCEPT ![s] = [r EXCEPT
                   !.at = "reaping", !.stale = stale, !.lost = lost]]
    BY <1>1, <1>3, <2>1 DEF ScanRec
  <2>3. /\ stale \in SUBSET Coins /\ lost \in SUBSET Coins
        /\ r.lost \subseteq lost /\ stale \cap r.seen = {}
        /\ r.stale \cup r.lost \subseteq stale \cup lost
    BY <1>1, <1>3 DEF ScanRec, LateInv
  <2> HIDE DEF stale, lost
  <2> QED
    BY <1>1, <1>3, <2>2, <2>3, LateMoves
<1> QED
  BY <1>2, <1>3 DEF ReapSwallows

\* Finish: nothing is left to mark.
LEMMA FinishMoves ==
  ASSUME Types, NEW s \in Scans, Sound(s), Finish(s)
  PROVE  Moved(s)
<1> DEFINE r == scan[s]
<1>1. /\ r \in ScanRec /\ r.at = "reaping" /\ r.stale = {}
      /\ UNCHANGED <<chain, source, db, partner, requested>>
  BY DEF Finish, Types, env
<1>2. CASE r.aborted
  BY <1>1, <1>2, ThrowMoves DEF Finish, Quiet, Ended
<1>3. CASE ~r.aborted
  <2>1. scan' = [scan EXCEPT ![s] = [r EXCEPT !.at = "done"]]
    BY <1>3 DEF Finish, Types
  <2>2. scan' = [scan EXCEPT ![s] = [r EXCEPT
                   !.at = "done", !.stale = {}, !.lost = r.lost]]
    BY <1>1, <2>1 DEF ScanRec
  <2>3. r.lost \in SUBSET Coins
    BY <1>1 DEF ScanRec
  <2> QED
    BY <1>1, <1>3, <2>2, <2>3, LateMoves
<1> QED
  BY <1>2, <1>3

\* Deriving the next addresses throws.
LEMMA WalkFailsMoves ==
  ASSUME Types, NEW s \in Scans, Sound(s), PassDone(s, Branches), StartFails(s)
  PROVE  Moved(s)
<1> DEFINE r == scan[s]
           q == [r EXCEPT !.at = "thrown"]
<1>1. /\ r \in ScanRec /\ r.at \in Branches
      /\ \A i \in Items : r.look[i] = "none"
      /\ LookInv(r) /\ TimeInv(r, chain) /\ r.adding = {}
      /\ UNCHANGED <<chain, source, db, partner, requested>>
  BY PassEnd DEF StartFails, env
<1>2. scan' = [scan EXCEPT ![s] = q]
  BY <1>1 DEF StartFails, Types, Branches
<1>3. /\ q \in ScanRec /\ SameCoins(r, q) /\ q.aborted = r.aborted
      /\ q.at = "thrown" /\ q.look = r.look /\ q.failures = r.failures
      /\ q.lost = r.lost /\ q.stale = r.stale
      /\ q.anchorUnspent = r.anchorUnspent
  BY <1>1 DEF ScanRec, SameCoins, Phases, Ended
<1> HIDE DEF q
<1>4. LookInv(q)
  BY <1>1, <1>3 DEF LookInv, SameCoins
<1>5. /\ WalkInv(q, source) /\ XInv(q, source) /\ KnewInv(q)
      /\ LateInv(q, source)
  BY <1>3 DEF WalkInv, XInv, KnewInv, LateInv, Walked, Branches, Beyond
<1>6. StakeInv(q, partner', requested') /\ GoneInv(q, db')
  BY <1>3 DEF StakeInv, GoneInv, Branches, Beyond
<1> QED
  BY <1>1, <1>2, <1>3, <1>4, <1>5, <1>6, PhaseMoves
  DEF TimeInv, ScanRec, SameCoins, Ended, Branches

-----------------------------------------------------------------------------
(* The scans together.                                                     *)

\* What is left of a scan that another has taken the place of.
LEMMA OverFields ==
  ASSUME Types, NEW t \in Scans, NEW n, n = Over(t)
  PROVE  /\ n \in ScanRec /\ n.at = scan[t].at /\ n.aborted = scan[t].aborted
         /\ ~n.alone /\ \A i \in Items : n.look[i] = "none"
         /\ n.live = {} /\ n.gone = {} /\ n.adding = {} /\ n.stale = {}
         /\ n.seen = {} /\ n.anchorUnspent = {}
<1> DEFINE at == scan[t].at
           aborted == scan[t].aborted
           blank == [i \in Items |-> "none"]
<1>1. n = [NewScan EXCEPT !.at = at, !.aborted = aborted]
  BY DEF Over
<1>2. at \in Phases /\ aborted \in BOOLEAN
  BY DEF Types, ScanRec
<1>3. /\ blank \in [Items -> Stages] /\ \A i \in Items : blank[i] = "none"
      /\ NewScan.look = blank
      /\ FALSE \in BOOLEAN /\ 0 \in Nat /\ {} \in SUBSET Coins
  BY DEF Stages, NewScan
<1>4. n = [at |-> at, aborted |-> aborted, look |-> blank, upTo |-> 0,
           seen |-> {}, failures |-> FALSE, adding |-> {}, found |-> {},
           entries |-> {}, anchorUnspent |-> {}, stale |-> {},
           live |-> {}, gone |-> {}, lost |-> {}, unread |-> {},
           alone |-> FALSE, knew |-> FALSE]
  <2> HIDE DEF at, aborted
  <2> QED
    BY <1>1, <1>2 DEF NewScan
<1> HIDE DEF at, aborted, blank
<1>5. n \in ScanRec
  BY <1>2, <1>3, <1>4 DEF ScanRec
<1> QED
  BY <1>3, <1>4, <1>5 DEF at, aborted

\* The scans before s have begun, those after it have not.
LEMMA InTurn ==
  ASSUME OrderInv, NEW s \in Scans, MayStart(s)
  PROVE  /\ \A t \in Scans : t < s => scan[t].at # "new"
         /\ \A t \in Scans : s < t => scan[t].at = "new" /\ ~scan[t].alone
         /\ scan[s].at = "new" /\ ~scan[s].alone
         /\ \A t \in Scans : t < s => t + 1 \in Scans
         /\ \A t \in Scans : t \in Nat \ {0}
<1>1. \A t \in Scans : t \in Nat \ {0} /\ 1..t \subseteq Scans
  BY ConstantsAssumption
<1>2. scan[s].at = "new" /\ ~scan[s].alone
  BY DEF MayStart, OrderInv
<1>3. \A t \in Scans : s < t => scan[t].at = "new" /\ ~scan[t].alone
  BY <1>2 DEF OrderInv
<1>4. ASSUME NEW t \in Scans, t < s
      PROVE  t + 1 \in Scans /\ scan[t].at # "new"
  <2>1. t \in Nat \ {0} /\ s \in Nat \ {0} /\ 1..s \subseteq Scans
    BY <1>1
  <2>2. t + 1 \in 1..s /\ s - 1 \in 1..s
    BY <1>4, <2>1
  <2>3. t + 1 \in Scans /\ s - 1 \in Scans
    BY <2>1, <2>2
  <2>4. scan[s - 1].at # "new" /\ (t = s - 1 \/ t < s - 1)
    BY <1>4, <2>1, <2>3 DEF MayStart
  <2> QED
    BY <2>3, <2>4 DEF OrderInv
<1> QED
  BY <1>1, <1>2, <1>3, <1>4

\* A scan begins, or ends before it has begun.
LEMMA Begun ==
  ASSUME Types, OrderInv, ScansInv, NEW s \in Scans, MayStart(s),
         UNCHANGED <<chain, source>>,
         scan' \in [Scans -> ScanRec],
         scan'[s].at \notin {"new", "done"},
         scan'[s].alone => \A u \in Scans : Quiet(u),
         \A t \in Scans : t # s =>
           \/ scan'[t] = scan[t]
           \/ t = s - 1 /\ Quiet(t) /\ scan'[t] = Over(t),
         ScanInv(scan'[s], chain, source),
         scan'[s].alone => LoneInv(scan'[s], db', partner', requested')
  PROVE  OrderInv' /\ ScansInv'
<1>1. /\ \A t \in Scans : t < s => scan[t].at # "new"
      /\ \A t \in Scans : s < t => scan[t].at = "new" /\ ~scan[t].alone
      /\ scan[s].at = "new" /\ ~scan[s].alone
      /\ \A t \in Scans : t < s => t + 1 \in Scans
      /\ \A t \in Scans : t \in Nat \ {0}
  BY InTurn
<1>2. ASSUME NEW t \in Scans, scan'[t] = Over(t)
      PROVE  /\ scan'[t].at = scan[t].at /\ scan'[t].aborted = scan[t].aborted
             /\ ~scan'[t].alone /\ \A i \in Items : scan'[t].look[i] = "none"
             /\ scan'[t].live = {} /\ scan'[t].gone = {}
             /\ scan'[t].adding = {} /\ scan'[t].stale = {}
             /\ scan'[t].seen = {} /\ scan'[t].anchorUnspent = {}
  BY <1>2, OverFields
<1>3. ASSUME NEW t \in Scans, t # s
      PROVE  /\ scan'[t].at = scan[t].at /\ scan'[t].aborted = scan[t].aborted
             /\ scan'[t].alone => scan[t].alone
             /\ Quiet(t) => Quiet(t)'
             /\ ScanInv(scan'[t], chain, source)
  <2>1. CASE scan'[t] = scan[t]
    BY <2>1 DEF Quiet, InFlight, Lookups, ScansInv
  <2>2. CASE Quiet(t) /\ scan'[t] = Over(t)
    <3>1. Quiet(t)'
      BY <1>2, <2>2 DEF Quiet, InFlight, Lookups
    <3>2. scan'[t].at \in Ended \cup {"new"}
      BY <1>2, <2>2 DEF Quiet
    <3>3. LookInv(scan'[t])
      BY <1>2, <2>2 DEF LookInv
    <3>4. ScanInv(scan'[t], chain, source)
      BY <1>2, <2>2, <3>2, <3>3
      DEF ScanInv, TimeInv, WalkInv, XInv, KnewInv, LateInv, Ended, Branches,
          Beyond
    <3> QED
      BY <1>2, <2>2, <3>1, <3>4
  <2> QED
    BY <1>3, <2>1, <2>2
<1>4. ASSUME NEW t \in Scans, Lone(t)'
      PROVE  t = s
  <2> SUFFICES ASSUME t # s
               PROVE  FALSE
    OBVIOUS
  <2>1. scan[t].alone /\ (t + 1 \in Scans => scan'[t + 1].at = "new")
    BY <1>3, <1>4 DEF Lone
  <2>2. t < s
    BY <1>1, <2>1
  <2>3. t + 1 \in Scans /\ (t + 1 = s \/ t + 1 < s)
    BY <1>1, <2>2
  <2> QED
    BY <1>1, <1>3, <2>1, <2>3
<1>5. ScansInv'
  <2>1. \A t \in Scans : ScanInv(scan'[t], chain, source)
    BY <1>3
  <2>2. \A t \in Scans :
          Lone(t)' => LoneInv(scan'[t], db', partner', requested')
    BY <1>4 DEF Lone
  <2> QED
    BY <2>1, <2>2 DEF ScansInv
<1>6. OrderInv'
  <2>1. ASSUME NEW t \in Scans, NEW u \in Scans, t < u, scan'[u].at # "new"
        PROVE  scan'[t].at # "new"
    BY <1>1, <1>3, <2>1
  <2>2. ASSUME NEW t \in Scans, t + 1 \in Scans, scan'[t + 1].at # "new"
        PROVE  scan'[t].aborted \/ Quiet(t)'
    <3>1. CASE t + 1 = s
      <4>1. t = s - 1 /\ t # s
        BY <1>1, <3>1
      <4> QED
        BY <1>3, <4>1 DEF MayStart
    <3>2. CASE t + 1 # s
      <4>1. scan[t + 1].at # "new" /\ t # s
        BY <1>1, <1>3, <2>2, <3>2
      <4> QED
        BY <1>3, <2>2, <4>1 DEF OrderInv
    <3> QED
      BY <3>1, <3>2
  <2>3. ASSUME NEW t \in Scans
        PROVE  /\ scan'[t].alone => scan'[t].at # "new"
               /\ Lone(t)' => \A u \in Scans : u # t => Quiet(u)'
               /\ scan'[t].at = "done" => ~scan'[t].aborted
    BY <1>3, <1>4 DEF OrderInv, Lone
  <2> QED
    BY <2>1, <2>2, <2>3 DEF OrderInv
<1> QED
  BY <1>5, <1>6

\* Start: nothing has been looked up, and what is unspent is live.
LEMMA StartKeeps ==
  ASSUME Types, OrderInv, ScansInv, NEW s \in Scans, Start(s)
  PROVE  scan' \in [Scans -> ScanRec] /\ OrderInv' /\ ScansInv'
<1> DEFINE at == IF source = "phrase" THEN "receive" ELSE "existing"
           look == IF source = "phrase" THEN [i \in Items |-> "none"]
                   ELSE [i \in Items |-> IF i \in Imported THEN "todo"
                                                         ELSE "none"]
           live == {c \in Coins : chain[c] = "unspent"}
           gone == {c \in Coins : chain[c] = "spent"}
           alone == \A u \in Scans : Quiet(u)
           n == scan'[s]
<1>1. MayStart(s) /\ UNCHANGED <<chain, source, partner>> /\ requested' = FALSE
  BY DEF Start, env
<1>2. /\ look \in [Items -> Stages]
      /\ \A i \in Items : look[i] \in {"none", "todo"}
      /\ \A i \in Items : look[i] = "todo" => source # "phrase" /\ i \in Nav
      /\ source # "phrase" => \A i \in Imported : look[i] = "todo"
  BY ConstantsAssumption, ItemKinds DEF Stages
<1>3. /\ n = [NewScan EXCEPT !.at = at, !.look = look, !.live = live,
                               !.gone = gone, !.alone = alone]
      /\ \A t \in Scans : t # s =>
           \/ scan'[t] = scan[t]
           \/ t = s - 1 /\ Quiet(t) /\ scan'[t] = Over(t)
      /\ scan' = [t \in Scans |-> scan'[t]]
  <2> DEFINE m == [NewScan EXCEPT
                     !.at = at,
                     !.look = IF source = "phrase" THEN @
                              ELSE Looking(@, Imported, "todo"),
                     !.live = live, !.gone = gone, !.alone = alone]
  <2>1. scan' = [t \in Scans |-> CASE t = s -> m
                                   [] t = s - 1 /\ Quiet(t) -> Over(t)
                                   [] OTHER -> scan[t]]
    BY Zenon DEF Start
  <2>2. look = IF source = "phrase" THEN NewScan.look
               ELSE Looking(NewScan.look, Imported, "todo")
    BY DEF NewScan, Looking
  <2>3. m = [NewScan EXCEPT !.at = at, !.look = look, !.live = live,
                            !.gone = gone, !.alone = alone]
    <3> HIDE DEF at, live, gone, alone, look
    <3> QED
      BY <2>2, Zenon
  <2> HIDE DEF m
  <2>4. /\ scan'[s] = m
        /\ \A t \in Scans : t # s =>
             \/ scan'[t] = scan[t]
             \/ t = s - 1 /\ Quiet(t) /\ scan'[t] = Over(t)
    <3>1. s \in Int /\ \A t \in Scans : t \in Int
      BY ConstantsAssumption
    <3> QED
      BY <2>1, <3>1
  <2> QED
    BY <2>1, <2>3, <2>4
<1>4. /\ at \in Phases /\ live \in SUBSET Coins /\ gone \in SUBSET Coins
      /\ alone \in BOOLEAN /\ FALSE \in BOOLEAN
  BY DEF Phases, Branches
<1>10. /\ at \in {"receive", "existing"}
       /\ at = "receive" <=> source = "phrase"
       /\ \A c \in live : chain[c] = "unspent"
       /\ \A c \in gone : chain[c] = "spent"
       /\ live \subseteq Coins
  OBVIOUS
<1> HIDE DEF at, look, live, gone, alone
<1>5. /\ n \in ScanRec /\ n.at = at /\ n.look = look /\ n.upTo = 0
      /\ ~n.failures /\ n.seen = {} /\ n.adding = {} /\ n.found = {}
      /\ n.anchorUnspent = {} /\ n.stale = {}
      /\ n.live = live /\ n.gone = gone /\ n.lost = {}
      /\ n.alone = alone
  <2> DEFINE no == FALSE
  <2>1. n = [at |-> at, aborted |-> no, look |-> look, upTo |-> 0,
             seen |-> {}, failures |-> no, adding |-> {}, found |-> {},
             entries |-> {}, anchorUnspent |-> {}, stale |-> {},
             live |-> live, gone |-> gone, lost |-> {}, unread |-> {},
             alone |-> alone, knew |-> no]
    <3> HIDE DEF n
    <3> QED
      BY <1>3 DEF NewScan
  <2>2. no \in BOOLEAN /\ ~no /\ 0 \in Nat /\ {} \in SUBSET Coins
    OBVIOUS
  <2> HIDE DEF n, no
  <2>3. n \in ScanRec
    BY <1>2, <1>4, <2>1, <2>2 DEF ScanRec
  <2> QED
    BY <2>1, <2>2, <2>3
<1>6. scan' \in [Scans -> ScanRec]
  <2>1. \A t \in Scans : scan'[t] \in ScanRec
    BY <1>3, <1>5, OverFields DEF Types
  <2> QED
    BY <1>3, <2>1
<1>11. ScanInv(n, chain, source)
  <2>1. LookInv(n)
    BY <1>2, <1>5, <1>10 DEF LookInv, PhasesOf
  <2>2. TimeInv(n, chain)
    BY <1>5, <1>10 DEF TimeInv
  <2>3. WalkInv(n, source)
    BY <1>2, <1>5, <1>10, ItemKinds
    DEF WalkInv, Branches, On, Looked, Walked
  <2>4. XInv(n, source) /\ KnewInv(n) /\ LateInv(n, source)
    BY <1>5, <1>10 DEF XInv, KnewInv, LateInv, Beyond
  <2> QED
    BY <2>1, <2>2, <2>3, <2>4 DEF ScanInv
<1>12. LoneInv(n, db', partner', requested')
  BY <1>1, <1>5, <1>10 DEF LoneInv, StakeInv, DbInv, GoneInv, Beyond
<1>13. alone => \A u \in Scans : Quiet(u)
  BY DEF alone
<1>14. n.at \notin {"new", "done"} /\ (n.alone => \A u \in Scans : Quiet(u))
  BY <1>5, <1>10, <1>13
<1> QED
  BY <1>1, <1>3, <1>6, <1>11, <1>12, <1>14, Begun

\* StartFails: the scan ends before it has begun.
LEMMA StartFailsKeeps ==
  ASSUME Types, OrderInv, ScansInv, NEW s \in Scans, MayStart(s), StartFails(s)
  PROVE  scan' \in [Scans -> ScanRec] /\ OrderInv' /\ ScansInv'
<1> DEFINE r == scan[s]
           q == [r EXCEPT !.at = "nothing"]
<1>1. /\ r \in ScanRec /\ r.at = "new" /\ ~r.alone /\ ScanInv(r, chain, source)
      /\ UNCHANGED <<chain, source>>
  BY InTurn DEF Types, ScansInv, StartFails, env
<1>2. scan' = [scan EXCEPT ![s] = q]
  BY <1>1 DEF StartFails, Types
<1>3. /\ q \in ScanRec /\ SameCoins(r, q) /\ q.at = "nothing"
      /\ q.look = r.look /\ q.failures = r.failures /\ q.stale = r.stale
      /\ q.anchorUnspent = r.anchorUnspent
  BY <1>1 DEF ScanRec, SameCoins, Phases, Ended
<1> HIDE DEF q
<1>4. \A i \in Items : r.look[i] = "none"
  BY <1>1 DEF ScanInv, LookInv, PhasesOf, Branches
<1>5. LookInv(q) /\ TimeInv(q, chain)
  BY <1>1, <1>3, <1>4 DEF ScanInv, LookInv, TimeInv, SameCoins
<1>6. /\ WalkInv(q, source) /\ XInv(q, source) /\ KnewInv(q)
      /\ LateInv(q, source)
  BY <1>1, <1>3
  DEF ScanInv, WalkInv, XInv, KnewInv, LateInv, Walked, Branches, Beyond
<1>7. /\ scan' \in [Scans -> ScanRec] /\ scan'[s] = q
      /\ \A t \in Scans : t # s => scan'[t] = scan[t]
  BY <1>2, <1>3 DEF Types
<1> QED
  BY <1>1, <1>3, <1>5, <1>6, <1>7, Begun DEF ScanInv, SameCoins

\* A scan goes on: the others are as they were, and none of them is alone.
LEMMA MovedKeeps ==
  ASSUME Types, OrderInv, ScansInv, NEW s \in Scans, Moved(s)
  PROVE  scan' \in [Scans -> ScanRec] /\ OrderInv' /\ ScansInv'
<1>1. /\ \A t \in Scans : t # s => /\ scan'[t] = scan[t]
                                   /\ Quiet(t)' = Quiet(t)
      /\ \A t \in Scans : /\ scan'[t].at = "new" <=> scan[t].at = "new"
                          /\ scan'[t].alone = scan[t].alone
                          /\ Lone(t)' = Lone(t)
  BY DEF Moved, Quiet, InFlight, Lookups, Lone
<1>2. ASSUME NEW t \in Scans, Lone(t)
      PROVE  t = s
  BY <1>2 DEF Moved, OrderInv
<1>3. ScansInv'
  BY <1>1, <1>2 DEF ScansInv, Moved
<1>4. OrderInv'
  <2>1. ASSUME NEW t \in Scans, t + 1 \in Scans, scan'[t + 1].at # "new"
        PROVE  scan'[t].aborted \/ Quiet(t)'
    BY <1>1, <2>1 DEF Moved, OrderInv
  <2>2. ASSUME NEW t \in Scans, NEW u \in Scans, t < u, scan'[u].at # "new"
        PROVE  scan'[t].at # "new"
    BY <1>1, <2>2 DEF OrderInv
  <2>3. ASSUME NEW t \in Scans
        PROVE  /\ scan'[t].alone => scan'[t].at # "new"
               /\ Lone(t)' => \A u \in Scans : u # t => Quiet(u)'
               /\ scan'[t].at = "done" => ~scan'[t].aborted
    BY <1>1, <1>2 DEF Moved, OrderInv
  <2> QED
    BY <2>1, <2>2, <2>3 DEF OrderInv
<1> QED
  BY <1>3, <1>4 DEF Moved

-----------------------------------------------------------------------------
(* The chain, navcoin-js.                                                  *)

\* Appear: a coin that is new is not live in any scan.
LEMMA AppearKeeps ==
  ASSUME Types, OrderInv, ScansInv, NEW c \in Coins, Appear(c)
  PROVE  scan' \in [Scans -> ScanRec] /\ OrderInv' /\ ScansInv'
<1>1. /\ chain[c] = "none"
      /\ UNCHANGED <<scan, source, db, partner, requested>>
      /\ \A d \in Coins : d # c => chain'[d] = chain[d]
  BY DEF Appear, Types
<1>2. OrderInv'
  BY <1>1 DEF OrderInv, Lone, Quiet, InFlight, Lookups
<1>3. ASSUME NEW s \in Scans
      PROVE  ScanInv(scan[s], chain', source)
  <2>1. TimeInv(scan[s], chain) /\ scan[s] \in ScanRec
    BY DEF ScansInv, ScanInv, Types
  <2>2. TimeInv(scan[s], chain')
    BY <1>1, <2>1 DEF TimeInv, ScanRec
  <2> QED
    BY <2>2 DEF ScansInv, ScanInv
<1>4. ScansInv'
  BY <1>1, <1>3 DEF ScansInv, Lone
<1> QED
  BY <1>1, <1>2, <1>4 DEF Types

\* SpendOnChain: a coin that is spent is not owed any more.
LEMMA SpendOnChainKeeps ==
  ASSUME Types, OrderInv, ScansInv, NEW c \in Coins, SpendOnChain(c)
  PROVE  scan' \in [Scans -> ScanRec] /\ OrderInv' /\ ScansInv'
<1>1. /\ chain[c] = "unspent" /\ UNCHANGED <<source, db, partner, requested>>
      /\ \A d \in Coins : d # c => chain'[d] = chain[d]
      /\ scan' = [s \in Scans |-> [scan[s] EXCEPT !.live = @ \ {c}]]
  BY DEF SpendOnChain, Types
<1>2. ASSUME NEW s \in Scans
      PROVE  /\ scan[s] \in ScanRec /\ scan'[s] \in ScanRec
             /\ SamePhase(scan[s], scan'[s])
             /\ scan'[s].aborted = scan[s].aborted
             /\ scan'[s].look = scan[s].look
             /\ scan'[s].seen = scan[s].seen /\ scan'[s].found = scan[s].found
             /\ scan'[s].adding = scan[s].adding
             /\ scan'[s].lost = scan[s].lost
             /\ scan'[s].live = scan[s].live \ {c}
             /\ scan'[s].failures = scan[s].failures
  BY <1>1 DEF Types, ScanRec, SamePhase
<1>3. /\ scan' \in [Scans -> ScanRec]
      /\ \A s \in Scans : /\ Quiet(s)' = Quiet(s) /\ Lone(s)' = Lone(s)
                          /\ scan'[s].at = scan[s].at
                          /\ scan'[s].aborted = scan[s].aborted
                          /\ scan'[s].alone = scan[s].alone
  <2>1. \A s \in Scans : /\ scan'[s].at = scan[s].at
                         /\ scan'[s].aborted = scan[s].aborted
                         /\ scan'[s].alone = scan[s].alone
                         /\ scan'[s].look = scan[s].look
    BY <1>2 DEF SamePhase
  <2>2. scan' \in [Scans -> ScanRec]
    BY <1>1, <1>2
  <2> QED
    BY <2>1, <2>2 DEF Quiet, InFlight, Lookups, Lone
<1>4. OrderInv'
  BY <1>3 DEF OrderInv
<1>5. ASSUME NEW s \in Scans
      PROVE  /\ ScanInv(scan'[s], chain', source')
             /\ Lone(s)' => LoneInv(scan'[s], db', partner', requested')
  <2> DEFINE r == scan[s]
             q == scan'[s]
  <2>1. ScanInv(r, chain, source) /\ LookInv(r) /\ TimeInv(r, chain)
    BY DEF ScansInv, ScanInv
  <2>2. LookInv(q)
    BY <1>2, <2>1 DEF LookInv, SamePhase
  <2>3. Advances(r, q)
    BY <1>2 DEF Advances, Looked, Claimed, SamePhase
  <2>4. GoesOn(r, q)
    BY <1>2, <2>2, <2>3 DEF GoesOn
  <2>5. TimeInv(q, chain')
    <3>1. q.gone = r.gone /\ q.anchorUnspent = r.anchorUnspent
      BY <1>2 DEF SamePhase
    <3>2. r.live \subseteq Coins /\ r.gone \subseteq Coins
      BY <1>2 DEF ScanRec
    <3>3. \A d \in q.live : chain'[d] = "unspent"
      BY <1>1, <1>2, <2>1, <3>2 DEF TimeInv
    <3>4. \A d \in q.gone : chain'[d] = "spent"
      BY <1>1, <2>1, <3>1, <3>2 DEF TimeInv
    <3> QED
      BY <1>2, <2>1, <3>1, <3>3, <3>4 DEF TimeInv
  <2>6. ScanInv(q, chain', source')
    BY <1>1, <1>2, <2>1, <2>2, <2>4, <2>5, WalkGoesOn, XGoesOn, KnewGoesOn,
       LateGoesOn
    DEF ScanInv
  <2>7. ASSUME Lone(s)
        PROVE  LoneInv(q, db', partner', requested')
    <3>1. /\ StakeInv(r, partner, requested) /\ DbInv(r, db) /\ GoneInv(r, db)
      BY <2>7 DEF ScansInv, LoneInv
    <3>2. partner \in BOOLEAN /\ q.look[Keys] = r.look[Keys]
      BY <1>2 DEF Types
    <3>3. StakeInv(q, partner', requested')
      BY <1>1, <1>2, <2>4, <3>1, <3>2, StakeGoesOn
    <3>4. DbInv(q, db') /\ GoneInv(q, db')
      BY <1>1, <1>2, <2>4, <3>1, GoneGoesOn DEF DbInv
    <3> QED
      BY <3>3, <3>4 DEF LoneInv
  <2> QED
    BY <1>3, <2>6, <2>7
<1> QED
  BY <1>3, <1>4, <1>5 DEF ScansInv

\* LibraryRecords: what navcoin-js writes is what is on the chain.
LEMMA LibraryRecordsKeeps ==
  ASSUME Types, OrderInv, ScansInv, NEW c \in Coins, LibraryRecords(c)
  PROVE  scan' \in [Scans -> ScanRec] /\ OrderInv' /\ ScansInv'
<1>1. /\ UNCHANGED <<scan, chain, source, partner, requested>>
      /\ \A d \in Coins : d # c => db'[d] = db[d]
      /\ db'[c] = chain[c] /\ chain[c] # "none"
  BY DEF LibraryRecords, Types, env
<1>2. OrderInv'
  BY <1>1 DEF OrderInv, Lone, Quiet, InFlight, Lookups
<1>3. ASSUME NEW s \in Scans, LoneInv(scan[s], db, partner, requested)
      PROVE  LoneInv(scan[s], db', partner, requested)
  <2>1. TimeInv(scan[s], chain) /\ scan[s] \in ScanRec
    BY DEF ScansInv, ScanInv, Types
  <2>2. DbInv(scan[s], db')
    BY <1>1, <1>3, <2>1, ItemKinds DEF LoneInv, DbInv, ScanRec
  <2>3. GoneInv(scan[s], db')
    BY <1>1, <1>3, <2>1 DEF LoneInv, GoneInv, TimeInv, ScanRec
  <2> QED
    BY <1>3, <2>2, <2>3 DEF LoneInv
<1>4. ScansInv'
  BY <1>1, <1>3 DEF ScansInv, Lone
<1> QED
  BY <1>1, <1>2, <1>4 DEF Types

-----------------------------------------------------------------------------
(* The invariant.                                                          *)

\* The invariant holds at first,
LEMMA InitHolds == Init => IInv
<1> SUFFICES ASSUME Init
             PROVE  IInv
  OBVIOUS
<1>1. \A s \in Scans : scan[s] = NewScan
  BY DEF Init
<1>2. NewScan \in ScanRec
  <2> DEFINE no == FALSE
             blank == [i \in Items |-> "none"]
  <2>1. NewScan = [at |-> "new", aborted |-> no, look |-> blank, upTo |-> 0,
                   seen |-> {}, failures |-> no, adding |-> {}, found |-> {},
                   entries |-> {}, anchorUnspent |-> {}, stale |-> {},
                   live |-> {}, gone |-> {}, lost |-> {}, unread |-> {},
                   alone |-> no, knew |-> no]
    BY DEF NewScan
  <2>2. no \in BOOLEAN /\ 0 \in Nat /\ {} \in SUBSET Coins
        /\ blank \in [Items -> Stages] /\ "new" \in Phases
    BY DEF Stages, Phases
  <2> HIDE DEF no, blank
  <2> QED
    BY <2>1, <2>2 DEF ScanRec
<1>3. /\ NewScan.at = "new" /\ ~NewScan.alone /\ NewScan.adding = {}
      /\ NewScan.live = {} /\ NewScan.gone = {} /\ NewScan.stale = {}
      /\ NewScan.seen = {} /\ NewScan.anchorUnspent = {}
      /\ \A i \in Items : NewScan.look[i] = "none"
  BY DEF NewScan
<1>4. Types
  <2>1. /\ chain \in [Coins -> Fates] /\ db \in [Coins -> Fates]
        /\ derived \in [Branches -> Nat] /\ left \in 0..Budget
    BY ConstantsAssumption DEF Init, Fates
  <2>2. partner \in BOOLEAN /\ requested \in BOOLEAN /\ source \in Sources
    BY DEF Init
  <2>3. scan \in [Scans -> ScanRec]
    BY <1>2 DEF Init
  <2> QED
    BY <2>1, <2>2, <2>3 DEF Types
<1>5. OrderInv
  BY <1>1, <1>3 DEF OrderInv, Lone
<1>6. ScansInv
  <2>1. LookInv(NewScan) /\ TimeInv(NewScan, chain)
    BY <1>3 DEF LookInv, TimeInv
  <2>2. /\ WalkInv(NewScan, source) /\ XInv(NewScan, source)
        /\ KnewInv(NewScan) /\ LateInv(NewScan, source)
    BY <1>3 DEF WalkInv, XInv, KnewInv, LateInv, Branches, Beyond
  <2> QED
    BY <1>1, <1>3, <2>1, <2>2 DEF ScansInv, ScanInv, Lone
<1> QED
  BY <1>4, <1>5, <1>6 DEF IInv

\* The types of the rest.
LEMMA RestTyped ==
  ASSUME Types, Next
  PROVE  /\ chain' \in [Coins -> Fates] /\ db' \in [Coins -> Fates]
         /\ derived' \in [Branches -> Nat]
         /\ partner' \in BOOLEAN /\ requested' \in BOOLEAN
         /\ source' \in Sources /\ left' \in 0..Budget
<1> DEFINE Goal == /\ chain' \in [Coins -> Fates] /\ db' \in [Coins -> Fates]
                   /\ derived' \in [Branches -> Nat]
                   /\ partner' \in BOOLEAN /\ requested' \in BOOLEAN
                   /\ source' \in Sources /\ left' \in 0..Budget
<1>1. Spend => left' \in 0..Budget
  BY ConstantsAssumption DEF Types, Spend
<1>2. \A c \in Coins : Added(c) => db' \in [Coins -> Fates]
  BY DEF Types, Added, Fates
<1>3. ASSUME NEW s \in Scans, Start(s)
      PROVE  Goal
  <2>1. Wiped(s) \in [Coins -> Fates]
    BY DEF Wiped, Types, Fates
  <2> QED
    BY <1>3, <2>1 DEF Start, Types, env
<1>4. ASSUME NEW s \in Scans, Proceed(s)
      PROVE  Goal
  <2>1. CASE WalkOn(s)
    <3>1. CASE scan[s].aborted
      BY <2>1, <3>1 DEF WalkOn, Types
    <3>2. CASE ~scan[s].aborted
      <4> DEFINE b == scan[s].at
                 n == scan[s].upTo + Batch
      <4>1. b \in Branches /\ derived[b] \in Nat /\ n \in Nat
        BY <2>1, ConstantsAssumption DEF WalkOn, PassDone, Types, ScanRec
      <4>2. derived' = [derived EXCEPT ![b] = Max({derived[b], n})]
        BY <2>1, <3>2 DEF WalkOn
      <4>3. Max({derived[b], n}) \in Nat
        BY <4>1, MaxOfTwo
      <4>4. derived' \in [Branches -> Nat]
        BY <4>2, <4>3 DEF Types
      <4> QED
        BY <2>1, <4>4 DEF WalkOn, Types
    <3> QED
      BY <3>1, <3>2
  <2>2. ASSUME NEW c \in Coins, Reap(s, c)
        PROVE  Goal
    BY <2>2 DEF Reap, Types, env, Fates
  <2>3. ASSUME NEW i \in Items, Take(s, i)
        PROVE  Goal
    BY <2>3 DEF Take, Types, env
  <2>4. CASE StakeBegins(s)
    BY <2>4 DEF StakeBegins, Types, env
  <2>5. CASE \/ WalkEnds(s) \/ StakeEnds(s) \/ TxKeysDone(s)
             \/ ReapBegins(s) \/ ReapReads(s) \/ Finish(s)
    BY <2>5
    DEF WalkEnds, StakeEnds, TxKeysDone, ReapBegins, ReapReads, Finish, Types,
        env
  <2> QED
    BY <1>4, <2>1, <2>2, <2>3, <2>4, <2>5 DEF Proceed
<1>5. ASSUME NEW s \in Scans, Answer(s)
      PROVE  Goal
  <2>1. ASSUME NEW i \in Items, HistoryAnswers(s, i) \/ ListAnswers(s, i)
        PROVE  Goal
    BY <2>1 DEF HistoryAnswers, ListAnswers, Types, env
  <2>2. ASSUME NEW c \in Coins, Hydrate(s, c)
        PROVE  Goal
    BY <1>2, <2>2 DEF Hydrate, Types, env
  <2>3. ASSUME NEW c \in XCoins, TxKeysAnswer(s, c)
        PROVE  Goal
    BY <2>3 DEF TxKeysAnswer, Types, env
  <2>4. ASSUME NEW c \in XCoins, Claim(s, c)
        PROVE  Goal
    BY <1>2, <2>4, ItemKinds DEF Claim, Types, env
  <2>5. CASE KeysAnswer(s)
    BY <1>1, <2>5 DEF KeysAnswer, Types, env
  <2>6. CASE AnchorAnswers(s) \/ AnchorUnspentAnswers(s)
    BY <2>6 DEF AnchorAnswers, AnchorUnspentAnswers, Types, env
  <2> QED
    BY <1>5, <2>1, <2>2, <2>3, <2>4, <2>5, <2>6 DEF Answer
<1>6. ASSUME NEW s \in Scans, Fail(s) \/ Abort(s)
      PROVE  Goal
  <2>1. Spend /\ UNCHANGED <<env, db, partner, requested>>
    BY <1>6
    DEF Fail, StartFails, AnchorFails, AnchorUnspentFails, ReapSwallows,
        LookupFails, HydrateSwallows, ClaimFails, Abort
  <2> QED
    BY <1>1, <2>1 DEF Types, env
<1>7. ASSUME NEW c \in Coins, Appear(c) \/ SpendOnChain(c) \/ LibraryRecords(c)
      PROVE  Goal
  BY <1>1, <1>7 DEF Appear, SpendOnChain, LibraryRecords, Types, env, Fates
<1> QED
  BY <1>3, <1>4, <1>5, <1>6, <1>7 DEF Next

\* every step keeps it,
LEMMA NextHolds == IInv /\ Next => IInv'
<1> SUFFICES ASSUME IInv, Next
             PROVE  scan' \in [Scans -> ScanRec] /\ OrderInv' /\ ScansInv'
  BY RestTyped DEF IInv, Types
<1> USE DEF IInv
<1>1. \A s \in Scans : Sound(s)
  BY DEF ScansInv, Sound
<1>2. \A s \in Scans : Moved(s) =>
        scan' \in [Scans -> ScanRec] /\ OrderInv' /\ ScansInv'
  BY MovedKeeps
<1>3. ASSUME NEW s \in Scans, Start(s)
      PROVE  scan' \in [Scans -> ScanRec] /\ OrderInv' /\ ScansInv'
  BY <1>3, StartKeeps
<1>4. ASSUME NEW s \in Scans, Proceed(s)
      PROVE  Moved(s)
  BY <1>1, <1>4, WalkEndsMoves, WalkOnMoves, StakeBeginsMoves, StakeEndsMoves,
     TxKeysDoneMoves, ReapBeginsMoves, ReapReadsMoves, FinishMoves, TakeMoves,
     ReapMoves
  DEF Proceed
<1>5. ASSUME NEW s \in Scans, Answer(s)
      PROVE  Moved(s)
  BY <1>1, <1>5, HistoryAnswersMoves, ListAnswersMoves, HydrateMoves,
     TxKeysMoves, ClaimMoves, KeysAnswerMoves, AnchorMoves, AnchorUnspentMoves
  DEF Answer
<1>6. ASSUME NEW s \in Scans, Fail(s)
      PROVE  scan' \in [Scans -> ScanRec] /\ OrderInv' /\ ScansInv'
  <2>1. CASE StartFails(s)
    <3>1. CASE MayStart(s)
      BY <2>1, <3>1, StartFailsKeeps
    <3>2. CASE PassDone(s, Branches)
      BY <1>1, <1>2, <2>1, <3>2, WalkFailsMoves
    <3> QED
      BY <2>1, <3>1, <3>2 DEF StartFails
  <2>2. CASE ~StartFails(s)
    BY <1>1, <1>2, <1>6, <2>2, AnchorMoves, AnchorUnspentMoves,
       ReapSwallowsMoves, LookupFailsMoves, HydrateSwallowsMoves,
       ClaimFailsMoves
    DEF Fail
  <2> QED
    BY <2>1, <2>2
<1>7. ASSUME NEW s \in Scans, Abort(s)
      PROVE  Moved(s)
  BY <1>1, <1>7, AbortMoves
<1>8. ASSUME NEW c \in Coins, Appear(c) \/ SpendOnChain(c) \/ LibraryRecords(c)
      PROVE  scan' \in [Scans -> ScanRec] /\ OrderInv' /\ ScansInv'
  BY <1>8, AppearKeeps, SpendOnChainKeeps, LibraryRecordsKeeps
<1> QED
  BY <1>2, <1>3, <1>4, <1>5, <1>6, <1>7, <1>8 DEF Next

\* and so it always holds.
LEMMA IInvHolds == Spec => []IInv
<1>1. IInv /\ UNCHANGED vars => IInv'
  BY DEF IInv, Types, OrderInv, ScansInv, Lone, Quiet, InFlight, Lookups, vars,
         env
<1> QED
  BY InitHolds, NextHolds, <1>1, PTL DEF Spec

-----------------------------------------------------------------------------
(* What follows from it.                                                   *)

\* The state keeps its types; nothing waits in a scan that has ended, and a
\* coin is being added while its lookup is open (mapConcurrent).
THEOREM TypeCorrect == Spec => []TypeOK
<1>1. IInv => TypeOK
  <2> SUFFICES ASSUME IInv
               PROVE  TypeOK
    OBVIOUS
  <2>1. ASSUME NEW s \in Scans
        PROVE  /\ scan[s].at \in Phases
               /\ scan[s].look \in [Items -> Stages]
               /\ {scan[s].aborted, scan[s].failures, scan[s].alone,
                   scan[s].knew} \subseteq BOOLEAN
               /\ scan[s].upTo \in Nat
               /\ UNION {scan[s].seen, scan[s].adding, scan[s].found,
                         scan[s].entries, scan[s].anchorUnspent,
                         scan[s].stale, scan[s].live, scan[s].gone,
                         scan[s].lost, scan[s].unread} \subseteq Coins
    BY DEF IInv, Types, ScanRec
  <2>2. ASSUME NEW s \in Scans
        PROVE  /\ scan[s].at \in Ended \cup {"new"} =>
                    Lookups(s, {"todo"}) = {}
               /\ \A c \in scan[s].adding : scan[s].look[Home[c]] = "hydrating"
    <3>1. LookInv(scan[s])
      BY DEF IInv, ScansInv, ScanInv
    <3> QED
      BY <3>1 DEF LookInv, Lookups, PhasesOf, Ended, Branches
  <2> QED
    BY <2>1, <2>2 DEF IInv, Types, TypeOK
<1> QED
  BY <1>1, IInvHolds, PTL

\* Covered is what is due.
LEMMA CoveredDue ==
  ASSUME IInv, NEW s \in Scans
  PROVE  Covered(s) = {c \in scan[s].live : Due(scan[s], source, c)}
<1>1. \A c \in scan[s].live : c \in Coins
  BY DEF IInv, Types, ScanRec
<1>2. \A c \in scan[s].live :
        Home[c] \in Nav \/ Home[c] = Stake \/ c \in XCoins
  BY <1>1, HomeKinds
<1>3. \A a : Owed(s, a) <=> OwedOf(scan[s], a)
  BY DEF Owed, OwedOf
<1> QED
  BY <1>1, <1>2, <1>3, ItemKinds DEF Covered, Due

\* A scan that ran alone and had every lookup answered leaves every coin it
\* owes in the database, as far as it could be added: the walk ends no branch
\* before what is owed on it, and no pass skips a coin
\* (rescue-scan.js:115-119).
THEOREM CleanScanCompleteHolds == Spec => []CleanScanComplete
<1>1. IInv => CleanScanComplete
  <2> SUFFICES ASSUME IInv, NEW s \in Scans, Clean(s),
                      NEW c \in Covered(s) \ scan[s].lost
               PROVE  db[c] # "none"
    BY DEF CleanScanComplete
  <2>1. Lone(s)
    BY DEF Clean, Lone
  <2>2. c \in scan[s].live /\ Due(scan[s], source, c)
    BY CoveredDue
  <2>3. c \in scan[s].seen /\ c \in scan[s].found \cup scan[s].lost \cup XCoins
    BY <2>2 DEF IInv, ScansInv, ScanInv, LateInv, Clean
  <2>4. DbInv(scan[s], db)
    BY <2>1 DEF IInv, ScansInv, LoneInv
  <2> QED
    BY <2>3, <2>4 DEF DbInv
<1> QED
  BY <1>1, IInvHolds, PTL

\* ... and shows no coin as unspent that was spent before it began, unless
\* a write was lost: such a coin is stale when the reap begins, since the scan
\* cannot have seen it (rescue-scan.js:522-524).
THEOREM StaleGoneHolds == Spec => []StaleGone
<1>1. IInv => StaleGone
  BY DEF IInv, ScansInv, LoneInv, GoneInv, Lone, Clean, StaleGone
<1> QED
  BY <1>1, IInvHolds, PTL

\* A reap marks no coin its scan owes: it begins only if no lookup failed, and
\* then the scan has seen all that is due (rescue-scan.js:33-45).  Not owed are
\* a staked coin whose partner the scan did not know, because getKeys failed or
\* another scan was at it, and an xNAV coin whose transaction could not be read
\* (Covered).
THEOREM CoveredSparedHolds == Spec => CoveredSpared
<1>1. IInv => \A s \in Scans : Reaped(s) \cap Covered(s) = {}
  <2> SUFFICES ASSUME IInv, NEW s \in Scans, NEW c \in Reaped(s),
                      c \in Covered(s)
               PROVE  FALSE
    OBVIOUS
  <2>1. scan[s].at = "reaping" /\ c \in scan[s].stale
    BY DEF Reaped
  <2>2. c \in scan[s].live /\ Due(scan[s], source, c)
    BY CoveredDue
  <2>3. LateInv(scan[s], source)
    BY DEF IInv, ScansInv, ScanInv
  <2> QED
    BY <2>1, <2>2, <2>3 DEF LateInv
<1> QED
  BY <1>1, IInvHolds, PTL DEF CoveredSpared
=============================================================================
