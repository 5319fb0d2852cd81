------------------------ MODULE ElectrumNodesProofs -------------------------
(***************************************************************************)
(* What ElectrumNodes keeps for every set of wallets, every number of      *)
(* nodes and every budget of failures: its types, that a wallet hears no   *)
(* client but the one it holds, that wallets are spread evenly over the    *)
(* nodes that answered the probe, and that every wallet implements         *)
(* NodeLink.                                                               *)
(*                                                                         *)
(* The clients are one wallet's own affair (WalletInv).  The spread is     *)
(* not: the offset is shared, and left at any place by the list before.    *)
(* ListInv says that whoever is about to begin has the present list, so    *)
(* that a list's wallets begin in one unbroken turn, and SpreadInv that in *)
(* this turn the counts never fall from the next node to the last and are  *)
(* never more than one apart: so the next to grow is one of the smallest.  *)
(* RoundInv pays for each probe with a wallet that waited for it; without  *)
(* it the number of lists would have no bound.  That a wallet at rest has  *)
(* a connection or a timer (OnwardInv) is what the refinement adds.        *)
(***************************************************************************)
EXTENDS ElectrumNodes, FiniteSetTheorems, SequenceTheorems, TLAPS

-----------------------------------------------------------------------------
(* The inductive invariant.                                                *)

\* A wallet that has no node to begin on yet.
Unplaced == {"new", "selecting", "chosen"}

Record ==
  [at : {"new", "selecting", "chosen", "attempt", "rest", "thrown"},
   list : Lists, index : 0..N, start : -1..N, tried : 0..N,
   timer : {"no", "retry", "failover"}, held : Nodes \cup {None},
   server : Nodes \cup {None}, setup : BOOLEAN, closed : BOOLEAN]

\* A wallet hears no client but the one it holds, which it does not hold
\* before it has a node or once it is closed.
WalletInv(r, C) ==
  /\ r \in Record
  /\ C \subseteq [node : {r.held} \ {None}, at : {"dialing", "up"}]
  /\ r.server # None =>
       r.server = r.held /\ [node |-> r.held, at |-> "up"] \in C
  /\ r.closed => /\ r.timer = "no" /\ r.held = None /\ r.server = None
                 /\ r.at \notin {"new", "attempt"}
  /\ r.setup /\ ~r.closed => r.held # None
  /\ r.at # "rest" => r.server = None
  /\ r.at \in Unplaced =>
       r.held = None /\ r.timer = "no" /\ r.start = -1 /\ r.index = 0
  /\ r.at \notin Unplaced => r.start # -1
  /\ r.held # None => r.list.nodes # <<>>
  /\ r.at = "attempt" => r.tried < Len(r.list.nodes)
  /\ r.list.nodes # <<>> => r.index < Len(r.list.nodes)

Types ==
  /\ up \subseteq Nodes /\ configured \in {"no", "list", "empty"}
  /\ cache \in [list : Lists, fresh : BOOLEAN]
  /\ probe = {w \in Wallets : wallet[w].at = "selecting"}
  /\ offset \in 0..N
  /\ wallet \in [Wallets -> Record]
  /\ clients \in [Wallets -> SUBSET [node : Nodes, at : {"dialing", "up"}]]
  /\ left \in 0..Budget
  /\ crashed \in BOOLEAN /\ ~crashed

Connections == \A w \in Wallets : WalletInv(wallet[w], clients[w])

\* Every probe is paid for by a wallet that waited for it.
Unlisted == {w \in Wallets : wallet[w].at \in {"new", "selecting"}}
RoundInv == cache.list.round + Cardinality(Unlisted) <= Cardinality(Wallets)

\* The list that whoever opens now is given: a wallet that has not begun has
\* this one, and no wallet that has begun has a later one.
Current == IF configured = "no" THEN cache.list ELSE Configured
Placed == {w \in Wallets : wallet[w].start # -1}
ListInv ==
  /\ probe # {} => configured = "no" /\ ~cache.fresh
  /\ \A w \in Wallets : wallet[w].at = "chosen" =>
       wallet[w].list = Current /\ (configured = "no" => cache.fresh)
  /\ \A w \in Placed :
       /\ wallet[w].list.round <= Current.round
       /\ wallet[w].list.nodes # <<>> =>
            wallet[w].start \in 0..(wallet[w].list.healthy - 1)

\* The wallets are spread evenly over each list's first nodes, and of the
\* current one the next to begin on is one that has the fewest, the others
\* following in their order.
Even(list) == \A i, j \in 0..(list.healthy - 1) :
  Begun(list, i) <= Begun(list, j) + 1
Sooner(o, i, j) == IF i >= o <=> j >= o THEN i <= j ELSE i >= o
SpreadInv ==
  /\ \A w \in Placed : Even(wallet[w].list)
  /\ Even(Current)
  /\ Current.healthy > 0 => \A i, j \in 0..(Current.healthy - 1) :
       Sooner(offset % Current.healthy, i, j) =>
         Begun(Current, i) <= Begun(Current, j)

IInv == Types /\ Connections /\ RoundInv /\ ListInv /\ SpreadInv

-----------------------------------------------------------------------------
(* The next node in turn.                                                  *)

\* Quotient and remainder.
LEMMA Division ==
  ASSUME NEW a \in Nat, NEW h \in Nat, h > 0
  PROVE  /\ a = (h * (a \div h)) + (a % h) /\ a \div h \in Int
         /\ a % h \in 0..(h - 1)
OBVIOUS

\* Two facts about products that the division needs.
LEMMA Multiple ==
  ASSUME NEW q \in Int, NEW h \in Nat, h > 0
  PROVE  /\ q > 0 => h * q >= h
         /\ h * (q + 1) = (h * q) + h
OBVIOUS

\* The remainder is unique.
LEMMA Remainder ==
  ASSUME NEW h \in Nat, h > 0, NEW q \in Int, NEW p \in Int,
         NEW r \in 0..(h - 1), NEW s \in 0..(h - 1),
         (h * q) + r = (h * p) + s
  PROVE  r = s
<1>1. h * (q - p) = s - r /\ h * (p - q) = r - s
  OBVIOUS
<1>2. ~(q - p > 0) /\ ~(p - q > 0)
  BY <1>1, Multiple
<1>3. q = p
  BY <1>2
<1> QED
  BY <1>3

\* (offset + 1) % healthyCount is the place after offset % healthyCount, and
\* is what the next wallet finds (configureElectrumNodes).
LEMMA NextInTurn ==
  ASSUME NEW a \in Nat, NEW h \in Nat, h > 0
  PROVE  LET o == a % h
             b == (a + 1) % h
         IN  /\ o \in 0..(h - 1) /\ b \in 0..(h - 1)
             /\ b = (IF o + 1 = h THEN 0 ELSE o + 1)
             /\ b % h = b
<1> DEFINE o == a % h
           q == a \div h
           b == (a + 1) % h
           p == (a + 1) \div h
<1>1. /\ a = (h * q) + o /\ q \in Int /\ o \in 0..(h - 1)
      /\ a + 1 = (h * p) + b /\ p \in Int /\ b \in 0..(h - 1)
  BY Division
<1>2. b % h = b
  BY <1>1
<1>3. CASE o + 1 = h
  <2> HIDE DEF o, q, b, p
  <2>1. h * (q + 1) = (h * q) + h
    BY <1>1, Multiple
  <2>2. (h * (q + 1)) + 0 = (h * p) + b
    BY <1>1, <1>3, <2>1
  <2>3. 0 \in 0..(h - 1) /\ q + 1 \in Int
    BY <1>1
  <2>4. b = 0
    BY <1>1, <2>2, <2>3, Remainder
  <2> QED
    BY <1>1, <1>2, <1>3, <2>4 DEF o, q, b, p
<1>4. CASE o + 1 # h
  <2> HIDE DEF o, q, b, p
  <2>1. o + 1 \in 0..(h - 1)
    BY <1>1, <1>4
  <2>2. (h * q) + (o + 1) = (h * p) + b
    BY <1>1
  <2>3. o + 1 = b
    BY <1>1, <2>1, <2>2, Remainder
  <2> QED
    BY <1>1, <1>2, <1>4, <2>3 DEF o, q, b, p
<1> QED
  BY <1>3, <1>4

-----------------------------------------------------------------------------
(* The lists.                                                              *)

\* The nodes are finitely many.
LEMMA NodesFinite ==
  /\ IsFiniteSet(Nodes) /\ Cardinality(Nodes) = N
  /\ \A S \in SUBSET Nodes :
       IsFiniteSet(S) /\ Cardinality(S) \in 0..N
<1>1. IsFiniteSet(1..N) /\ Cardinality(1..N) = N
  BY FS_Interval, ConstantsAssumption
<1>2. ASSUME NEW S \in SUBSET (1..N)
      PROVE  IsFiniteSet(S) /\ Cardinality(S) \in 0..N
  <2>1. IsFiniteSet(S) /\ Cardinality(S) <= N
    BY <1>1, FS_Subset
  <2> QED
    BY <2>1, FS_CardinalityType, ConstantsAssumption
<1> QED
  BY <1>1, <1>2 DEF Nodes

\* No two nodes have equally many before them.
LEMMA AheadOrder ==
  ASSUME NEW good, NEW m \in Nodes, NEW n \in Nodes, m # n
  PROVE  Cardinality(Ahead(good, m)) # Cardinality(Ahead(good, n))
<1>0. Nodes \subseteq Int
  BY DEF Nodes
<1>1. ASSUME NEW a \in Nodes, NEW b \in Nodes, a \in Ahead(good, b)
      PROVE  Cardinality(Ahead(good, a)) # Cardinality(Ahead(good, b))
  <2>1. ASSUME NEW c \in Ahead(good, a)
        PROVE  c \in Ahead(good, b)
    BY <1>0, <1>1, <2>1 DEF Ahead
  <2>3. a \notin Ahead(good, a)
    BY <1>0 DEF Ahead
  <2>2. IsFiniteSet(Ahead(good, b))
    BY NodesFinite DEF Ahead
  <2> QED
    BY <1>1, <2>1, <2>2, <2>3, FS_Subset
<1>2. m \in Ahead(good, n) \/ n \in Ahead(good, m)
  BY <1>0 DEF Ahead
<1> QED
  BY <1>1, <1>2

\* So each place of the list is some node's.
LEMMA EveryPlaceTaken ==
  ASSUME NEW good, NEW i \in Nodes
  PROVE  \E n \in Nodes : Cardinality(Ahead(good, n)) = i - 1
<1> DEFINE f == [n \in Nodes |-> Cardinality(Ahead(good, n))]
<1>1. ASSUME NEW n \in Nodes
      PROVE  Cardinality(Ahead(good, n)) \in 0..(N - 1)
  <2>1. Ahead(good, n) \subseteq Nodes \ {n}
    BY DEF Ahead, Nodes
  <2>2. Cardinality(Nodes \ {n}) = N - 1 /\ IsFiniteSet(Nodes \ {n})
    BY NodesFinite, FS_RemoveElement
  <2> QED
    BY <2>1, <2>2, FS_Subset, FS_CardinalityType, ConstantsAssumption
<1>2. f \in Injection(Nodes, 0..(N - 1))
  BY <1>1, AheadOrder DEF Injection, IsInjective
<1>3. IsFiniteSet(0..(N - 1)) /\ Cardinality(0..(N - 1)) = N
  BY FS_Interval, ConstantsAssumption
<1>4. f \in Surjection(Nodes, 0..(N - 1))
  BY <1>2, <1>3, FS_Injection, NodesFinite
<1>5. i - 1 \in 0..(N - 1)
  BY ConstantsAssumption DEF Nodes
<1> QED
  BY <1>4, <1>5 DEF Surjection

\* The list has all nodes, and those that answered stand first.
LEMMA HealthyFirst ==
  ASSUME NEW good \in SUBSET Nodes
  PROVE  /\ First(N, good) \in [Nodes -> Nodes]
         /\ \A i \in 1..Cardinality(good) : First(N, good)[i] \in good
<1>1. ASSUME NEW i \in Nodes
      PROVE  /\ First(N, good)[i] \in Nodes
             /\ Cardinality(Ahead(good, First(N, good)[i])) = i - 1
  <2>1. First(N, good)[i] =
          CHOOSE n \in Nodes : Cardinality(Ahead(good, n)) = i - 1
    BY DEF First, Nodes
  <2> QED
    BY <2>1, EveryPlaceTaken
<1>2. First(N, good) \in [Nodes -> Nodes]
  BY <1>1 DEF First, Nodes
<1>3. ASSUME NEW i \in 1..Cardinality(good), First(N, good)[i] \notin good
      PROVE  FALSE
  <2>1. i \in Nodes
    BY NodesFinite, ConstantsAssumption DEF Nodes
  <2>2. good \subseteq Ahead(good, First(N, good)[i])
    BY <1>3 DEF Ahead
  <2>3. IsFiniteSet(Ahead(good, First(N, good)[i]))
    BY NodesFinite DEF Ahead
  <2>4. Cardinality(good) <= i - 1
    BY <1>1, <2>1, <2>2, <2>3, FS_Subset
  <2> QED
    BY <2>4, NodesFinite
<1> QED
  BY <1>2, <1>3

\* What a probe selects.
LEMMA SelectedFacts ==
  ASSUME NEW good \in SUBSET Nodes, NEW round
  PROVE  LET list == Selected(good, round)
         IN  /\ list.nodes \in Seq(Nodes) /\ Len(list.nodes) = N
             /\ list.healthy \in 0..N
             /\ N > 0 => list.healthy > 0
             /\ list.good \subseteq Nodes /\ list.round = round
             /\ list.good # {} =>
                  \A i \in 1..list.healthy : list.nodes[i] \in list.good
<1>1. /\ Healthy(good) \in 0..N
      /\ N > 0 => Healthy(good) > 0
  BY NodesFinite, FS_EmptySet, ConstantsAssumption DEF Healthy
<1>2. First(N, good) \in Seq(Nodes) /\ Len(First(N, good)) = N
  BY HealthyFirst, ConstantsAssumption DEF Nodes
<1>3. good # {} => Healthy(good) = Cardinality(good)
  BY DEF Healthy
<1>4. ASSUME good # {}, NEW i \in 1..Healthy(good)
      PROVE  First(N, good)[i] \in good
  BY <1>3, <1>4, HealthyFirst
<1>5. LET list == Selected(good, round)
      IN  /\ list.nodes = First(N, good) /\ list.good = good
          /\ list.healthy = Healthy(good) /\ list.round = round
  BY DEF Selected
<1> HIDE DEF First, Healthy
<1> QED
  BY <1>1, <1>2, <1>4, <1>5

\* What is true of every list a wallet can be given.
ListOK(list) ==
  /\ list.nodes \in Seq(Nodes) /\ Len(list.nodes) \in {0, N}
  /\ list.healthy \in 0..Len(list.nodes)
  /\ Len(list.nodes) > 0 => list.healthy > 0
  /\ list.round \in Nat
  /\ list.good # {} =>
       \A i \in 1..list.healthy : list.nodes[i] \in list.good

\* Every list is empty or has all nodes, with a place to begin on.
LEMMA ListFacts ==
  ASSUME NEW list \in Lists
  PROVE  ListOK(list)
<1>1. ASSUME NEW good \in SUBSET Nodes, NEW round \in Nat
      PROVE  ListOK(Selected(good, round))
  BY <1>1, SelectedFacts, ConstantsAssumption DEF ListOK
<1>2. ListOK(Configured)
  <2>1. CASE configured = "list"
    BY <1>1, <2>1 DEF Configured
  <2>2. CASE configured # "list"
    BY <2>2, ConstantsAssumption DEF Configured, ListOK
  <2> QED
    BY <2>1, <2>2
<1>3. Cardinality(Wallets) \in Nat
  BY ConstantsAssumption, FS_CardinalityType
<1> QED
  BY <1>1, <1>2, <1>3 DEF Lists

-----------------------------------------------------------------------------
(* What a step does to one wallet.                                         *)

\* The wallet is left with r and C, and no other changes.
WalletTo(w, r, C) ==
  /\ wallet' = [wallet EXCEPT ![w] = r]
  /\ clients' = [clients EXCEPT ![w] = C]

\* A wallet that goes on: on its list, and no earlier than it was.
GoesOn(w, r, C) ==
  /\ WalletTo(w, r, C) /\ WalletInv(r, C)
  /\ r.list = wallet[w].list /\ r.start = wallet[w].start
  /\ IF wallet[w].at \in Unplaced THEN r.at = wallet[w].at
     ELSE r.at \notin Unplaced

\* What Attempt asks of the wallet it is called for.
Ready(r, C) ==
  /\ r \in Record /\ r.server = None /\ ~r.closed /\ r.start # -1
  /\ C \subseteq [node : {r.held} \ {None}, at : {"dialing", "up"}]
  /\ r.setup => r.held # None
  /\ r.held # None => r.list.nodes # <<>>
  /\ r.list.nodes # <<>> => r.index < Len(r.list.nodes)

\* supervisedConnect: the new client is the only one heard.
LEMMA DialKeeps ==
  ASSUME NEW w \in Wallets, NEW r, NEW C, Ready(r, C),
         r.at \notin Unplaced, r.list.nodes # <<>>,
         r.at = "attempt" => r.tried < Len(r.list.nodes),
         Dial(w, r, r.list.nodes[r.index + 1])
  PROVE  \E s, D : /\ WalletTo(w, s, D) /\ WalletInv(s, D)
                   /\ s.list = r.list /\ s.start = r.start /\ s.at = r.at
<1> DEFINE n == r.list.nodes[r.index + 1]
           s == [r EXCEPT !.held = n]
           D == {[node |-> n, at |-> "dialing"]}
<1>1. n \in Nodes /\ n # None
  <2>1. r.list.nodes \in Seq(Nodes) /\ r.list \in Lists /\ r.index \in Nat
    BY ListFacts, ConstantsAssumption DEF Ready, Record, ListOK
  <2>2. n \in Nodes
    BY <2>1 DEF Ready
  <2> QED
    BY <2>2 DEF Nodes, None
<1> HIDE DEF n
<1>2. WalletTo(w, s, D)
  BY DEF Dial, WalletTo, Retired, n
<1>3. s \in Record /\ s.held = n
  BY <1>1 DEF Ready, Record
<1>4. WalletInv(s, D)
  BY <1>1, <1>3 DEF WalletInv, Ready, Unplaced, Record
<1> QED
  BY <1>2, <1>4 DEF Ready, Record

\* An attempt, or the end of a pass.
LEMMA AttemptKeeps ==
  ASSUME NEW w \in Wallets, NEW r, NEW C, Ready(r, C), Attempt(w, r, C)
  PROVE  \E s, D : /\ WalletTo(w, s, D) /\ WalletInv(s, D)
                   /\ s.list = r.list /\ s.start = r.start
                   /\ s.at \notin Unplaced
<1>1. CASE r.tried < Len(r.list.nodes)
  <2> DEFINE q == [r EXCEPT !.at = "attempt"]
  <2>1. /\ q \in Record /\ q.at = "attempt" /\ q.list = r.list
        /\ q.start = r.start /\ q.index = r.index /\ q.held = r.held
        /\ q.server = r.server /\ q.setup = r.setup /\ q.closed = r.closed
        /\ q.tried = r.tried /\ q.tried \in Nat
    BY ConstantsAssumption DEF Ready, Record
  <2>2. Dial(w, q, q.list.nodes[q.index + 1])
    BY <1>1, <2>1 DEF Attempt
  <2>3. q.list.nodes # <<>>
    BY <1>1, <2>1
  <2> HIDE DEF q
  <2>4. Ready(q, C)
    BY <2>1 DEF Ready
  <2>5. q.at \notin Unplaced
    BY <2>1 DEF Unplaced
  <2> QED
    BY <1>1, <2>1, <2>2, <2>3, <2>4, <2>5, DialKeeps
<1>2. CASE ~(r.tried < Len(r.list.nodes))
  <2> DEFINE t == IF r.timer = "no" THEN "retry" ELSE r.timer
             s == [r EXCEPT !.at = "rest", !.timer = t]
  <2>1. WalletTo(w, s, C)
    BY <1>2 DEF Attempt, WalletTo, Ready, Record
  <2>2. t \in {"no", "retry", "failover"}
    BY DEF Ready, Record
  <2> HIDE DEF t
  <2>3. s \in Record
    BY <2>2 DEF Ready, Record
  <2>4. WalletInv(s, C)
    BY <2>3 DEF Ready, WalletInv, Record, Unplaced
  <2>5. s.list = r.list /\ s.start = r.start /\ s.at = "rest"
    BY DEF Ready, Record
  <2> HIDE DEF s
  <2> QED
    BY <2>1, <2>4, <2>5 DEF Unplaced
<1> QED
  BY <1>1, <1>2

\* The next node is one of the list, and nothing else changes.
LEMMA AdvancedFacts ==
  ASSUME NEW q \in Record
  PROVE  LET r == Advanced(q)
         IN  /\ r \in Record /\ r.list = q.list /\ r.start = q.start
             /\ r.held = q.held /\ r.server = q.server /\ r.at = q.at
             /\ r.setup = q.setup /\ r.closed = q.closed
             /\ r.timer = q.timer
             /\ r.list.nodes # <<>> => r.index < Len(r.list.nodes)
<1> DEFINE len == Len(q.list.nodes)
<1>1. ListOK(q.list) /\ len \in {0, N} /\ len \in Nat
  BY ListFacts, ConstantsAssumption DEF Record, ListOK
<1>2. q.list.nodes # <<>> =>
        (q.index + 1) % len \in 0..(len - 1) /\ len = N
  BY <1>1, Division, EmptySeq DEF ListOK, Record
<1> QED
  BY <1>2 DEF Advanced, Record

\* An attempt that fails is followed by another or by a timer.
LEMMA FailureGoesOn ==
  ASSUME Types, Connections, NEW w \in Wallets, AttemptFails(w)
  PROVE  \E s, D : GoesOn(w, s, D)
<1> DEFINE q == [wallet[w] EXCEPT !.tried = @ + 1]
           r == Advanced(q)
           len == Len(wallet[w].list.nodes)
<1>1. wallet[w] \in Record /\ WalletInv(wallet[w], clients[w])
  BY DEF Types, Connections
<1>2. ListOK(wallet[w].list) /\ len \in {0, N} /\ len \in Nat
  BY <1>1, ListFacts, ConstantsAssumption DEF Record, ListOK
<1>3. PICK late : late \subseteq clients[w] /\ Attempt(w, r, late)
  BY DEF AttemptFails
<1>4. wallet[w].at = "attempt" /\ wallet[w].tried < len
  BY <1>1 DEF AttemptFails, WalletInv
<1>5. /\ q \in Record /\ q.list = wallet[w].list
      /\ q.index = wallet[w].index /\ q.start = wallet[w].start
      /\ q.held = wallet[w].held /\ q.server = wallet[w].server
      /\ q.setup = wallet[w].setup /\ q.closed = wallet[w].closed
  BY <1>1, <1>2, <1>4, ConstantsAssumption DEF Record
<1> HIDE DEF q
<1>6. /\ r \in Record /\ r.list = q.list /\ r.start = q.start
      /\ r.held = q.held /\ r.server = q.server
      /\ r.setup = q.setup /\ r.closed = q.closed
      /\ r.list.nodes # <<>> => r.index < len
  BY <1>5, AdvancedFacts
<1> HIDE DEF r
<1>7. Ready(r, late)
  BY <1>1, <1>3, <1>4, <1>5, <1>6 DEF Ready, WalletInv, Unplaced
<1>8. wallet[w].at \notin Unplaced
  BY <1>4 DEF Unplaced
<1> QED
  BY <1>3, <1>5, <1>6, <1>7, <1>8, AttemptKeeps DEF GoesOn

\* A pass that throws leaves the wallet as it is, and at most its client.
LEMMA ThrowGoesOn ==
  ASSUME Types, Connections, NEW w \in Wallets, AttemptThrows(w)
  PROVE  \E s, D : GoesOn(w, s, D)
<1> DEFINE s == [wallet[w] EXCEPT !.at = "thrown"]
<1>1. wallet[w] \in Record /\ WalletInv(wallet[w], clients[w])
  BY DEF Types, Connections
<1>2. wallet[w].at = "attempt" /\ wallet[w].server = None /\ ~wallet[w].closed
  BY <1>1 DEF AttemptThrows, WalletInv
<1>3. PICK late : /\ late \subseteq clients[w]
                  /\ clients' = [clients EXCEPT ![w] = late]
  BY DEF AttemptThrows
<1>4. WalletTo(w, s, late)
  BY <1>3 DEF AttemptThrows, WalletTo, Types
<1>5. /\ s \in Record /\ s.list = wallet[w].list /\ s.index = wallet[w].index
      /\ s.start = wallet[w].start /\ s.at = "thrown"
      /\ s.held = wallet[w].held /\ s.server = None /\ ~s.closed
      /\ s.setup = wallet[w].setup
  BY <1>1, <1>2 DEF Record
<1> HIDE DEF s
<1>6. WalletInv(s, late)
  BY <1>1, <1>2, <1>3, <1>5 DEF WalletInv, Unplaced
<1> QED
  BY <1>2, <1>4, <1>5, <1>6 DEF GoesOn, Unplaced

\* Whichever client answers, it is the one held.
LEMMA AnswerGoesOn ==
  ASSUME Types, Connections, NEW w \in Wallets, Answers(w)
  PROVE  \E s, D : GoesOn(w, s, D)
<1>1. wallet[w] \in Record /\ WalletInv(wallet[w], clients[w])
  BY DEF Types, Connections
<1>2. PICK c \in clients[w] :
        /\ clients' = [clients EXCEPT ![w] =
                         (clients[w] \ {c}) \cup {[c EXCEPT !.at = "up"]}]
        /\ wallet' = [wallet EXCEPT ![w].server = c.node, ![w].setup = TRUE,
                                    ![w].at = "rest"]
  BY DEF Answers, Types
<1>3. /\ c \in [node : {wallet[w].held} \ {None}, at : {"dialing", "up"}]
      /\ wallet[w].held # None /\ wallet[w].held \in Nodes
  BY <1>1, <1>2 DEF WalletInv, Record
<1>4. c.node = wallet[w].held
      /\ [c EXCEPT !.at = "up"] = [node |-> wallet[w].held, at |-> "up"]
  BY <1>3
<1> DEFINE s == [wallet[w] EXCEPT !.server = wallet[w].held, !.setup = TRUE,
                                  !.at = "rest"]
           D == (clients[w] \ {c}) \cup {[node |-> wallet[w].held,
                                          at |-> "up"]}
<1>5. WalletTo(w, s, D)
  BY <1>2, <1>4 DEF WalletTo, Types
<1>6. /\ s \in Record /\ s.list = wallet[w].list
      /\ s.start = wallet[w].start /\ s.at = "rest"
      /\ s.held = wallet[w].held /\ s.server = wallet[w].held
      /\ s.closed = wallet[w].closed /\ s.timer = wallet[w].timer
      /\ s.index = wallet[w].index
  BY <1>1, <1>3 DEF Record
<1>7. wallet[w].at \notin Unplaced /\ ~wallet[w].closed
  BY <1>1, <1>3 DEF WalletInv
<1>8. D \subseteq [node : {wallet[w].held} \ {None}, at : {"dialing", "up"}]
      /\ [node |-> wallet[w].held, at |-> "up"] \in D
  BY <1>1, <1>3 DEF WalletInv
<1> HIDE DEF s, D
<1>9. WalletInv(s, D)
  BY <1>1, <1>3, <1>6, <1>7, <1>8 DEF WalletInv, Unplaced
<1> QED
  BY <1>5, <1>6, <1>7, <1>9 DEF GoesOn, Unplaced

\* A drop is noticed once.
LEMMA DropGoesOn ==
  ASSUME Types, Connections, NEW w \in Wallets, Drops(w)
  PROVE  \E s, D : GoesOn(w, s, D)
<1>1. wallet[w] \in Record /\ WalletInv(wallet[w], clients[w])
  BY DEF Types, Connections
<1>2. PICK c \in clients[w] :
        /\ clients' = [clients EXCEPT ![w] = clients[w] \ {c}]
        /\ wallet' = IF wallet[w].server = None THEN wallet
                     ELSE [wallet EXCEPT ![w].server = None,
                       ![w].timer = IF @ = "no" THEN "failover" ELSE @]
  BY DEF Drops, Types
<1>3. wallet[w].held # None
  BY <1>1, <1>2 DEF WalletInv
<1>4. wallet[w].at \notin Unplaced /\ ~wallet[w].closed
  BY <1>1, <1>3 DEF WalletInv
<1>5. CASE wallet[w].server = None
  <2>1. WalletTo(w, wallet[w], clients[w] \ {c})
    BY <1>2, <1>5 DEF WalletTo, Types
  <2>2. WalletInv(wallet[w], clients[w] \ {c})
    BY <1>1, <1>5 DEF WalletInv
  <2> QED
    BY <1>4, <2>1, <2>2 DEF GoesOn
<1>6. CASE wallet[w].server # None
  <2> DEFINE t == IF wallet[w].timer = "no" THEN "failover"
                  ELSE wallet[w].timer
             s == [wallet[w] EXCEPT !.server = None, !.timer = t]
  <2>1. WalletTo(w, s, clients[w] \ {c})
    BY <1>1, <1>2, <1>6 DEF WalletTo, Types, Record
  <2>2. t \in {"no", "retry", "failover"}
    BY <1>1 DEF Record
  <2> HIDE DEF t
  <2>3. /\ s \in Record /\ s.list = wallet[w].list
        /\ s.start = wallet[w].start /\ s.at = wallet[w].at
        /\ s.held = wallet[w].held /\ s.server = None
        /\ s.closed = wallet[w].closed /\ s.index = wallet[w].index
        /\ s.tried = wallet[w].tried
    BY <1>1, <2>2 DEF Record
  <2> HIDE DEF s
  <2>4. WalletInv(s, clients[w] \ {c})
    BY <1>1, <1>3, <1>4, <2>3 DEF WalletInv, Unplaced
  <2> QED
    BY <1>4, <2>1, <2>3, <2>4 DEF GoesOn
<1> QED
  BY <1>5, <1>6

\* A timer begins a pass, on this node or the next.
LEMMA TimerGoesOn ==
  ASSUME Types, Connections, NEW w \in Wallets, TimerFires(w)
  PROVE  \E s, D : GoesOn(w, s, D)
<1> DEFINE r == [wallet[w] EXCEPT !.timer = "no"]
           s == IF wallet[w].timer = "failover" THEN Advanced(r) ELSE r
           q == [s EXCEPT !.tried = 0]
<1>1. wallet[w] \in Record /\ WalletInv(wallet[w], clients[w])
  BY DEF Types, Connections
<1>2. /\ wallet[w].timer # "no"
      /\ IF r.server = None /\ r.at = "rest"
         THEN Attempt(w, q, clients[w])
         ELSE /\ wallet' = [wallet EXCEPT ![w] =
                              IF r.server = None THEN s ELSE r]
              /\ UNCHANGED clients
  BY DEF TimerFires
<1>3. /\ r \in Record /\ r.list = wallet[w].list
      /\ r.start = wallet[w].start /\ r.at = wallet[w].at
      /\ r.held = wallet[w].held /\ r.server = wallet[w].server
      /\ r.setup = wallet[w].setup /\ r.closed = wallet[w].closed
      /\ r.index = wallet[w].index /\ r.tried = wallet[w].tried
      /\ r.timer = "no"
  BY <1>1 DEF Record
<1>4. wallet[w].at \notin Unplaced /\ ~wallet[w].closed
  BY <1>1, <1>2 DEF WalletInv
<1>5. WalletInv(r, clients[w])
  BY <1>1, <1>3, <1>4 DEF WalletInv
<1> HIDE DEF r
<1>6. /\ s \in Record /\ s.list = r.list /\ s.start = r.start
      /\ s.at = r.at /\ s.held = r.held /\ s.server = r.server
      /\ s.setup = r.setup /\ s.closed = r.closed
      /\ s.list.nodes # <<>> => s.index < Len(s.list.nodes)
  BY <1>3, <1>5, AdvancedFacts DEF WalletInv
<1>7. s.tried = r.tried /\ s.timer = "no"
  BY <1>3, AdvancedFacts DEF Advanced, Record
<1> HIDE DEF s
<1>8. CASE r.server = None /\ r.at = "rest"
  <2>1. /\ q \in Record /\ q.list = s.list /\ q.start = s.start
        /\ q.held = s.held /\ q.server = s.server
        /\ q.setup = s.setup /\ q.closed = s.closed /\ q.index = s.index
    BY <1>6, ConstantsAssumption DEF Record
  <2> HIDE DEF q
  <2>2. Ready(q, clients[w])
    BY <1>3, <1>4, <1>5, <1>6, <1>8, <2>1 DEF Ready, WalletInv
  <2> QED
    BY <1>2, <1>3, <1>4, <1>6, <1>8, <2>1, <2>2, AttemptKeeps DEF GoesOn
<1>9. CASE ~(r.server = None /\ r.at = "rest")
  <2> DEFINE t == IF r.server = None THEN s ELSE r
  <2>1. WalletTo(w, t, clients[w])
    BY <1>2, <1>9 DEF WalletTo, Types
  <2>0. WalletInv(s, clients[w])
    BY <1>3, <1>4, <1>5, <1>6, <1>7 DEF WalletInv
  <2>2. WalletInv(t, clients[w])
    BY <1>5, <2>0
  <2>3. t.list = wallet[w].list /\ t.start = wallet[w].start
        /\ t.at = wallet[w].at
    BY <1>3, <1>6
  <2> QED
    BY <1>4, <2>1, <2>2, <2>3 DEF GoesOn
<1> QED
  BY <1>8, <1>9

\* navcoin-js dials the node that the wallet points at.
LEMMA NavcoinGoesOn ==
  ASSUME Types, Connections, NEW w \in Wallets, NavcoinConnects(w)
  PROVE  \E s, D : GoesOn(w, s, D)
<1>1. wallet[w] \in Record /\ WalletInv(wallet[w], clients[w])
  BY DEF Types, Connections
<1>2. /\ wallet[w].held # None /\ wallet[w].server = None
      /\ ~wallet[w].closed
      /\ Dial(w, wallet[w], wallet[w].list.nodes[wallet[w].index + 1])
  BY DEF NavcoinConnects
<1>3. wallet[w].at \notin Unplaced
  BY <1>1, <1>2 DEF WalletInv
<1>4. Ready(wallet[w], clients[w])
  BY <1>1, <1>2, <1>3 DEF WalletInv, Ready
<1>5. /\ wallet[w].list.nodes # <<>>
      /\ wallet[w].at = "attempt" =>
           wallet[w].tried < Len(wallet[w].list.nodes)
  BY <1>1, <1>2 DEF WalletInv
<1> QED
  BY <1>2, <1>3, <1>4, <1>5, DialKeeps DEF GoesOn

\* A setup that ends finds the client, or a closed wallet.
LEMMA SetupGoesOn ==
  ASSUME Types, Connections, NEW w \in Wallets, SetupEnds(w)
  PROVE  crashed' \in BOOLEAN /\ ~crashed' /\ \E s, D : GoesOn(w, s, D)
<1> DEFINE s == [wallet[w] EXCEPT !.setup = FALSE]
<1>1. wallet[w] \in Record /\ WalletInv(wallet[w], clients[w])
  BY DEF Types, Connections
<1>2. ~crashed'
  BY <1>1 DEF SetupEnds, WalletInv
<1>6. crashed' \in BOOLEAN
  BY Zenon DEF SetupEnds
<1>3. WalletTo(w, s, clients[w])
  BY DEF SetupEnds, WalletTo, Types
<1>4. /\ s \in Record /\ s.list = wallet[w].list
      /\ s.start = wallet[w].start /\ s.at = wallet[w].at
      /\ s.held = wallet[w].held /\ s.server = wallet[w].server
      /\ ~s.setup /\ s.closed = wallet[w].closed
      /\ s.index = wallet[w].index /\ s.tried = wallet[w].tried
      /\ s.timer = wallet[w].timer
  BY <1>1 DEF Record
<1> HIDE DEF s
<1>5. WalletInv(s, clients[w])
  BY <1>1, <1>4 DEF WalletInv
<1> QED
  BY <1>2, <1>3, <1>4, <1>5, <1>6 DEF GoesOn

\* A closed wallet keeps its place among those that wait for a list.
LEMMA CloseGoesOn ==
  ASSUME Types, Connections, NEW w \in Wallets, Closes(w)
  PROVE  \E s, D : GoesOn(w, s, D)
<1> DEFINE t == IF wallet[w].at \in {"selecting", "chosen"}
                THEN wallet[w].at ELSE "rest"
           s == [wallet[w] EXCEPT !.timer = "no", !.held = None,
                   !.server = None, !.closed = TRUE, !.at = t]
<1>1. wallet[w] \in Record /\ WalletInv(wallet[w], clients[w])
  BY DEF Types, Connections
<1>2. WalletTo(w, s, {}) /\ wallet[w].at # "new"
  BY <1>1 DEF Closes, Closed, WalletTo, Types, Retired, Record
<1>3. t \in {"selecting", "chosen", "rest"}
  OBVIOUS
<1>4. /\ wallet[w].at \in Unplaced => t = wallet[w].at
      /\ wallet[w].at \notin Unplaced => t = "rest"
  BY <1>2 DEF Unplaced
<1> HIDE DEF t
<1>5. /\ s \in Record /\ s.list = wallet[w].list
      /\ s.start = wallet[w].start /\ s.at = t
      /\ s.held = None /\ s.server = None
      /\ s.closed /\ s.index = wallet[w].index
      /\ s.timer = "no"
  BY <1>1, <1>3 DEF Record
<1> HIDE DEF s
<1>6. WalletInv(s, {})
  BY <1>1, <1>3, <1>4, <1>5 DEF WalletInv, Unplaced
<1> QED
  BY <1>2, <1>4, <1>5, <1>6 DEF GoesOn, Unplaced

\* A wallet that begins on a node: the next one in turn.
Begins(w, r, C) ==
  /\ WalletTo(w, r, C) /\ WalletInv(r, C)
  /\ wallet[w].at = "chosen" /\ r.at \notin Unplaced
  /\ r.list = wallet[w].list /\ r.start = StartIndex(r.list)
  /\ IF r.list.healthy = 0 THEN offset' = offset
     ELSE offset' = (offset + 1) % r.list.healthy

\* configureElectrumNodes puts a wallet on the next node in turn.
LEMMA ConfigureBegins ==
  ASSUME Types, Connections, NEW w \in Wallets, Configures(w)
  PROVE  \E s, D : Begins(w, s, D)
<1> DEFINE list == wallet[w].list
           i == StartIndex(list)
           r == [wallet[w] EXCEPT !.index = i, !.start = i]
<1>1. wallet[w] \in Record /\ WalletInv(wallet[w], clients[w])
  BY DEF Types, Connections
<1>2. /\ wallet[w].at = "chosen"
      /\ offset' = IF list.healthy = 0 THEN offset
                   ELSE (offset + 1) % list.healthy
      /\ IF r.closed
         THEN /\ wallet' = [wallet EXCEPT ![w] = [r EXCEPT !.at = "rest"]]
              /\ UNCHANGED clients
         ELSE Attempt(w, r, {})
  BY DEF Configures
<1>3. /\ i \in 0..N
      /\ list.nodes # <<>> => i < Len(list.nodes)
  <2>1. ListOK(list) /\ offset \in Nat /\ Len(list.nodes) \in 0..N
    BY <1>1, ListFacts, ConstantsAssumption DEF Record, ListOK, Types
  <2>2. CASE list.healthy = 0
    BY <2>1, <2>2, EmptySeq, ConstantsAssumption DEF StartIndex, ListOK
  <2>3. CASE list.healthy # 0
    <3>1. offset % list.healthy \in 0..(list.healthy - 1)
      BY <2>1, <2>3, Division DEF ListOK
    <3> QED
      BY <2>1, <2>3, <3>1 DEF StartIndex, ListOK
  <2> QED
    BY <2>2, <2>3
<1> HIDE DEF i
<1>4. /\ r \in Record /\ r.list = list /\ r.start = i /\ r.index = i
      /\ r.held = wallet[w].held /\ r.server = wallet[w].server
      /\ r.setup = wallet[w].setup /\ r.closed = wallet[w].closed
      /\ r.timer = wallet[w].timer
  <2>1. wallet[w] \in Record /\ i \in 0..N /\ i \in -1..N
    BY <1>1, <1>3, ConstantsAssumption
  <2> QED
    BY <2>1 DEF Record
<1> HIDE DEF r
<1>5. /\ r.held = None /\ r.server = None /\ r.start # -1
      /\ clients[w] = {} /\ r.timer = "no"
  BY <1>1, <1>2, <1>3, <1>4 DEF WalletInv, Unplaced
<1>6. CASE r.closed
  <2> DEFINE s == [r EXCEPT !.at = "rest"]
  <2>1. WalletTo(w, s, clients[w])
    BY <1>2, <1>6 DEF WalletTo, Types
  <2>2. /\ s \in Record /\ s.list = list /\ s.start = i /\ s.index = i
        /\ s.held = None /\ s.server = None /\ s.at = "rest"
        /\ s.closed /\ s.timer = "no"
    BY <1>4, <1>5, <1>6 DEF Record
  <2> HIDE DEF s
  <2>3. WalletInv(s, clients[w])
    BY <1>3, <1>4, <1>5, <2>2 DEF WalletInv, Unplaced
  <2> QED
    BY <1>2, <2>1, <2>2, <2>3 DEF Begins, Unplaced, i
<1>7. CASE ~r.closed
  <2>1. r.setup => r.held # None
    BY <1>1, <1>4, <1>7 DEF WalletInv
  <2>2. Ready(r, {})
    BY <1>3, <1>4, <1>5, <1>7, <2>1 DEF Ready
  <2>3. PICK s, D : /\ WalletTo(w, s, D) /\ WalletInv(s, D)
                    /\ s.list = r.list /\ s.start = r.start
                    /\ s.at \notin Unplaced
    BY <1>2, <1>7, <2>2, AttemptKeeps
  <2> QED
    BY <1>2, <1>4, <2>3 DEF Begins, i
<1> QED
  BY <1>6, <1>7

\* A wallet that is given its list has no client yet.
LEMMA ListGiven ==
  ASSUME NEW r, NEW C, WalletInv(r, C), r.at \in {"new", "selecting"},
         NEW list \in Lists
  PROVE  LET s == [r EXCEPT !.at = "chosen", !.list = list]
         IN  /\ WalletInv(s, C) /\ s.at = "chosen" /\ s.list = list
             /\ s.start = -1
<1> DEFINE s == [r EXCEPT !.at = "chosen", !.list = list]
<1>1. r \in Record
  BY DEF WalletInv
<1>2. /\ s \in Record /\ s.list = list /\ s.start = r.start
      /\ s.at = "chosen" /\ s.held = r.held /\ s.server = r.server
      /\ s.setup = r.setup /\ s.closed = r.closed /\ s.timer = r.timer
      /\ s.index = r.index
  BY <1>1 DEF Record
<1>3. list.nodes # <<>> => 0 < Len(list.nodes)
  BY ListFacts, EmptySeq, ConstantsAssumption DEF ListOK
<1> HIDE DEF s
<1>4. WalletInv(s, C) /\ s.start = -1
  BY <1>2, <1>3 DEF WalletInv, Unplaced
<1> QED
  BY <1>2, <1>4 DEF s

\* A wallet that begins to wait for the probe.
Waits(w) ==
  /\ wallet' = [wallet EXCEPT ![w].at = "selecting"]
  /\ probe' = probe \cup {w} /\ configured = "no" /\ ~cache.fresh

\* Neither has one that waits for the probe.
LEMMA WaitKeeps ==
  ASSUME NEW r, NEW C, WalletInv(r, C), r.at = "new"
  PROVE  LET s == [r EXCEPT !.at = "selecting"]
         IN  /\ WalletInv(s, C) /\ s.at = "selecting" /\ s.list = r.list
             /\ s.start = -1
<1> DEFINE s == [r EXCEPT !.at = "selecting"]
<1>1. r \in Record
  BY DEF WalletInv
<1>2. /\ s \in Record /\ s.list = r.list /\ s.start = r.start
      /\ s.at = "selecting" /\ s.held = r.held /\ s.server = r.server
      /\ s.setup = r.setup /\ s.closed = r.closed /\ s.timer = r.timer
      /\ s.index = r.index
  BY <1>1 DEF Record
<1> HIDE DEF s
<1>4. WalletInv(s, C) /\ s.start = -1
  BY <1>2 DEF WalletInv, Unplaced
<1> QED
  BY <1>2, <1>4 DEF s

\* The wallets of S get a list.
Given(S, list) ==
  /\ list \in Lists /\ \A w \in S : wallet[w].at \in {"new", "selecting"}
  /\ wallet' = [w \in Wallets |->
       IF w \in S THEN [wallet[w] EXCEPT !.at = "chosen", !.list = list]
       ELSE wallet[w]]

\* A wallet that opens gets the current list or waits for the probe.
LEMMA OpensKinds ==
  ASSUME Types, NEW w \in Wallets, Opens(w)
  PROVE  /\ wallet[w].at = "new" /\ UNCHANGED <<cache, offset, clients>>
         /\ \/ /\ Given({w}, Current) /\ UNCHANGED probe
               /\ configured = "no" => cache.fresh
            \/ Waits(w)
<1>1. CASE configured # "no" \/ cache.fresh
  <2>1. Current \in Lists
    BY DEF Types, Current, Lists
  <2>2. Gets({w}, Current)
    BY <1>1 DEF Opens, Current
  <2> QED
    BY <1>1, <2>1, <2>2 DEF Opens, Gets, Given
<1>2. CASE ~(configured # "no" \/ cache.fresh)
  BY <1>2 DEF Opens, Waits
<1> QED
  BY <1>1, <1>2

\* All sets of wallets are finite.
LEMMA UnlistedFinite ==
  /\ IsFiniteSet(Unlisted) /\ Cardinality(Unlisted) \in Nat
  /\ Cardinality(Wallets) \in Nat
  /\ \A S \in SUBSET Wallets :
       IsFiniteSet(S) /\ Cardinality(S) \in Nat
<1>1. ASSUME NEW S \in SUBSET Wallets
      PROVE  IsFiniteSet(S) /\ Cardinality(S) \in Nat
  BY FS_Subset, FS_CardinalityType, ConstantsAssumption
<1> QED
  BY <1>1, FS_CardinalityType, ConstantsAssumption DEF Unlisted

\* A probe ends with a list that is new, for all who waited.
LEMMA ProbeGives ==
  ASSUME Types, RoundInv, ProbeEnds
  PROVE  /\ probe' = {} /\ UNCHANGED <<configured, offset, clients>>
         /\ left' \in 0..Budget
         /\ cache' = [list |-> cache'.list, fresh |-> TRUE]
         /\ Given(probe, cache'.list)
         /\ cache'.list.round = cache.list.round + 1
<1>1. PICK good : /\ good \subseteq up
                  /\ IF good = up THEN UNCHANGED left ELSE Spend
                  /\ Gets(probe, Selected(good, cache.list.round + 1))
                  /\ cache' = [list |-> Selected(good, cache.list.round + 1),
                               fresh |-> TRUE]
  BY DEF ProbeEnds
<1>2. cache.list.round + 1 \in 0..Cardinality(Wallets)
  <2>1. PICK w \in Wallets : w \in Unlisted
    BY DEF ProbeEnds, Types, Unlisted
  <2>2. Cardinality(Unlisted) # 0
    BY <2>1, UnlistedFinite, FS_EmptySet
  <2>3. cache.list.round \in Nat
    BY ListFacts DEF Types, ListOK
  <2> QED
    BY <2>2, <2>3, UnlistedFinite DEF RoundInv
<1>3. good \in SUBSET Nodes
  BY <1>1 DEF Types
<1>4. Selected(good, cache.list.round + 1) \in Lists
  BY <1>2, <1>3 DEF Lists
<1>5. Selected(good, cache.list.round + 1).round = cache.list.round + 1
  BY DEF Selected
<1>6. \A w \in probe : wallet[w].at \in {"new", "selecting"}
  BY DEF Types
<1>7. left' \in 0..Budget
  BY <1>1, ConstantsAssumption DEF Types, Spend
<1> HIDE DEF Selected
<1> QED
  BY <1>1, <1>4, <1>5, <1>6, <1>7 DEF ProbeEnds, Gets, Given

\* Every step is of one of these kinds, and none ends the process.
LEMMA StepKinds ==
  ASSUME Types, Connections, RoundInv, [Next]_vars
  PROVE  /\ UNCHANGED configured /\ up' \subseteq Nodes
         /\ crashed' \in BOOLEAN /\ ~crashed'
         /\ left' \in 0..Budget
         /\ \/ ProbeEnds
            \/ \E w \in Wallets : Opens(w)
            \/ \E w \in Wallets : \E s, D :
                 Begins(w, s, D) /\ UNCHANGED <<cache, probe>>
            \/ \E w \in Wallets : \E s, D :
                 GoesOn(w, s, D) /\ UNCHANGED <<cache, probe, offset>>
            \/ CacheExpires
            \/ UNCHANGED <<wallet, clients, cache, probe, offset>>
<1>1. CASE UNCHANGED vars
  BY <1>1 DEF vars, world, Types
<1>2. CASE ProbeEnds
  BY <1>2, ProbeGives DEF Types, ProbeEnds
<1>3. CASE CacheExpires
  BY <1>3 DEF CacheExpires, Types
<1>4. CASE World
  BY <1>4, ConstantsAssumption DEF World, NodeFails, NodeReturns, Spend, Types
<1>5. ASSUME NEW w \in Wallets, Opens(w)
      PROVE  UNCHANGED <<configured, crashed, up, left>>
  BY <1>5 DEF Opens
<1>6. ASSUME NEW w \in Wallets, Configures(w)
      PROVE  /\ UNCHANGED <<configured, crashed, up, left, cache, probe>>
             /\ \E s, D : Begins(w, s, D)
  BY <1>6, ConfigureBegins DEF Configures
<1>7. ASSUME NEW w \in Wallets,
             \/ AttemptFails(w) \/ AttemptThrows(w) \/ Answers(w) \/ Drops(w)
             \/ TimerFires(w) \/ SetupEnds(w) \/ NavcoinConnects(w)
             \/ Closes(w)
      PROVE  /\ UNCHANGED <<configured, up, cache, probe, offset>>
             /\ crashed' \in BOOLEAN /\ ~crashed'
             /\ left' \in 0..Budget
             /\ \E s, D : GoesOn(w, s, D)
  <2>1. /\ UNCHANGED world
        /\ left' = left \/ Spend
    BY <1>7 DEF AttemptFails, AttemptThrows, Answers, Drops, TimerFires,
       SetupEnds, NavcoinConnects, Closes
  <2>2. left' \in 0..Budget
    BY <2>1, ConstantsAssumption DEF Spend, Types
  <2>3. crashed' \in BOOLEAN /\ ~crashed'
    <3>1. CASE SetupEnds(w)
      BY <3>1, SetupGoesOn
    <3>2. CASE ~SetupEnds(w)
      <4>1. UNCHANGED crashed
        BY <1>7, <3>2 DEF AttemptFails, AttemptThrows, Answers, Drops,
           TimerFires, NavcoinConnects, Closes
      <4> QED
        BY <4>1 DEF Types
    <3> QED
      BY <3>1, <3>2
  <2>4. \E s, D : GoesOn(w, s, D)
    BY <1>7, FailureGoesOn, ThrowGoesOn, AnswerGoesOn, DropGoesOn,
       TimerGoesOn, SetupGoesOn, NavcoinGoesOn, CloseGoesOn
  <2> QED
    BY <2>1, <2>2, <2>3, <2>4 DEF world
<1>8. CASE Next
  BY <1>2, <1>3, <1>4, <1>5, <1>6, <1>7, <1>8 DEF Next, Steps, Types
<1> QED
  BY <1>1, <1>8

-----------------------------------------------------------------------------
(* Types and connections.                                                  *)

\* NTR_ELECTRUM_NODES does not change, so neither do the possible lists.
LEMMA SameLists ==
  ASSUME UNCHANGED configured
  PROVE  Lists' = Lists /\ Record' = Record /\ Configured' = Configured
<1>1. Configured' = Configured
  BY DEF Configured
<1>2. Lists' = Lists
  BY <1>1 DEF Lists
<1> QED
  BY <1>1, <1>2 DEF Record

\* Every step keeps each wallet and its clients.
LEMMA WalletsStep ==
  ASSUME Types, Connections, RoundInv, [Next]_vars
  PROVE  /\ Connections' /\ wallet' \in [Wallets -> Record]
         /\ clients' \in
              [Wallets -> SUBSET [node : Nodes, at : {"dialing", "up"}]]
<1> DEFINE Kept ==
             /\ wallet' \in [Wallets -> Record]
             /\ clients' \in
                  [Wallets -> SUBSET [node : Nodes, at : {"dialing", "up"}]]
             /\ \A w \in Wallets : WalletInv(wallet'[w], clients'[w])
<1>1. Kept => Connections'
  BY StepKinds, SameLists DEF Connections, WalletInv
<1>2. \A w \in Wallets : WalletInv(wallet[w], clients[w])
  BY DEF Connections
<1>3. ASSUME NEW w \in Wallets, NEW r, NEW C, WalletTo(w, r, C),
             WalletInv(r, C)
      PROVE  Kept
  <2>1. r \in Record /\ C \in SUBSET [node : Nodes, at : {"dialing", "up"}]
    <3>1. r \in Record /\ C \subseteq [node : {r.held} \ {None},
                                     at : {"dialing", "up"}]
      BY <1>3 DEF WalletInv
    <3>2. {r.held} \ {None} \subseteq Nodes
      BY <3>1 DEF Record
    <3> QED
      BY <3>1, <3>2
  <2> QED
    BY <1>2, <1>3, <2>1 DEF WalletTo, Types
<1>4. ASSUME NEW S, NEW list, Given(S, list), UNCHANGED clients
      PROVE  Kept
  <2>1. ASSUME NEW w \in Wallets
        PROVE  WalletInv(wallet'[w], clients'[w])
    BY <1>2, <1>4, ListGiven DEF Given
  <2> QED
    BY <1>4, <2>1 DEF Given, WalletInv, Types
<1>5. ASSUME NEW w \in Wallets, Opens(w)
      PROVE  Kept
  <2>1. CASE Waits(w)
    <3>1. UNCHANGED clients /\ wallet[w].at = "new"
      BY <1>5, OpensKinds
    <3>2. WalletTo(w, [wallet[w] EXCEPT !.at = "selecting"], clients[w])
      BY <2>1, <3>1 DEF WalletTo, Waits, Types
    <3> QED
      BY <1>2, <1>3, <3>1, <3>2, WaitKeeps
  <2> QED
    BY <1>4, <1>5, <2>1, OpensKinds
<1>6. ASSUME UNCHANGED <<wallet, clients>>
      PROVE  Kept
  <2>1. wallet' \in [Wallets -> Record] /\ clients' \in
          [Wallets -> SUBSET [node : Nodes, at : {"dialing", "up"}]]
    BY <1>6 DEF Types
  <2> QED
    BY <1>2, <1>6, <2>1
<1>7. Kept
  <2> HIDE DEF Kept
  <2>1. CASE ProbeEnds
    BY <1>4, <2>1, ProbeGives
  <2>2. CASE CacheExpires
    BY <1>6, <2>2 DEF CacheExpires
  <2> QED
    BY <1>3, <1>5, <1>6, <2>1, <2>2, StepKinds DEF Begins, GoesOn
<1> QED
  BY <1>1, <1>7

\* Of a wallet, what the lists and the spread depend on.
Stays(w) == /\ wallet'[w].list = wallet[w].list
            /\ wallet'[w].start = wallet[w].start
            /\ IF wallet[w].at \in Unplaced THEN wallet'[w].at = wallet[w].at
               ELSE wallet'[w].at \notin Unplaced
Waited(w) == /\ wallet'[w].list = wallet[w].list
             /\ wallet'[w].start = wallet[w].start
             /\ wallet[w].at = "new" /\ wallet'[w].at = "selecting"
Got(w, list) ==
  /\ wallet[w].at \in {"new", "selecting"} /\ wallet[w].start = -1
  /\ wallet'[w].at = "chosen" /\ wallet'[w].list = list
  /\ wallet'[w].start = -1
BeginsNext(w) ==
  /\ wallet[w].at = "chosen" /\ wallet'[w].at \notin Unplaced
  /\ wallet[w].start = -1
  /\ wallet'[w].list = wallet[w].list
  /\ wallet'[w].start = StartIndex(wallet[w].list)
  /\ IF wallet[w].list.healthy = 0 THEN offset' = offset
     ELSE offset' = (offset + 1) % wallet[w].list.healthy

\* All that a step does to the lists.
ListStep ==
  \/ /\ UNCHANGED <<cache, probe, offset>>
     /\ \A w \in Wallets : Stays(w)
  \/ /\ UNCHANGED <<cache, probe>>
     /\ \E w \in Wallets :
          BeginsNext(w) /\ \A v \in Wallets \ {w} : Stays(v)
  \/ /\ UNCHANGED <<cache, probe, offset>>
     /\ configured = "no" => cache.fresh
     /\ \E w \in Wallets :
          Got(w, Current) /\ wallet[w].at = "new"
            /\ \A v \in Wallets \ {w} : Stays(v)
  \/ /\ UNCHANGED <<cache, offset>> /\ configured = "no" /\ ~cache.fresh
     /\ \E w \in Wallets :
          /\ probe' = probe \cup {w}
          /\ Waited(w) /\ \A v \in Wallets \ {w} : Stays(v)
  \/ /\ probe # {} /\ probe' = {} /\ UNCHANGED offset
     /\ cache' = [list |-> cache'.list, fresh |-> TRUE]
     /\ cache'.list \in Lists /\ cache'.list.round = cache.list.round + 1
     /\ \A w \in probe : Got(w, cache'.list)
     /\ \A w \in Wallets \ probe : Stays(w)
  \/ /\ cache' = [cache EXCEPT !.fresh = FALSE]
     /\ \A w \in Wallets : wallet[w].at # "chosen"
     /\ UNCHANGED <<probe, offset, wallet>>

\* A list that is given is got.
LEMMA GivenGot ==
  ASSUME Types, Connections, NEW S \in SUBSET Wallets, NEW list,
         Given(S, list), NEW w \in S
  PROVE  Got(w, list)
<1>1. WalletInv(wallet[w], clients[w])
  BY DEF Connections
<1>2. /\ wallet[w].at \in {"new", "selecting"} /\ list \in Lists
      /\ wallet'[w] = [wallet[w] EXCEPT !.at = "chosen", !.list = list]
  BY DEF Given
<1>3. wallet[w].start = -1
  BY <1>1, <1>2 DEF WalletInv, Unplaced
<1> DEFINE s == [wallet[w] EXCEPT !.at = "chosen", !.list = list]
<1>4. s.at = "chosen" /\ s.list = list /\ s.start = -1
  BY <1>1, <1>2, ListGiven
<1> HIDE DEF s
<1>5. wallet'[w] = s
  BY <1>2 DEF s
<1> QED
  BY <1>2, <1>3, <1>4, <1>5 DEF Got

\* Every step does one of these.
LEMMA ListKinds ==
  ASSUME Types, Connections, RoundInv, [Next]_vars
  PROVE  ListStep
<1>0. \A w \in Wallets :
        wallet[w] \in Record /\ WalletInv(wallet[w], clients[w])
  BY DEF Types, Connections
<1>1. ASSUME ProbeEnds PROVE ListStep
  <2>1. /\ probe # {} /\ probe' = {} /\ UNCHANGED <<offset, clients>>
        /\ cache' = [list |-> cache'.list, fresh |-> TRUE]
        /\ Given(probe, cache'.list) /\ cache'.list \in Lists
        /\ cache'.list.round = cache.list.round + 1
    BY <1>1, ProbeGives DEF ProbeEnds, Given
  <2>2. ASSUME NEW w \in probe PROVE Got(w, cache'.list)
    BY <2>1, GivenGot DEF Types
  <2>3. ASSUME NEW w \in Wallets \ probe PROVE Stays(w)
    BY <2>1 DEF Given, Stays
  <2> QED
    BY <2>1, <2>2, <2>3 DEF ListStep
<1>2. ASSUME NEW w \in Wallets, Opens(w) PROVE ListStep
  <2>0. wallet[w].at = "new" /\ UNCHANGED <<cache, offset, clients>>
    BY <1>2, OpensKinds
  <2>1. CASE /\ Given({w}, Current) /\ UNCHANGED probe
             /\ configured = "no" => cache.fresh
    <3>1. Got(w, Current)
      BY <2>1, GivenGot
    <3>2. ASSUME NEW v \in Wallets \ {w} PROVE Stays(v)
      BY <2>1 DEF Given, Stays
    <3> QED
      BY <2>0, <2>1, <3>1, <3>2 DEF ListStep
  <2>2. CASE Waits(w)
    <3>1. Waited(w)
      BY <1>0, <2>0, <2>2, WaitKeeps DEF Waits, Types, Waited, WalletInv,
         Unplaced
    <3>2. ASSUME NEW v \in Wallets \ {w} PROVE Stays(v)
      BY <2>2 DEF Waits, Stays, Types
    <3> QED
      BY <2>0, <2>2, <3>1, <3>2 DEF ListStep, Waits
  <2> QED
    BY <1>2, <2>1, <2>2, OpensKinds
<1>3. ASSUME NEW w \in Wallets, NEW s, NEW D, Begins(w, s, D),
             UNCHANGED <<cache, probe>>
      PROVE  ListStep
  <2>1. wallet'[w] = s /\ \A v \in Wallets \ {w} : wallet'[v] = wallet[v]
    BY <1>3 DEF Begins, WalletTo, Types
  <2>2. BeginsNext(w)
    BY <1>0, <1>3, <2>1 DEF Begins, BeginsNext, WalletInv, Unplaced
  <2>3. ASSUME NEW v \in Wallets \ {w} PROVE Stays(v)
    BY <2>1 DEF Stays
  <2> QED
    BY <1>3, <2>2, <2>3 DEF ListStep
<1>4. ASSUME NEW w \in Wallets, NEW s, NEW D, GoesOn(w, s, D),
             UNCHANGED <<cache, probe, offset>>
      PROVE  ListStep
  <2>1. wallet'[w] = s /\ \A v \in Wallets \ {w} : wallet'[v] = wallet[v]
    BY <1>4 DEF GoesOn, WalletTo, Types
  <2>2. ASSUME NEW v \in Wallets PROVE Stays(v)
    BY <1>4, <2>1 DEF Stays, GoesOn
  <2> QED
    BY <1>4, <2>2 DEF ListStep
<1>5. CASE CacheExpires
  BY <1>5 DEF CacheExpires, ListStep
<1>6. CASE UNCHANGED <<wallet, clients, cache, probe, offset>>
  BY <1>6 DEF ListStep, Stays
<1> QED
  BY <1>1, <1>2, <1>3, <1>4, <1>5, <1>6, StepKinds

\* Every step keeps the types.
LEMMA TypesStep ==
  ASSUME Types, Connections, RoundInv, [Next]_vars
  PROVE  Types'
<1>1. /\ Lists' = Lists /\ Record' = Record /\ UNCHANGED configured
      /\ crashed' \in BOOLEAN /\ ~crashed'
      /\ up' \subseteq Nodes /\ left' \in 0..Budget
      /\ wallet' \in [Wallets -> Record]
      /\ clients' \in [Wallets -> SUBSET [node : Nodes,
                                          at : {"dialing", "up"}]]
  BY StepKinds, SameLists, WalletsStep
<1>2. ListStep
  BY ListKinds
<1>3. \A w \in Wallets : wallet[w] \in Record
  BY DEF Types
<1>4. cache' \in [list : Lists, fresh : BOOLEAN]
  <2>1. cache \in [list : Lists, fresh : BOOLEAN]
    BY DEF Types
  <2>2. \/ cache' = cache
        \/ /\ cache' = [list |-> cache'.list, fresh |-> TRUE]
           /\ cache'.list \in Lists
        \/ cache' = [cache EXCEPT !.fresh = FALSE]
    BY <1>2, Zenon DEF ListStep
  <2>3. CASE /\ cache' = [list |-> cache'.list, fresh |-> TRUE]
             /\ cache'.list \in Lists
    <3>1. PICK list \in Lists : cache' = [list |-> list, fresh |-> TRUE]
      BY <2>3
    <3> QED
      BY <3>1
  <2>4. CASE cache' = [cache EXCEPT !.fresh = FALSE]
    BY <2>1, <2>4
  <2> QED
    BY <2>1, <2>2, <2>3, <2>4
<1>5. offset' \in 0..N
  <2>1. ASSUME NEW w \in Wallets, BeginsNext(w)
        PROVE  offset' \in 0..N
    <3>1. /\ wallet[w].list.healthy \in 0..N /\ offset \in 0..N
          /\ offset \in Nat /\ offset + 1 \in Nat
      <4>1. ListOK(wallet[w].list)
        BY <1>3, ListFacts DEF Record
      <4>2. Len(wallet[w].list.nodes) \in 0..N
        BY <4>1, ConstantsAssumption DEF ListOK
      <4> QED
        BY <4>1, <4>2, ConstantsAssumption DEF Types, ListOK
    <3>2. wallet[w].list.healthy # 0 =>
            (offset + 1) % wallet[w].list.healthy
               \in 0..(wallet[w].list.healthy - 1)
      BY <3>1, Division, ConstantsAssumption
    <3> QED
      BY <2>1, <3>1, <3>2, ConstantsAssumption DEF BeginsNext
  <2> QED
    BY <1>2, <2>1 DEF ListStep, Types
<1>6. probe' = {w \in Wallets : wallet'[w].at = "selecting"}
  BY <1>2 DEF ListStep, Types, Stays, BeginsNext, Got, Waited, Unplaced
<1> QED
  BY <1>1, <1>4, <1>5, <1>6 DEF Types

\* Every step keeps the account of the probes.
LEMMA RoundStep ==
  ASSUME Types, Connections, RoundInv, [Next]_vars
  PROVE  RoundInv'
<1>1. ListStep
  BY ListKinds
<1>2. IsFiniteSet(Unlisted) /\ cache.list.round \in Nat
  BY UnlistedFinite, ListFacts DEF Types, ListOK
<1>3. CASE Unlisted' \subseteq Unlisted /\ cache'.list = cache.list
  <2>1. Cardinality(Unlisted') <= Cardinality(Unlisted)
    BY <1>2, <1>3, FS_Subset
  <2>2. Cardinality(Unlisted') \in Nat
    BY <1>2, <1>3, FS_Subset, FS_CardinalityType
  <2> QED
    BY <1>2, <1>3, <2>1, <2>2, UnlistedFinite DEF RoundInv
<1>4. CASE /\ probe # {} /\ cache'.list.round = cache.list.round + 1
           /\ \A w \in probe : Got(w, cache'.list)
           /\ \A w \in Wallets \ probe : Stays(w)
  <2>1. PICK v \in probe : TRUE
    BY <1>4
  <2>2. v \in Unlisted /\ Unlisted' \subseteq Unlisted \ {v}
    BY <1>4, <2>1 DEF Types, Unlisted, Got, Stays, Unplaced
  <2>3. /\ IsFiniteSet(Unlisted \ {v})
        /\ Cardinality(Unlisted \ {v}) = Cardinality(Unlisted) - 1
    BY <1>2, <2>2, FS_RemoveElement
  <2>4. /\ Cardinality(Unlisted') <= Cardinality(Unlisted) - 1
        /\ Cardinality(Unlisted') \in Nat
    BY <2>2, <2>3, FS_Subset, FS_CardinalityType
  <2> QED
    BY <1>2, <1>4, <2>4, UnlistedFinite DEF RoundInv
<1>5. \/ Unlisted' \subseteq Unlisted /\ cache'.list = cache.list
      \/ /\ probe # {} /\ cache'.list.round = cache.list.round + 1
         /\ \A w \in probe : Got(w, cache'.list)
         /\ \A w \in Wallets \ probe : Stays(w)
  BY <1>1 DEF ListStep, Types, Stays, BeginsNext, Got, Waited, Unplaced,
     Unlisted
<1> QED
  BY <1>3, <1>4, <1>5

-----------------------------------------------------------------------------
(* The lists, and who begins where.                                        *)

\* Every step keeps the lists in order: a wallet that has not begun cannot
\* outlive the cache it was served from.
LEMMA ListInvStep ==
  ASSUME Types, Connections, RoundInv, ListInv, [Next]_vars
  PROVE  ListInv'
<1>1. ListStep /\ UNCHANGED configured /\ Configured' = Configured
  BY ListKinds, StepKinds, SameLists
<1>2. \A w \in Wallets :
        /\ wallet[w] \in Record
        /\ wallet[w].at \in Unplaced <=> wallet[w].start = -1
  BY DEF Types, Connections, WalletInv
<1>3. Current.round \in Nat /\ cache.list.round \in Nat
  <2>1. Current \in Lists /\ cache.list \in Lists
    BY DEF Current, Types, Lists
  <2> QED
    BY <2>1, ListFacts DEF ListOK
<1> DEFINE Fine(w) ==
             /\ wallet'[w].at = "chosen" =>
                  /\ wallet'[w].list = Current'
                  /\ configured = "no" => cache'.fresh
             /\ wallet'[w].start # -1 =>
                  /\ wallet'[w].list.round <= Current'.round
                  /\ wallet'[w].list.nodes # <<>> => wallet'[w].start
                       \in 0..(wallet'[w].list.healthy - 1)
           Goal == /\ probe' # {} => configured = "no" /\ ~cache'.fresh
                   /\ \A w \in Wallets : Fine(w)
<1>4. /\ probe # {} => configured = "no" /\ ~cache.fresh
      /\ \A w \in Wallets :
           /\ wallet[w].at = "chosen" =>
                wallet[w].list = Current /\ (configured = "no" => cache.fresh)
           /\ wallet[w].start # -1 =>
                /\ wallet[w].list.round <= Current.round
                /\ wallet[w].list.nodes # <<>> =>
                     wallet[w].start \in 0..(wallet[w].list.healthy - 1)
  BY DEF ListInv, Placed
<1>5. cache'.list = cache.list => Current' = Current
  BY <1>1 DEF Current
<1>6. ASSUME UNCHANGED cache, NEW w \in Wallets, Stays(w) \/ Waited(w)
      PROVE  Fine(w)
  BY <1>2, <1>4, <1>5, <1>6 DEF Stays, Waited, Unplaced
<1>7. ASSUME UNCHANGED <<cache, probe>>, NEW w \in Wallets, BeginsNext(w),
             \A v \in Wallets \ {w} : Stays(v)
      PROVE  Goal
  <2>1. wallet'[w].list = Current /\ Current' = Current
    BY <1>4, <1>5, <1>7 DEF BeginsNext
  <2>2. ListOK(wallet[w].list) /\ offset \in Nat
    BY <1>2, ListFacts, ConstantsAssumption DEF Record, Types
  <2>3. wallet[w].list.nodes # <<>> =>
          StartIndex(wallet[w].list) \in 0..(wallet[w].list.healthy - 1)
    BY <2>2, Division, EmptySeq, ConstantsAssumption DEF StartIndex, ListOK
  <2>4. Fine(w)
    BY <1>3, <1>7, <2>1, <2>3 DEF BeginsNext, Unplaced
  <2> QED
    BY <1>4, <1>6, <1>7, <2>4
<1>8. ASSUME UNCHANGED <<cache, probe>>, configured = "no" => cache.fresh,
             NEW w \in Wallets, Got(w, Current),
             \A v \in Wallets \ {w} : Stays(v)
      PROVE  Goal
  <2>1. Fine(w)
    BY <1>5, <1>8 DEF Got
  <2> QED
    BY <1>4, <1>6, <1>8, <2>1
<1>9. ASSUME UNCHANGED cache, configured = "no", ~cache.fresh,
             NEW w \in Wallets, Waited(w),
             \A v \in Wallets \ {w} : Stays(v)
      PROVE  Goal
  BY <1>6, <1>9
<1>10. ASSUME probe # {}, probe' = {},
              cache' = [list |-> cache'.list, fresh |-> TRUE],
              cache'.list.round = cache.list.round + 1,
              \A w \in probe : Got(w, cache'.list),
              \A w \in Wallets \ probe : Stays(w)
       PROVE  Goal
  <2>1. configured = "no" /\ ~cache.fresh /\ Current = cache.list
        /\ Current' = cache'.list /\ cache'.fresh
    BY <1>1, <1>4, <1>10 DEF Current
  <2>2. ASSUME NEW w \in probe PROVE Fine(w)
    BY <1>10, <2>1, <2>2 DEF Got
  <2>3. ASSUME NEW w \in Wallets \ probe PROVE Fine(w)
    <3>1. wallet[w].at # "chosen" /\ Stays(w)
      BY <1>4, <1>10, <2>1
    <3>2. wallet'[w].at # "chosen"
      BY <3>1 DEF Stays, Unplaced
    <3>3. wallet[w].list.round \in Int
      <4>1. ListOK(wallet[w].list)
        BY <1>2, ListFacts DEF Record
      <4> QED
        BY <4>1 DEF ListOK
    <3> QED
      BY <1>3, <1>4, <1>10, <2>1, <3>1, <3>2, <3>3 DEF Stays
  <2> QED
    BY <1>10, <2>2, <2>3
<1>11. ASSUME cache' = [cache EXCEPT !.fresh = FALSE],
              \A w \in Wallets : wallet[w].at # "chosen",
              UNCHANGED <<probe, wallet>>
       PROVE  Goal
  <2>1. cache'.list = cache.list /\ ~cache'.fresh
    BY <1>11 DEF Types
  <2> QED
    BY <1>4, <1>5, <1>11, <2>1
<1>12. Goal
  <2>1. CASE /\ UNCHANGED <<cache, probe, offset>>
             /\ \A w \in Wallets : Stays(w)
    BY <1>4, <1>6, <2>1
  <2> HIDE DEF Goal
  <2> QED
    BY <1>1, <1>7, <1>8, <1>9, <1>10, <1>11, <2>1 DEF ListStep
<1> QED
  BY <1>1, <1>12 DEF ListInv, Placed

\* How many are spread how, before a step and after it.
BegunNext(list, i) ==
  Cardinality({w \in Wallets :
                 wallet'[w].list = list /\ wallet'[w].start = i})

\* The wallets that begin on a node can be counted.
LEMMA BegunCounts ==
  ASSUME NEW list, NEW i
  PROVE  Begun(list, i) \in Nat
<1> DEFINE S == {w \in Wallets : wallet[w].list = list /\ wallet[w].start = i}
<1>1. S \in SUBSET Wallets
  OBVIOUS
<1> HIDE DEF S
<1>2. Cardinality(S) \in Nat
  BY <1>1, UnlistedFinite
<1> QED
  BY <1>2 DEF Begun, S

\* When no wallet begins, no count changes.
LEMMA CountsStay ==
  ASSUME \A w \in Wallets :
           \/ /\ wallet'[w].list = wallet[w].list
              /\ wallet'[w].start = wallet[w].start
           \/ wallet[w].start = -1 /\ wallet'[w].start = -1,
         NEW list, NEW i \in Nat
  PROVE  BegunNext(list, i) = Begun(list, i)
<1>1. {w \in Wallets : wallet'[w].list = list /\ wallet'[w].start = i} =
      {w \in Wallets : wallet[w].list = list /\ wallet[w].start = i}
  OBVIOUS
<1> QED
  BY <1>1 DEF Begun, BegunNext

\* When one does, the count of its list and node grows by one.
LEMMA CountsOneMore ==
  ASSUME NEW w \in Wallets, wallet[w].start = -1,
         wallet'[w].list = wallet[w].list, wallet'[w].start \in Nat,
         \A v \in Wallets \ {w} : /\ wallet'[v].list = wallet[v].list
                                  /\ wallet'[v].start = wallet[v].start,
         NEW list, NEW i \in Nat
  PROVE  BegunNext(list, i) =
           IF list = wallet[w].list /\ i = wallet'[w].start
           THEN Begun(list, i) + 1 ELSE Begun(list, i)
<1> DEFINE S == {v \in Wallets : wallet[v].list = list /\ wallet[v].start = i}
           T == {v \in Wallets :
                   wallet'[v].list = list /\ wallet'[v].start = i}
<1>1. Begun(list, i) = Cardinality(S) /\ BegunNext(list, i) = Cardinality(T)
  BY DEF Begun, BegunNext
<1>2. S \in SUBSET Wallets /\ w \notin S
  OBVIOUS
<1>3. CASE list = wallet[w].list /\ i = wallet'[w].start
  <2>1. T = S \cup {w}
    BY <1>3
  <2> HIDE DEF S, T
  <2>2. Cardinality(T) = Cardinality(S) + 1
    BY <1>2, <2>1, UnlistedFinite, FS_AddElement
  <2> QED
    BY <1>1, <1>3, <2>2
<1>4. CASE ~(list = wallet[w].list /\ i = wallet'[w].start)
  <2>1. T = S
    BY <1>4
  <2> QED
    BY <1>1, <1>4, <2>1
<1> QED
  BY <1>3, <1>4

\* h counts, of which the o-th is the next to grow and then b.
Level(h, f) == \A i, j \in 0..(h - 1) : f[i] <= f[j] + 1
InTurn(h, o, f) ==
  \A i, j \in 0..(h - 1) : Sooner(o, i, j) => f[i] <= f[j]
OneMore(h, o, f, g) == \A i \in 0..(h - 1) :
  f[i] \in Nat /\ g[i] = IF i = o THEN f[i] + 1 ELSE f[i]
Follows(h, o, b) == b = IF o + 1 = h THEN 0 ELSE o + 1

\* The least of counts that are level and in turn grows by one: they stay
\* level, and in turn from the next place on.
LEMMA OneMoreTurn ==
  ASSUME NEW h \in Nat, NEW f, NEW g, NEW o \in 0..(h - 1), NEW b,
         OneMore(h, o, f, g), Follows(h, o, b), Level(h, f), InTurn(h, o, f)
  PROVE  Level(h, g) /\ InTurn(h, b, g)
<1> USE DEF OneMore, Follows, Level, InTurn
<1>1. \A j \in 0..(h - 1) : f[o] <= f[j]
  BY DEF Sooner
<1>2. ASSUME NEW i \in 0..(h - 1), NEW j \in 0..(h - 1)
      PROVE  g[i] <= g[j] + 1
  BY <1>1
<1>3. ASSUME NEW i \in 0..(h - 1), NEW j \in 0..(h - 1), Sooner(b, i, j)
      PROVE  g[i] <= g[j]
  <2>1. CASE i = o
    <3>1. j = o
      BY <1>3, <2>1 DEF Sooner
    <3> QED
      BY <2>1, <3>1
  <2>2. CASE i # o /\ j = o
    BY <2>2
  <2>3. CASE i # o /\ j # o
    <3>1. Sooner(o, i, j)
      BY <1>3, <2>3 DEF Sooner
    <3> QED
      BY <2>3, <3>1
  <2> QED
    BY <2>1, <2>2, <2>3
<1> QED
  BY <1>2, <1>3

EvenNext(list) == \A i, j \in 0..(list.healthy - 1) :
  BegunNext(list, i) <= BegunNext(list, j) + 1
InTurnNext(list) == list.healthy > 0 =>
  \A i, j \in 0..(list.healthy - 1) :
    Sooner(offset' % list.healthy, i, j) =>
      BegunNext(list, i) <= BegunNext(list, j)

\* The list that a wallet begins on.
LEMMA SpreadBegins ==
  ASSUME Types, Connections, ListInv, SpreadInv, NEW w \in Wallets,
         BeginsNext(w), \A v \in Wallets \ {w} : Stays(v)
  PROVE  /\ wallet[w].list = Current
         /\ EvenNext(Current) /\ InTurnNext(Current)
         /\ \A list : list # Current /\ Even(list) => EvenNext(list)
<1> DEFINE L == Current
           h == L.healthy
           o == offset % h
           f == [i \in 0..(h - 1) |-> Begun(L, i)]
           g == [i \in 0..(h - 1) |-> BegunNext(L, i)]
<1>1. wallet[w].list = L
  BY DEF ListInv, BeginsNext
<1>2. /\ h \in Nat /\ offset \in Nat
      /\ h > 0 => wallet'[w].start = o /\ offset' = (offset + 1) % h
      /\ h = 0 => wallet'[w].start = 0
  <2>1. ListOK(L) /\ offset \in Nat
    BY <1>1, ListFacts, ConstantsAssumption DEF Types, Record
  <2> QED
    BY <1>1, <2>1, ConstantsAssumption DEF BeginsNext, StartIndex, ListOK
<1>3. wallet'[w].start \in Nat /\ (h > 0 => o \in 0..(h - 1))
  BY <1>2, Division
<1>4. ASSUME NEW list, NEW i \in Nat
      PROVE  BegunNext(list, i) =
               IF list = L /\ i = wallet'[w].start
               THEN Begun(list, i) + 1 ELSE Begun(list, i)
  <2>1. wallet[w].start = -1 /\ wallet'[w].list = wallet[w].list
    BY DEF BeginsNext
  <2>2. \A v \in Wallets \ {w} : /\ wallet'[v].list = wallet[v].list
                                /\ wallet'[v].start = wallet[v].start
    BY DEF Stays
  <2> QED
    BY <1>1, <1>3, <2>1, <2>2, CountsOneMore
<1> HIDE DEF L
<1>5. ASSUME NEW list, list # L, Even(list)
      PROVE  EvenNext(list)
  BY <1>4, <1>5 DEF Even, EvenNext
<1>6. EvenNext(L) /\ InTurnNext(L)
  <2>1. CASE h = 0
    BY <2>1 DEF EvenNext, InTurnNext
  <2>2. CASE h > 0
    <3> HIDE DEF h
    <3>1. offset' % h = (IF o + 1 = h THEN 0 ELSE o + 1)
      <4>1. /\ (offset + 1) % h = (IF o + 1 = h THEN 0 ELSE o + 1)
            /\ ((offset + 1) % h) % h = (offset + 1) % h
        BY <1>2, <2>2, NextInTurn
      <4> QED
        BY <1>2, <2>2, <4>1
    <3>2. \A i \in 0..(h - 1) :
            f[i] \in Nat /\ f[i] = Begun(L, i) /\ g[i] = BegunNext(L, i)
      BY BegunCounts
    <3>3. \A i \in 0..(h - 1) : g[i] = IF i = o THEN f[i] + 1 ELSE f[i]
      BY <1>2, <1>4, <2>2, <3>2
    <3>4. /\ \A i, j \in 0..(h - 1) : f[i] <= f[j] + 1
          /\ \A i, j \in 0..(h - 1) : Sooner(o, i, j) => f[i] <= f[j]
      BY <2>2, <3>2 DEF SpreadInv, Even, L, h
    <3> DEFINE b == offset' % h
    <3> HIDE DEF f, g, o, b
    <3>5. OneMore(h, o, f, g)
      BY <3>2, <3>3 DEF OneMore
    <3>6. Level(h, f) /\ InTurn(h, o, f)
      BY <3>4 DEF Level, InTurn
    <3>7. Follows(h, o, b)
      BY <3>1 DEF Follows, b
    <3>8. h \in Nat /\ o \in 0..(h - 1)
      BY <1>2, <1>3, <2>2
    <3>9. Level(h, g) /\ InTurn(h, b, g)
      BY <3>5, <3>6, <3>7, <3>8, OneMoreTurn
    <3> QED
      BY <3>2, <3>9 DEF EvenNext, InTurnNext, Level, InTurn, b, h
  <2> QED
    BY <1>2, <2>1, <2>2
<1> QED
  BY <1>1, <1>5, <1>6 DEF L

\* A list that nobody has had.
LEMMA SpreadFresh ==
  ASSUME Types, ListInv, NEW list, configured = "no",
         list.round = cache.list.round + 1, NEW i \in Nat
  PROVE  Begun(list, i) = 0
<1>1. ASSUME NEW w \in Wallets, wallet[w].start = i
      PROVE  wallet[w].list # list
  <2>1. wallet[w].list.round <= cache.list.round
    BY <1>1 DEF ListInv, Placed, Current
  <2>2. cache.list.round \in Nat
    BY ListFacts DEF Types, ListOK
  <2>3. wallet[w].list.round \in Nat
    BY ListFacts DEF Types, Record, ListOK
  <2> QED
    BY <2>1, <2>2, <2>3
<1>2. {w \in Wallets : wallet[w].list = list /\ wallet[w].start = i} = {}
  BY <1>1
<1> QED
  BY <1>2, FS_EmptySet DEF Begun

\* Every step keeps the spread.
LEMMA SpreadStep ==
  ASSUME Types, Connections, RoundInv, ListInv, SpreadInv, [Next]_vars
  PROVE  SpreadInv'
<1>1. ListStep /\ UNCHANGED configured /\ Configured' = Configured
  BY ListKinds, StepKinds, SameLists
<1> DEFINE Goal ==
      /\ \A w \in Wallets : wallet'[w].start # -1 => EvenNext(wallet'[w].list)
      /\ EvenNext(Current') /\ InTurnNext(Current')
           Quiet == \A w \in Wallets :
             \/ /\ wallet'[w].list = wallet[w].list
                /\ wallet'[w].start = wallet[w].start
             \/ wallet[w].start = -1 /\ wallet'[w].start = -1
<1>2. /\ \A w \in Wallets : wallet[w].start # -1 => Even(wallet[w].list)
      /\ Even(Current)
  BY DEF SpreadInv, Placed
<1>3. cache'.list = cache.list => Current' = Current
  BY <1>1 DEF Current
<1>4. ASSUME Quiet
      PROVE  /\ \A list : \A i \in Nat : BegunNext(list, i) = Begun(list, i)
             /\ \A list : Even(list) => EvenNext(list)
             /\ \A w \in Wallets :
                  wallet'[w].start # -1 => EvenNext(wallet'[w].list)
  <2>1. \A list : \A i \in Nat : BegunNext(list, i) = Begun(list, i)
    BY <1>4, CountsStay
  <2>2. \A list : Even(list) => EvenNext(list)
    BY <2>1 DEF Even, EvenNext
  <2> QED
    BY <1>2, <1>4, <2>1, <2>2
<1>5. ASSUME Quiet, cache'.list = cache.list, UNCHANGED offset
      PROVE  Goal
  <2>1. Current' = Current
    BY <1>3, <1>5
  <2>2. InTurnNext(Current)
    BY <1>4, <1>5 DEF SpreadInv, InTurnNext
  <2> QED
    BY <1>2, <1>4, <1>5, <2>1, <2>2
<1>6. ASSUME UNCHANGED <<cache, probe>>, NEW w \in Wallets, BeginsNext(w),
             \A v \in Wallets \ {w} : Stays(v)
      PROVE  Goal
  <2>1. Current' = Current /\ wallet'[w].list = Current
    BY <1>3, <1>6, SpreadBegins DEF BeginsNext
  <2>2. ASSUME NEW v \in Wallets, wallet'[v].start # -1
        PROVE  EvenNext(wallet'[v].list)
    <3>1. CASE v # w
      BY <1>2, <1>6, <2>2, <3>1, SpreadBegins DEF Stays
    <3> QED
      BY <1>6, <2>1, <3>1, SpreadBegins
  <2> QED
    BY <1>6, <2>1, <2>2, SpreadBegins
<1>7. ASSUME probe # {}, Quiet, cache'.list.round = cache.list.round + 1
      PROVE  Goal
  <2>1. configured = "no" /\ Current' = cache'.list
    BY <1>1, <1>7 DEF ListInv, Current
  <2>2. \A i \in Nat : BegunNext(Current', i) = 0
    BY <1>4, <1>7, <2>1, SpreadFresh
  <2>3. EvenNext(Current') /\ InTurnNext(Current')
    BY <2>2 DEF EvenNext, InTurnNext
  <2> QED
    BY <1>4, <1>7, <2>3
<1>8. Goal
  <2>1. ASSUME probe # {}, \A w \in probe : Got(w, cache'.list),
               \A w \in Wallets \ probe : Stays(w)
        PROVE  Quiet
    BY <2>1 DEF Got, Stays
  <2>2. ASSUME NEW w \in Wallets, Got(w, Current) \/ Waited(w),
               \A v \in Wallets \ {w} : Stays(v)
        PROVE  Quiet
    BY <2>2 DEF Got, Stays, Waited
  <2>3. ASSUME \A w \in Wallets : Stays(w)
        PROVE  Quiet
    BY <2>3 DEF Stays
  <2>4. ASSUME UNCHANGED wallet
        PROVE  Quiet
    BY <2>4
  <2>5. cache' = [cache EXCEPT !.fresh = FALSE] => cache'.list = cache.list
    BY DEF Types
  <2> HIDE DEF Goal, Quiet
  <2> QED
    BY <1>1, <1>5, <1>6, <1>7, <2>1, <2>2, <2>3, <2>4, <2>5 DEF ListStep
<1> QED
  BY <1>8 DEF SpreadInv, Even, EvenNext, InTurnNext, Begun, BegunNext, Placed

-----------------------------------------------------------------------------
(* The invariant.                                                          *)

\* The first state.
LEMMA IInvInit ==
  ASSUME Init
  PROVE  IInv
<1>1. Selected({}, 0) \in Lists /\ Configured \in Lists
  BY UnlistedFinite DEF Lists
<1>2. /\ wallet = [w \in Wallets |-> NewWallet]
      /\ clients = [w \in Wallets |-> {}]
  BY DEF Init
<1>3. /\ NewWallet \in Record /\ NewWallet.at = "new"
      /\ NewWallet.start = -1 /\ NewWallet.timer = "no"
      /\ NewWallet.held = None /\ NewWallet.server = None
      /\ NewWallet.index = 0 /\ ~NewWallet.closed /\ ~NewWallet.setup
      /\ NewWallet.list = Configured
  BY <1>1, ConstantsAssumption DEF NewWallet, Record
<1>4. Types
  <2>1. crashed \in BOOLEAN /\ ~crashed
    BY Zenon DEF Init
  <2> QED
    BY <1>1, <1>2, <1>3, <2>1, ConstantsAssumption DEF Init, Types
<1>5. Connections
  <2>1. Configured.nodes # <<>> => 0 < Len(Configured.nodes)
    BY <1>1, ListFacts, EmptySeq, ConstantsAssumption DEF ListOK
  <2> QED
    BY <1>2, <1>3, <2>1 DEF Connections, WalletInv, Unplaced
<1>6. RoundInv
  <2>1. cache.list.round = 0
    BY DEF Init, Selected
  <2>2. Cardinality(Unlisted) <= Cardinality(Wallets)
    BY FS_Subset, ConstantsAssumption DEF Unlisted
  <2> QED
    BY <2>1, <2>2, UnlistedFinite DEF RoundInv
<1>7. ListInv
  BY <1>2, <1>3 DEF ListInv, Init, Placed
<1>8. SpreadInv
  <2>1. ASSUME NEW list, NEW i \in Nat
        PROVE  Begun(list, i) = 0
    <3>1. {w \in Wallets : wallet[w].list = list /\ wallet[w].start = i} = {}
      BY <1>2, <1>3
    <3> QED
      BY <3>1, FS_EmptySet DEF Begun
  <2>2. Placed = {}
    BY <1>2, <1>3 DEF Placed
  <2> QED
    BY <2>1, <2>2 DEF SpreadInv, Even
<1> QED
  BY <1>4, <1>5, <1>6, <1>7, <1>8 DEF IInv

\* Every step keeps the inductive invariant.
LEMMA IInvStep ==
  ASSUME IInv, [Next]_vars
  PROVE  IInv'
BY TypesStep, WalletsStep, RoundStep, ListInvStep, SpreadStep DEF IInv

\* The inductive invariant holds in every reachable state.
THEOREM IInvHolds == Spec => []IInv
<1>1. Init => IInv
  BY IInvInit
<1>2. IInv /\ [Next]_vars => IInv'
  BY IInvStep
<1> QED
  BY <1>1, <1>2, PTL DEF Spec

\* Every reachable state has its type, and a wallet points at a node of its
\* list (advanceElectrumNode, configureElectrumNodes).
THEOREM TypeCorrect == Spec => []TypeOK
<1>1. ASSUME IInv PROVE TypeOK
  <2>1. Types /\ \A w \in Wallets : WalletInv(wallet[w], clients[w])
    BY <1>1 DEF IInv, Connections
  <2>2. \A w \in Wallets :
          /\ clients[w] \subseteq [node : Nodes, at : {"dialing", "up"}]
          /\ wallet[w].list.nodes # <<>> =>
               wallet[w].index < Len(wallet[w].list.nodes)
    BY <2>1 DEF Types, WalletInv
  <2>3. wallet \in [Wallets -> Record] /\ crashed \in BOOLEAN
    BY <2>1 DEF Types
  <2> QED
    BY <2>1, <2>2, <2>3 DEF Types, TypeOK, Record
<1> QED
  BY <1>1, IInvHolds, PTL

\* A wallet that counts as connected holds the client that is, a closed
\* wallet hears none, and no setup ends the process (superviseConnects,
\* retireElectrumClient and containSetupAfterClose in
\* src/src/electrum-connection.js).
THEOREM ClientsSupervisedHolds == Spec => []ClientsSupervised
<1>1. ASSUME IInv PROVE ClientsSupervised
  <2>1. Types /\ \A w \in Wallets : WalletInv(wallet[w], clients[w])
    BY <1>1 DEF IInv, Connections
  <2>2. ASSUME NEW w \in Wallets, wallet[w].closed
        PROVE  clients[w] = {}
    BY <2>1, <2>2 DEF WalletInv
  <2> QED
    BY <2>1, <2>2 DEF ClientsSupervised, Types, WalletInv
<1> QED
  BY <1>1, IInvHolds, PTL

\* No wallet begins on a node that the probe found dead while another
\* answered, and the wallets of one list are spread evenly over those that
\* did (configureElectrumNodes in src/src/electrum-connection.js).
THEOREM SpreadOverHealthyHolds == Spec => []SpreadOverHealthy
<1>1. ASSUME IInv PROVE SpreadOverHealthy
  <2>1. ASSUME NEW w \in Wallets, wallet[w].start >= 0,
               wallet[w].list.nodes # <<>>
        PROVE  /\ wallet[w].list.good # {} =>
                    wallet[w].list.nodes[wallet[w].start + 1]
                      \in wallet[w].list.good
               /\ Even(wallet[w].list)
    <3>1. ListOK(wallet[w].list) /\ wallet[w].start \in Int
      BY <1>1, ListFacts, ConstantsAssumption DEF IInv, Types, Record
    <3>2. w \in Placed
      BY <2>1 DEF Placed
    <3>3. wallet[w].start \in 0..(wallet[w].list.healthy - 1)
      BY <1>1, <2>1, <3>2 DEF IInv, ListInv
    <3> QED
      BY <1>1, <3>1, <3>2, <3>3 DEF IInv, SpreadInv, ListOK
  <2> QED
    BY <2>1 DEF SpreadOverHealthy, Even
<1> QED
  BY <1>1, IInvHolds, PTL

-----------------------------------------------------------------------------
(* Each wallet implements its connection.                                  *)

\* A wallet at rest waits for a timer, and one that has yet to begin has tried
\* no node.
Onward(r) ==
  /\ LinkOf(r) # "forgotten"
  /\ r.at \in Unplaced => r.tried = 0
OnwardInv == \A w \in Wallets : Onward(wallet[w])

\* What NodeLink allows of a step, but for starting over.
Moves(a, b) ==
  \/ a = b
  \/ a \in {"loading", "waiting"} /\ b = "trying"
  \/ a \in {"trying", "waiting", "dead"} /\ b = "up"
  \/ a \in {"trying", "up"} /\ b = "waiting"
  \/ a = "trying" /\ b = "dead"
  \/ a # "gone" /\ b = "gone"
Goes(w) ==
  Onward(wallet'[w]) /\ Moves(LinkOf(wallet[w]), LinkOf(wallet'[w]))

\* Such a step is a step of NodeLink.
LEMMA MovesAllowed ==
  ASSUME NEW w \in Wallets, Moves(LinkOf(wallet[w]), LinkOf(wallet'[w]))
  PROVE  [Link(w)!Next]_(LinkOf(wallet[w]))
BY DEF Moves, LinkOf, Link!Next, Link!Try, Link!Answer, Link!Lose, Link!GiveUp,
   Link!Close

\* A wallet that was given a list has a place in it, or the list is empty.
LEMMA NoPlace ==
  ASSUME NEW r \in Record
  PROVE  /\ Len(r.list.nodes) \in Nat
         /\ r.list.nodes = <<>> <=> Len(r.list.nodes) = 0
<1>1. ListOK(r.list)
  BY ListFacts DEF Record
<1> QED
  BY <1>1, EmptySeq DEF ListOK

\* An attempt goes on trying; the end of a pass waits, or with no nodes in the
\* list tries as much as it did.
LEMMA AttemptTries ==
  ASSUME Types, NEW w \in Wallets, NEW r \in Record, NEW C,
         Attempt(w, r, C), r.server = None, ~r.closed
  PROVE  LET s == wallet'[w]
         IN  /\ s.at \notin Unplaced /\ LinkOf(s) # "forgotten"
             /\ IF r.tried < Len(r.list.nodes) \/ r.list.nodes = <<>>
                THEN LinkOf(s) = "trying" ELSE LinkOf(s) = "waiting"
<1>0. /\ Len(r.list.nodes) \in Nat /\ r.tried \in Nat
      /\ r.list.nodes = <<>> <=> Len(r.list.nodes) = 0
  BY NoPlace, ConstantsAssumption DEF Record
<1>1. CASE r.tried < Len(r.list.nodes)
  <2>1. wallet'[w] = [r EXCEPT !.at = "attempt",
                               !.held = r.list.nodes[r.index + 1]]
    BY <1>1 DEF Attempt, Dial, Types
  <2>2. /\ wallet'[w].at = "attempt" /\ wallet'[w].server = None
        /\ ~wallet'[w].closed
    BY <2>1 DEF Record
  <2> QED
    BY <1>1, <2>2 DEF LinkOf, Unplaced
<1>2. CASE ~(r.tried < Len(r.list.nodes))
  <2>1. wallet'[w] = [r EXCEPT !.at = "rest",
                        !.timer = IF r.timer = "no" THEN "retry" ELSE r.timer]
    BY <1>2 DEF Attempt, Types, Record
  <2>2. /\ wallet'[w].at = "rest" /\ wallet'[w].server = None
        /\ ~wallet'[w].closed /\ wallet'[w].timer # "no"
        /\ wallet'[w].list = r.list
    BY <2>1 DEF Record
  <2> QED
    BY <1>0, <1>2, <2>2 DEF LinkOf, Unplaced
<1> QED
  BY <1>1, <1>2

\* What is known of a wallet before a step.
Known(w) ==
  /\ wallet[w] \in Record /\ WalletInv(wallet[w], clients[w])
  /\ Onward(wallet[w])

\* A wallet with a node goes on trying, or waits for the next pass.
LEMMA FailureMoves ==
  ASSUME Types, NEW w \in Wallets, Known(w), AttemptFails(w)
  PROVE  Goes(w)
<1> DEFINE q == [wallet[w] EXCEPT !.tried = @ + 1]
           r == Advanced(q)
<1>1. /\ wallet[w].at = "attempt" /\ wallet[w].server = None
      /\ ~wallet[w].closed
      /\ wallet[w].tried < Len(wallet[w].list.nodes)
      /\ wallet[w].tried \in Nat /\ Len(wallet[w].list.nodes) \in 0..N
  BY ListFacts, ConstantsAssumption
     DEF AttemptFails, Known, WalletInv, Record, ListOK
<1>2. PICK late : Attempt(w, r, late)
  BY DEF AttemptFails
<1>3. /\ q \in Record /\ q.list = wallet[w].list /\ q.server = None
      /\ ~q.closed
  BY <1>1, ConstantsAssumption DEF Known, Record
<1> HIDE DEF q
<1>4. r \in Record /\ r.list = q.list /\ r.server = None /\ ~r.closed
  BY <1>3, AdvancedFacts
<1> HIDE DEF r
<1>5. r.list.nodes # <<>>
  BY <1>1, <1>3, <1>4, EmptySeq DEF Known, WalletInv
<1>6. LinkOf(wallet[w]) = "trying"
  BY <1>1 DEF LinkOf
<1> QED
  BY <1>2, <1>4, <1>5, <1>6, AttemptTries DEF Goes, Onward, Moves

\* A wallet whose pass threw is given up.
LEMMA ThrowMoves ==
  ASSUME Types, NEW w \in Wallets, Known(w), AttemptThrows(w)
  PROVE  Goes(w)
<1>1. /\ wallet[w].at = "attempt" /\ wallet[w].server = None
      /\ ~wallet[w].closed
  BY DEF AttemptThrows, Known, WalletInv
<1>2. /\ wallet'[w].at = "thrown" /\ wallet'[w].server = None
      /\ ~wallet'[w].closed
  BY <1>1 DEF AttemptThrows, Types, Record
<1> QED
  BY <1>1, <1>2 DEF Goes, Onward, Moves, LinkOf, Unplaced

\* An answer, in time or not, connects the wallet.
LEMMA AnswerMoves ==
  ASSUME Types, NEW w \in Wallets, Known(w), Answers(w)
  PROVE  Goes(w)
<1>1. PICK c \in clients[w] :
        wallet' = [wallet EXCEPT ![w].server = c.node, ![w].setup = TRUE,
                                 ![w].at = "rest"]
  BY DEF Answers
<1>2. c.node = wallet[w].held /\ wallet[w].held # None
  BY <1>1 DEF Known, WalletInv
<1>3. ~wallet[w].closed /\ wallet[w].at \notin Unplaced
  BY <1>2 DEF Known, WalletInv
<1>4. /\ wallet'[w].server # None /\ ~wallet'[w].closed
      /\ wallet'[w].at = "rest"
  BY <1>1, <1>2, <1>3 DEF Types, Record, Known
<1>5. LinkOf(wallet'[w]) = "up"
  BY <1>4 DEF LinkOf
<1>6. LinkOf(wallet[w]) \in {"trying", "waiting", "up", "dead"}
  BY <1>3 DEF LinkOf, Known, Onward, Unplaced
<1> QED
  BY <1>4, <1>5, <1>6 DEF Goes, Onward, Moves, Unplaced

\* A drop leaves a timer behind; that of a client given up leaves nothing.
LEMMA DropMoves ==
  ASSUME Types, NEW w \in Wallets, Known(w), Drops(w)
  PROVE  Goes(w)
<1>1. CASE wallet[w].server = None
  <2>1. wallet'[w] = wallet[w]
    BY <1>1 DEF Drops
  <2> QED
    BY <2>1 DEF Goes, Known, Moves
<1>2. CASE wallet[w].server # None
  <2>1. /\ wallet[w].at = "rest" /\ ~wallet[w].closed
        /\ wallet[w].list.nodes # <<>>
    BY <1>2 DEF Known, WalletInv, Record, Nodes, None
  <2>2. wallet' = [wallet EXCEPT ![w].server = None,
                     ![w].timer = IF @ = "no" THEN "failover" ELSE @]
    BY <1>2 DEF Drops
  <2>3. /\ wallet'[w].server = None /\ wallet'[w].timer # "no"
        /\ wallet'[w].at = "rest" /\ ~wallet'[w].closed
        /\ wallet'[w].list = wallet[w].list
    BY <2>1, <2>2 DEF Types, Record
  <2>4. LinkOf(wallet'[w]) = "waiting" /\ LinkOf(wallet[w]) = "up"
    BY <1>2, <2>1, <2>3 DEF LinkOf
  <2> QED
    BY <2>3, <2>4 DEF Goes, Onward, Moves, Unplaced
<1> QED
  BY <1>1, <1>2

\* A timer begins a pass, unless the wallet is connected or in one.
LEMMA TimerMoves ==
  ASSUME Types, NEW w \in Wallets, Known(w), TimerFires(w)
  PROVE  Goes(w)
<1> DEFINE r == [wallet[w] EXCEPT !.timer = "no"]
           s == IF wallet[w].timer = "failover" THEN Advanced(r) ELSE r
           q == [s EXCEPT !.tried = 0]
<1>1. /\ wallet[w].timer # "no"
      /\ IF r.server = None /\ r.at = "rest"
         THEN Attempt(w, q, clients[w])
         ELSE wallet' = [wallet EXCEPT ![w] = IF r.server = None THEN s ELSE r]
  BY DEF TimerFires
<1>2. ~wallet[w].closed /\ wallet[w].at \notin Unplaced
  BY <1>1 DEF Known, WalletInv
<1>3. /\ r \in Record /\ r.list = wallet[w].list /\ r.at = wallet[w].at
      /\ r.server = wallet[w].server /\ ~r.closed
  BY <1>2 DEF Known, Record
<1> HIDE DEF r
<1>4. /\ s \in Record /\ s.list = wallet[w].list /\ s.at = wallet[w].at
      /\ s.server = wallet[w].server /\ ~s.closed
  BY <1>3, AdvancedFacts
<1> HIDE DEF s
<1>5. CASE wallet[w].server = None /\ wallet[w].at = "rest"
  <2>1. /\ q \in Record /\ q.list = wallet[w].list /\ q.tried = 0
        /\ q.server = None /\ ~q.closed
    BY <1>4, <1>5, ConstantsAssumption DEF Record
  <2>2. Attempt(w, q, clients[w])
    BY <1>1, <1>3, <1>5
  <2> HIDE DEF q
  <2>3. q.tried < Len(q.list.nodes) \/ q.list.nodes = <<>>
    BY <2>1, NoPlace
  <2>4. /\ LinkOf(wallet'[w]) = "trying" /\ wallet'[w].at \notin Unplaced
    BY <2>1, <2>2, <2>3, AttemptTries
  <2>5. LinkOf(wallet[w]) \in {"trying", "waiting"}
    BY <1>1, <1>2, <1>5 DEF LinkOf
  <2> QED
    BY <2>4, <2>5 DEF Goes, Onward, Moves
<1>6. CASE ~(wallet[w].server = None /\ wallet[w].at = "rest")
  <2>1. wallet'[w] = IF r.server = None THEN s ELSE r
    BY <1>1, <1>3, <1>6 DEF Types
  <2>2. wallet[w].server = None => wallet[w].at \in {"attempt", "thrown"}
    BY <1>2, <1>6 DEF Known, Record, Unplaced
  <2>3. /\ LinkOf(wallet'[w]) = LinkOf(wallet[w])
        /\ wallet'[w].at \notin Unplaced
    BY <1>2, <1>3, <1>4, <2>1, <2>2 DEF LinkOf, Unplaced
  <2> QED
    BY <2>3 DEF Goes, Onward, Moves, Known
<1> QED
  BY <1>5, <1>6

\* A dial of navcoin-js's own and the end of a setup change nothing of it.
LEMMA OthersMove ==
  ASSUME Types, NEW w \in Wallets, Known(w),
         NavcoinConnects(w) \/ SetupEnds(w)
  PROVE  Goes(w)
<1>1. \/ \E n : wallet'[w] = [wallet[w] EXCEPT !.held = n]
      \/ wallet'[w] = [wallet[w] EXCEPT !.setup = FALSE]
  BY DEF NavcoinConnects, SetupEnds, Dial, Types
<1>2. LET s == wallet'[w] r == wallet[w]
      IN  /\ s.closed = r.closed /\ s.server = r.server /\ s.at = r.at
          /\ s.timer = r.timer /\ s.list = r.list /\ s.tried = r.tried
  BY <1>1 DEF Known, Record
<1> QED
  BY <1>2 DEF Goes, Onward, Moves, Known, LinkOf

\* A closed wallet is gone.
LEMMA CloseMoves ==
  ASSUME Types, NEW w \in Wallets, Known(w), Closes(w)
  PROVE  Goes(w)
<1>1. wallet'[w] = Closed(wallet[w]) /\ ~wallet[w].closed
  BY DEF Closes, Types
<1>2. /\ wallet'[w].closed /\ wallet'[w].tried = wallet[w].tried
      /\ wallet'[w].at \in Unplaced => wallet[w].at \in Unplaced
  BY <1>1 DEF Closed, Known, Record, Unplaced
<1> QED
  BY <1>2 DEF Goes, Onward, Moves, Known, LinkOf

\* The pass of an open tries the first node, or finds no wallet.
LEMMA ConfigureMoves ==
  ASSUME Types, NEW w \in Wallets, Known(w), Configures(w)
  PROVE  Goes(w)
<1> DEFINE i == StartIndex(wallet[w].list)
           r == [wallet[w] EXCEPT !.index = i, !.start = i]
<1>1. /\ wallet[w].at = "chosen"
      /\ IF r.closed
         THEN wallet' = [wallet EXCEPT ![w] = [r EXCEPT !.at = "rest"]]
         ELSE Attempt(w, r, {})
  BY DEF Configures
<1>2. wallet[w].tried = 0 /\ wallet[w].server = None
  BY <1>1 DEF Known, Onward, WalletInv, Unplaced
<1>3. i \in 0..N
  <2>1. ListOK(wallet[w].list) /\ offset \in Nat
    BY ListFacts, ConstantsAssumption DEF Known, Record, Types
  <2>2. CASE wallet[w].list.healthy = 0
    BY <2>1, <2>2, ConstantsAssumption DEF StartIndex
  <2>3. CASE wallet[w].list.healthy # 0
    <3>1. offset % wallet[w].list.healthy \in 0..(wallet[w].list.healthy - 1)
      BY <2>1, <2>3, Division DEF ListOK
    <3> QED
      BY <2>1, <2>3, <3>1, ConstantsAssumption DEF StartIndex, ListOK
  <2> QED
    BY <2>2, <2>3
<1> HIDE DEF i
<1>4. /\ r \in Record /\ r.list = wallet[w].list /\ r.tried = 0
      /\ r.server = None /\ r.closed = wallet[w].closed
  <2>1. wallet[w] \in Record /\ i \in 0..N /\ i \in -1..N
    BY <1>3, ConstantsAssumption DEF Known
  <2> QED
    BY <1>2, <2>1 DEF Record
<1> HIDE DEF r
<1>5. CASE wallet[w].closed
  <2>1. wallet'[w] = [r EXCEPT !.at = "rest"]
    BY <1>1, <1>4, <1>5 DEF Types
  <2>2. wallet'[w].closed /\ wallet'[w].at = "rest"
    BY <1>4, <1>5, <2>1 DEF Record
  <2> QED
    BY <1>5, <2>2 DEF Goes, Onward, Moves, LinkOf, Unplaced
<1>6. CASE ~wallet[w].closed
  <2>1. r.tried < Len(r.list.nodes) \/ r.list.nodes = <<>>
    BY <1>4, NoPlace
  <2>2. LinkOf(wallet'[w]) = "trying" /\ wallet'[w].at \notin Unplaced
    BY <1>1, <1>4, <1>6, <2>1, AttemptTries
  <2>3. LinkOf(wallet[w]) = "loading"
    BY <1>1, <1>2, <1>6 DEF LinkOf
  <2> QED
    BY <2>2, <2>3 DEF Goes, Onward, Moves
<1> QED
  BY <1>5, <1>6

\* While it waits for its list a wallet is still loading.
LEMMA WaitMoves ==
  ASSUME Types, NEW w \in Wallets, Known(w), NEW list,
         wallet[w].at \in Unplaced,
         \/ wallet'[w] = [wallet[w] EXCEPT !.at = "chosen", !.list = list]
         \/ wallet'[w] = [wallet[w] EXCEPT !.at = "selecting"]
  PROVE  Goes(w)
<1>1. LET s == wallet'[w] r == wallet[w]
      IN  /\ s.closed = r.closed /\ s.server = r.server
          /\ s.at \in {"selecting", "chosen"} /\ s.tried = r.tried
  BY DEF Known, Record
<1> QED
  BY <1>1 DEF Goes, Onward, Moves, Known, LinkOf, Unplaced

\* Whatever happens, every wallet makes a step of its own connection.
LEMMA EveryWalletGoes ==
  ASSUME IInv, OnwardInv, [Next]_vars
  PROVE  \A w \in Wallets : Goes(w)
<1>0. Types /\ \A w \in Wallets : Known(w)
  BY DEF IInv, Types, Connections, OnwardInv, Known
<1>1. ASSUME NEW w \in Wallets, wallet'[w] = wallet[w]
      PROVE  Goes(w)
  BY <1>0, <1>1 DEF Goes, Known, Moves
<1>2. ASSUME NEW v \in Wallets, Steps(v) \/ NavcoinConnects(v) \/ Closes(v),
             NEW w \in Wallets
      PROVE  Goes(w)
  <2>1. CASE w = v
    BY <1>0, <1>2, <2>1, FailureMoves, ThrowMoves, AnswerMoves, DropMoves,
       TimerMoves, OthersMove, CloseMoves, ConfigureMoves DEF Steps
  <2>2. CASE w # v
    <3>1. wallet'[w] = wallet[w]
      BY <1>0, <1>2, <2>2 DEF Types, Steps, Configures, AttemptFails,
         AttemptThrows, Answers, Drops, TimerFires, SetupEnds,
         NavcoinConnects, Closes, Attempt, Dial
    <3> QED
      BY <1>1, <3>1
  <2> QED
    BY <2>1, <2>2
<1>3. ASSUME NEW v \in Wallets, Opens(v), NEW w \in Wallets
      PROVE  Goes(w)
  <2>1. CASE w = v
    <3>1. wallet[w].at \in Unplaced
      BY <1>3, <2>1 DEF Opens, Unplaced
    <3>2. \/ \E list : wallet'[w] = [wallet[w] EXCEPT !.at = "chosen",
                                                     !.list = list]
          \/ wallet'[w] = [wallet[w] EXCEPT !.at = "selecting"]
      BY <1>0, <1>3, <2>1 DEF Opens, Gets, Types
    <3> QED
      BY <1>0, <3>1, <3>2, WaitMoves
  <2>2. CASE w # v
    <3>1. wallet'[w] = wallet[w]
      BY <1>0, <1>3, <2>2 DEF Opens, Gets, Types
    <3> QED
      BY <1>1, <3>1
  <2> QED
    BY <2>1, <2>2
<1>4. ASSUME ProbeEnds, NEW w \in Wallets
      PROVE  Goes(w)
  <2>1. PICK list : Gets(probe, list)
    BY <1>4 DEF ProbeEnds
  <2>2. CASE w \in probe
    <3>1. wallet[w].at \in Unplaced
      BY <1>0, <2>2 DEF Types, Unplaced
    <3>2. wallet'[w] = [wallet[w] EXCEPT !.at = "chosen", !.list = list]
      BY <2>1, <2>2 DEF Gets
    <3> QED
      BY <1>0, <3>1, <3>2, WaitMoves
  <2>3. CASE w \notin probe
    <3>1. wallet'[w] = wallet[w]
      BY <2>1, <2>3 DEF Gets
    <3> QED
      BY <1>1, <3>1
  <2> QED
    BY <2>2, <2>3
<1>5. CASE CacheExpires \/ World \/ UNCHANGED vars
  BY <1>1, <1>5 DEF CacheExpires, World, vars
<1> QED
  BY <1>2, <1>3, <1>4, <1>5 DEF Next

\* ImplementsLink: however the probe, attempts, late answers, dials of
\* navcoin-js, drops and timers interleave, every wallet does to its
\* connection what NodeLink says (connectWithFailover, scheduleReconnect).
THEOREM LinkImplemented == Spec => ImplementsLink
<1>1. ASSUME Init
      PROVE  OnwardInv /\ \A w \in Wallets : Link(w)!Init
  <2>1. \A w \in Wallets : wallet[w] = NewWallet
    BY <1>1 DEF Init
  <2>2. /\ NewWallet.at = "new" /\ NewWallet.server = None
        /\ NewWallet.tried = 0 /\ ~NewWallet.closed
    BY DEF NewWallet
  <2> QED
    BY <2>1, <2>2 DEF OnwardInv, Onward, LinkOf, Link!Init
<1>2. IInv /\ OnwardInv /\ [Next]_vars => OnwardInv'
  BY EveryWalletGoes DEF OnwardInv, Goes, Onward, LinkOf
<1>3. IInv /\ OnwardInv /\ [Next]_vars =>
        [\A w \in Wallets : [Link(w)!Next]_(LinkOf(wallet[w]))]_vars
  BY EveryWalletGoes, MovesAllowed DEF Goes
<1> QED
  BY <1>1, <1>2, <1>3, IInvHolds, PTL DEF Spec, ImplementsLink
=============================================================================
