--------------------------- MODULE ElectrumNodes ---------------------------
(***************************************************************************)
(* Which electrum node a wallet is connected to: src/src/                  *)
(* electrum-connection.js, with the timers of src/src/wallet-manager.js    *)
(* that call it.  The nodes are probed once for all wallets that open at   *)
(* the same time, each wallet begins on a node of its own, tries them all, *)
(* and fails over when its node is gone.  navcoin-js's clients are taken   *)
(* over: Connect() retires the client before, and a closed wallet's setup  *)
(* must not end the process.                                               *)
(*                                                                         *)
(* SourceSync takes a pass over the nodes as one step and adds what a scan *)
(* and its status make of it.                                              *)
(***************************************************************************)
EXTENDS Integers, Sequences, FiniteSets

CONSTANTS
  Wallets,  \* the wallets that are opened, one per derivation
  N,        \* how many nodes there are
  Budget    \* how many nodes may fail or return, be slow, and so on

Nodes == 1..N
None == 0

ASSUME ConstantsAssumption ==
  IsFiniteSet(Wallets) /\ N \in Nat /\ Budget \in Nat

VARIABLES
  up,         \* the nodes that answer
  configured, \* NTR_ELECTRUM_NODES: unset, a list, or a list of nothing
  cache,      \* electrumNodeCache, and whether it is younger than 60 s
  probe,      \* electrumNodeProbePromise: the wallets that await it
  offset,     \* nextElectrumNodeOffset
  wallet,     \* per wallet: its list, index, pass, timer and connection
  clients,    \* per wallet: the clients whose events still reach it
  crashed,    \* an unhandled rejection has ended the process
  left

world == <<up, configured, cache, probe, offset>>
vars == <<world, wallet, clients, crashed, left>>

Spend == left > 0 /\ left' = left - 1

\* What stands before a node when those that answered a probe come first,
\* each in the order of DEFAULT_MAINNET_ELECTRUM_NODES; and the first k nodes.
Ahead(good, n) ==
  {m \in Nodes : IF m \in good <=> n \in good THEN m < n ELSE m \in good}
First(k, good) == [i \in 1..k |->
  CHOOSE n \in Nodes : Cardinality(Ahead(good, n)) = i - 1]

\* All nodes count as starting points when none answered.
Healthy(good) == IF good = {} THEN N ELSE Cardinality(good)

\* Mutant: only the nodes that answered the probe are kept.
SelectedHealthy(good, round) ==
  [nodes |-> First(Healthy(good), good), good |-> good,
   healthy |-> Healthy(good), round |-> round]

\* What a probe makes of the nodes: they are all kept.
Selected(good, round) ==
  [nodes |-> First(N, good), good |-> good,
   healthy |-> Healthy(good), round |-> round]

\* getConfiguredElectrumNodes: the list as it is, which `,` leaves empty.
Configured ==
  IF configured = "list" THEN Selected({}, 0)
  ELSE [nodes |-> <<>>, good |-> {}, healthy |-> 0, round |-> 0]

NewWallet ==
  [at |-> "new", list |-> Configured, index |-> 0, start |-> -1, tried |-> 0,
   timer |-> "no", held |-> None, server |-> None, setup |-> FALSE,
   closed |-> FALSE]

Init ==
  /\ up \in SUBSET Nodes /\ configured \in {"no", "list", "empty"}
  /\ cache = [list |-> Selected({}, 0), fresh |-> FALSE]
  /\ probe = {} /\ offset = 0
  /\ wallet = [w \in Wallets |-> NewWallet]
  /\ clients = [w \in Wallets |-> {}]
  /\ crashed = FALSE /\ left = Budget

-----------------------------------------------------------------------------
(* Choosing the nodes.                                                     *)

Gets(S, list) ==
  wallet' = [w \in Wallets |->
    IF w \in S THEN [wallet[w] EXCEPT !.at = "chosen", !.list = list]
    ELSE wallet[w]]

\* openSourceWallet reaches configureElectrumNodes: the list is configured,
\* cached, or comes with the probe that is under way or begins now.
Opens(w) ==
  /\ wallet[w].at = "new"
  /\ IF configured # "no" \/ cache.fresh
     THEN /\ Gets({w}, IF configured = "no" THEN cache.list ELSE Configured)
          /\ UNCHANGED probe
     ELSE /\ probe' = probe \cup {w}
          /\ wallet' = [wallet EXCEPT ![w].at = "selecting"]
  /\ UNCHANGED <<up, configured, cache, offset, clients, crashed, left>>

\* The probe, of all nodes at once; one may answer too late.
ProbeEnds ==
  /\ probe # {}
  /\ \E good \in {up} \cup {up \ {n} : n \in up} :
       /\ IF good = up THEN UNCHANGED left ELSE Spend
       /\ LET list == Selected(good, cache.list.round + 1)
          IN  Gets(probe, list) /\ cache' = [list |-> list, fresh |-> TRUE]
  /\ probe' = {}
  /\ UNCHANGED <<up, configured, offset, clients, crashed>>

\* 60 seconds, against a turn of the event loop for those it was given to.
CacheExpires ==
  /\ cache.fresh /\ \A w \in Wallets : wallet[w].at # "chosen"
  /\ cache' = [cache EXCEPT !.fresh = FALSE]
  /\ UNCHANGED <<up, configured, probe, offset, wallet, clients, crashed,
                 left>>

-----------------------------------------------------------------------------
(* Connecting.                                                             *)

\* Mutant: Connect() leaves the client before alone.
RetiredNot(w) == clients[w]

\* retireElectrumClient: its listeners are removed, its socket closed.
Retired(w) == {}

\* supervisedConnect: the client before is retired, the new one is heard.
\* What the socket's closing did with it, persistencePolicy settles: nothing.
Dial(w, r, n) ==
  /\ clients' = [clients EXCEPT ![w] =
                   Retired(w) \cup {[node |-> n, at |-> "dialing"]}]
  /\ wallet' = [wallet EXCEPT ![w] = [r EXCEPT !.held = n]]

\* Mutant: a pass that reached no node leaves it at that.
AttemptOnce(w, r, dialing) ==
  IF r.tried < Len(r.list.nodes)
  THEN Dial(w, [r EXCEPT !.at = "attempt"], r.list.nodes[r.index + 1])
  ELSE /\ wallet' = [wallet EXCEPT ![w] = [r EXCEPT !.at = "rest"]]
       /\ clients' = [clients EXCEPT ![w] = dialing]

\* connectWithFailover at the wallet's index, with `tried` nodes behind it:
\* an attempt, or the end of the pass and a timer for the next one, with the
\* client that was last tried still dialling unless it was refused.
Attempt(w, r, dialing) ==
  IF r.tried < Len(r.list.nodes)
  THEN Dial(w, [r EXCEPT !.at = "attempt"], r.list.nodes[r.index + 1])
  ELSE /\ wallet' = [wallet EXCEPT ![w] =
            [r EXCEPT !.at = "rest",
                      !.timer = IF @ = "no" THEN "retry" ELSE @]]
       /\ clients' = [clients EXCEPT ![w] = dialing]

\* advanceElectrumNode.
Advanced(r) ==
  [r EXCEPT !.index = IF r.list.nodes = <<>> THEN @
                      ELSE (@ + 1) % Len(r.list.nodes)]

\* Mutant: the wallets are spread over all nodes.
StartIndexAll(list) ==
  IF list.healthy = 0 THEN 0 ELSE offset % Len(list.nodes)

StartIndex(list) == IF list.healthy = 0 THEN 0 ELSE offset % list.healthy

\* The rest of configureElectrumNodes, also for a wallet that was closed
\* meanwhile, and the open's pass, which then finds no wallet.
Configures(w) ==
  /\ wallet[w].at = "chosen"
  /\ LET list == wallet[w].list
         r == [wallet[w] EXCEPT !.index = StartIndex(list),
                                !.start = StartIndex(list)]
     IN  /\ offset' = IF list.healthy = 0 THEN offset
                      ELSE (offset + 1) % list.healthy
         /\ IF r.closed
            THEN /\ wallet' = [wallet EXCEPT ![w] = [r EXCEPT !.at = "rest"]]
                 /\ UNCHANGED clients
            ELSE Attempt(w, r, {})
  /\ UNCHANGED <<up, configured, cache, probe, crashed, left>>

Held(w) == [node |-> wallet[w].held, at |-> "dialing"]

\* attemptConnect: the node cannot be reached, or has not answered in time,
\* and the next one is tried.
AttemptFails(w) ==
  /\ wallet[w].at = "attempt" /\ Held(w) \in clients[w]
  /\ IF wallet[w].held \in up THEN Spend ELSE UNCHANGED left
  /\ \E late \in {clients[w]} \cup
               {clients[w] \ {Held(w)} : n \in {wallet[w].held} \ up} :
       Attempt(w, Advanced([wallet[w] EXCEPT !.tried = @ + 1]), late)
  /\ UNCHANGED <<world, crashed>>

\* attemptConnect's reject: Connect() throws, before it has made a client or
\* after.  The pass ends with the error, and nothing tries again; no timer is
\* armed during a pass.
AttemptThrows(w) ==
  /\ wallet[w].at = "attempt" /\ Held(w) \in clients[w] /\ Spend
  /\ wallet' = [wallet EXCEPT ![w].at = "thrown"]
  /\ \E late \in {clients[w], clients[w] \ {Held(w)}} :
       clients' = [clients EXCEPT ![w] = late]
  /\ UNCHANGED <<world, crashed>>

\* A client connects, in an attempt or after it was given up: 'ready' begins
\* navcoin-js's setup and 'connected' tells of it.
Answers(w) == \E c \in clients[w] :
  /\ c.at = "dialing" /\ c.node \in up
  /\ clients' = [clients EXCEPT ![w] =
                   (@ \ {c}) \cup {[c EXCEPT !.at = "up"]}]
  /\ wallet' = [wallet EXCEPT ![w].server = c.node, ![w].setup = TRUE,
                              ![w].at = "rest"]
  /\ UNCHANGED <<world, crashed, left>>

\* A socket closes: only a live connection going away is a drop.
Drops(w) == \E c \in clients[w] :
  /\ c.at = "up" /\ c.node \notin up
  /\ clients' = [clients EXCEPT ![w] = @ \ {c}]
  /\ wallet' = IF wallet[w].server = None THEN wallet
               ELSE [wallet EXCEPT ![w].server = None,
                       ![w].timer = IF @ = "no" THEN "failover" ELSE @]
  /\ UNCHANGED <<world, crashed, left>>

\* scheduleReconnect's timer, after a drop with the next node.
TimerFires(w) ==
  /\ wallet[w].timer # "no"
  /\ LET r == [wallet[w] EXCEPT !.timer = "no"]
         s == IF wallet[w].timer = "failover" THEN Advanced(r) ELSE r
     IN  IF r.server = None /\ r.at = "rest"
         THEN Attempt(w, [s EXCEPT !.tried = 0], clients[w])
         ELSE /\ wallet' = [wallet EXCEPT ![w] =
                              IF r.server = None THEN s ELSE r]
              /\ UNCHANGED clients
  /\ UNCHANGED <<world, crashed, left>>

\* navcoin-js calls Connect() itself when it syncs on a dropped socket.
NavcoinConnects(w) ==
  /\ wallet[w].held # None /\ wallet[w].server = None /\ ~wallet[w].closed
  /\ Spend
  /\ Dial(w, wallet[w], wallet[w].list.nodes[wallet[w].index + 1])
  /\ UNCHANGED <<world, crashed>>

\* The setup goes on over several awaits, and reads wallet.client.
SetupEnds(w) ==
  /\ wallet[w].setup
  /\ wallet' = [wallet EXCEPT ![w].setup = FALSE]
  /\ crashed' = (wallet[w].held = None /\ ~wallet[w].closed)
  /\ UNCHANGED <<world, clients, left>>

\* closeSourceWallet: closeElectrumConnection, and Disconnect, which deletes
\* the client.
Closed(r) ==
  [r EXCEPT !.timer = "no", !.held = None, !.server = None, !.closed = TRUE,
            !.at = IF @ \in {"selecting", "chosen"} THEN @ ELSE "rest"]

Closes(w) ==
  /\ wallet[w].at # "new" /\ ~wallet[w].closed
  /\ wallet' = [wallet EXCEPT ![w] = Closed(@)]
  /\ clients' = [clients EXCEPT ![w] = Retired(w)]
  /\ UNCHANGED <<world, crashed, left>>

-----------------------------------------------------------------------------
(* The nodes.                                                              *)

NodeFails == Spend /\ \E n \in up : up' = up \ {n}
NodeReturns == Spend /\ \E n \in Nodes \ up : up' = up \cup {n}

World ==
  /\ NodeFails \/ NodeReturns
  /\ UNCHANGED <<configured, cache, probe, offset, wallet, clients, crashed>>

-----------------------------------------------------------------------------

Steps(w) ==
  \/ Configures(w) \/ AttemptFails(w) \/ AttemptThrows(w) \/ Answers(w)
  \/ Drops(w) \/ TimerFires(w) \/ SetupEnds(w)

Next ==
  /\ ~crashed
  /\ \/ ProbeEnds \/ CacheExpires \/ World
     \/ \E w \in Wallets : Opens(w) \/ Steps(w) \/ NavcoinConnects(w)
                                    \/ Closes(w)

Spec == Init /\ [][Next]_vars

\* The probe, timers and attempts end; a socket's end is noticed.
FairSpec ==
  /\ Spec /\ WF_vars(ProbeEnds)
  /\ \A w \in Wallets :
       /\ WF_vars(Configures(w)) /\ WF_vars(AttemptFails(w) \/ Answers(w))
       /\ WF_vars(Drops(w)) /\ WF_vars(TimerFires(w)) /\ WF_vars(SetupEnds(w))

-----------------------------------------------------------------------------
(* Properties.                                                             *)

Lists == {Configured} \cup
  {Selected(good, round) : good \in SUBSET Nodes,
                           round \in 0..Cardinality(Wallets)}

\* The type of the state; the index is one of the wallet's own list.
TypeOK ==
  /\ up \subseteq Nodes /\ configured \in {"no", "list", "empty"}
  /\ cache \in [list : Lists, fresh : BOOLEAN]
  /\ probe = {w \in Wallets : wallet[w].at = "selecting"}
  /\ offset \in 0..N
  /\ wallet \in [Wallets ->
       [at : {"new", "selecting", "chosen", "attempt", "rest", "thrown"},
        list : Lists, index : 0..N, start : -1..N, tried : 0..N,
        timer : {"no", "retry", "failover"}, held : Nodes \cup {None},
        server : Nodes \cup {None}, setup : BOOLEAN, closed : BOOLEAN]]
  /\ \A w \in Wallets :
       /\ clients[w] \subseteq [node : Nodes, at : {"dialing", "up"}]
       /\ wallet[w].list.nodes # <<>> =>
            wallet[w].index < Len(wallet[w].list.nodes)
  /\ crashed \in BOOLEAN /\ left \in 0..Budget

\* How many wallets that were given the same list began on its i-th node.
Begun(list, i) ==
  Cardinality({w \in Wallets : wallet[w].list = list /\ wallet[w].start = i})

\* No wallet begins on a node that the probe found dead while another
\* answered it, and the wallets of one probe are spread evenly over those
\* that did, whatever the offset was left at by another probe
\* (configureElectrumNodes).
SpreadOverHealthy == \A w \in Wallets :
  LET list == wallet[w].list
      Starts == 0..(list.healthy - 1)
  IN  wallet[w].start >= 0 /\ list.nodes # <<>> =>
        /\ list.good # {} => list.nodes[wallet[w].start + 1] \in list.good
        /\ \A i, j \in Starts : Begun(list, i) <= Begun(list, j) + 1

\* A wallet that counts as connected holds the client that is, however late
\* the clients before it answered or dropped; and a closed wallet hears no
\* client, nor does its setup end the process (superviseConnects).
ClientsSupervised ==
  /\ ~crashed
  /\ \A w \in Wallets : LET r == wallet[w] IN
       /\ r.server # None =>
            r.server = r.held /\ [node |-> r.held, at |-> "up"] \in clients[w]
       /\ r.closed => clients[w] = {}

\* A wallet seen as nothing but its connection.  With no nodes in its list a
\* pass is over as soon as it begins.
LinkOf(r) ==
  IF r.closed THEN "gone"
  ELSE IF r.server # None THEN "up"
  ELSE IF r.at \in {"new", "selecting", "chosen"} THEN "loading"
  ELSE IF r.at = "attempt" THEN "trying"
  ELSE IF r.at = "thrown" THEN "dead"
  ELSE IF r.timer = "no" THEN "forgotten"
  ELSE IF r.list.nodes = <<>> THEN "trying" ELSE "waiting"

Link(w) == INSTANCE NodeLink WITH link <- LinkOf(wallet[w])

\* Attempt by attempt, each wallet does what SourceSync takes for one step of
\* its connection: whatever late answers, dials of navcoin-js, drops and timers
\* do, it is connected, trying or about to try again, and given up only when
\* Connect() itself threw (connectWithFailover, scheduleReconnect).
ImplementsLink ==
  /\ \A w \in Wallets : Link(w)!Init
  /\ [][\A w \in Wallets : [Link(w)!Next]_(LinkOf(wallet[w]))]_vars

\* As long as some node answers, every wallet ends up connected, also where
\* the node is one that the probe found dead, unless Connect() itself threw
\* (connectWithFailover, scheduleReconnect).
Reached(r) ==
  \/ r.at \in {"new", "thrown"} \/ r.closed \/ r.list.nodes = <<>>
  \/ r.server \in up
FailoverReaches ==
  <>[](up # {}) => \A w \in Wallets : <>[]Reached(wallet[w])
=============================================================================
