------------------------------ MODULE NodeLink ------------------------------
(***************************************************************************)
(* What a source promises about its connection, and no more: once its      *)
(* wallet is loaded it is always either connected, trying nodes or waiting *)
(* to try them again, until it is closed or connecting fails outright; and *)
(* as long as nodes answer in the end, it ends up connected.               *)
(* SourceSync implements this specification, where a pass over the nodes   *)
(* is one step, and so does every wallet of ElectrumNodes, attempt by      *)
(* attempt.                                                                *)
(***************************************************************************)

VARIABLE link

Links == {"loading", "trying", "waiting", "up", "dead", "gone"}

TypeOK == link \in Links

Init == link = "loading"

\* The wallet is loaded, or the wait before another pass is over.
Try == link \in {"loading", "waiting"} /\ link' = "trying"

\* A node answers: in time, or after it had been given up.
Answer == link \in {"trying", "waiting", "dead"} /\ link' = "up"

\* The nodes have all failed, or the live connection has dropped.
Lose == link \in {"trying", "up"} /\ link' = "waiting"

\* Loading or Connect() itself throws: nothing is tried any more.
GiveUp == link \in {"loading", "trying"} /\ link' = "dead"

Close == link # "gone" /\ link' = "gone"

\* A new daemon starts over.
Restart == link' = "loading"

Next == Try \/ Answer \/ Lose \/ GiveUp \/ Close \/ Restart

Spec == Init /\ [][Next]_link

\* Retrying is the source's own doing; that some node answers a source that
\* keeps trying is the world's.
AnswerWhileTrying == link = "trying" /\ Answer

FairSpec == Spec /\ WF_link(Try) /\ SF_link(AnswerWhileTrying)
=============================================================================
