-------------------------- MODULE MCSourceRegistry --------------------------
(* SourceRegistry for TLC: a phrase of two derivations, and an import that  *)
(* asks for one of them again.                                              *)
EXTENDS SourceRegistry, TLC

CONSTANTS a, b, i1, i2

MCPhrase == (i1 :> {a, b}) @@ (i2 :> {a})

\* Requests wait for each other; the daemon may stop or be killed anywhere and
\* everything may fail.
CalmBudget ==
  [e \in Events |-> CASE e = "early" -> 0
                      [] e \in {"remove", "stop"} -> 2
                      [] OTHER -> 1]

\* Requests that do not wait, in a daemon that restarts.
EarlyBudget ==
  [e \in Events |-> IF e \in {"early", "createFail", "remove", "stop"} THEN 1
                                                                    ELSE 0]
=============================================================================
