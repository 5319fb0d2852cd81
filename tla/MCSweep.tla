------------------------------ MODULE MCSweep ------------------------------
(* Sweep for TLC: one source with both legs, one with a single leg whose   *)
(* coin arrives late.                                                      *)
EXTENDS Sweep, TLC

CONSTANTS s1, s2, a, b, d, x, y, j1, j2

MCOrder == (s1 :> 1) @@ (s2 :> 2)
MCHome == (a :> <<s1, "nav">>) @@ (b :> <<s1, "xnav">>)
          @@ (d :> <<s2, "nav">>)
=============================================================================
