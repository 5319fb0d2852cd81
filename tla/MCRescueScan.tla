---------------------------- MODULE MCRescueScan ----------------------------
(* RescueScan for TLC: one coin within the first gap of the receive branch, *)
(* one only within a gap of that one, a staked one and an xNAV one.         *)
EXTENDS RescueScan, TLC

CONSTANTS near, far, staked, hidden

MCHome == (near :> <<"receive", 0>>) @@ (far :> <<"receive", 1>>)
          @@ (staked :> Stake) @@ (hidden :> XTx(hidden))
MCImported == {<<"receive", 0>>, <<"change", 0>>}
MCChains == {Coins, Coins \ {staked}}
=============================================================================
