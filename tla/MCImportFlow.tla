---------------------------- MODULE MCImportFlow ----------------------------
(* ImportFlow for TLC: phrases of every kind the checks tell apart.         *)
EXTENDS ImportFlow

P(n, b, e) == [words |-> n, bip39 |-> b, electrum |-> e]

\* Right and mistyped ones of 24, 15 and 12 words, of a length no BIP39
\* phrase has and of one below the least, and Electrum seeds among them.
MCPhrases ==
  {P(24, TRUE, FALSE), P(24, FALSE, FALSE), P(24, FALSE, TRUE),
   P(15, TRUE, FALSE), P(12, TRUE, TRUE), P(12, FALSE, FALSE),
   P(13, FALSE, TRUE), P(13, FALSE, FALSE), P(11, FALSE, FALSE)}
=============================================================================
