-------------------------- MODULE MCConfigHistory --------------------------
(* Two configurations, one of them with volatile lines.                     *)
EXTENDS ConfigHistory, TLC
CONSTANTS plain, dated, b1, b2, s1
\* Two backup workers are alike.
Symmetric == Permutations({b1, b2})
=============================================================================
