----------------------------- MODULE MCFlagStore -----------------------------
(***************************************************************************)
(* Two goroutines flag two subscriptions for longer than a flag may wait.  *)
(***************************************************************************)
EXTENDS FlagStore, TLC

CONSTANTS s1, s2, g1, g2

Symmetry == Permutations({s1, s2}) \cup Permutations({g1, g2})
=============================================================================
