----------------------------- MODULE MCCardTree -----------------------------
(* CardTree on a few cards and a small depth limit; the cards are alike.   *)
EXTENDS CardTree, TLC

Symmetry == Permutations(Cards)
=============================================================================
