------------------------------ MODULE MCEnrich ------------------------------
(* Instance of Enrich for TLC: a scheduled import and one started by hand.  *)
EXTENDS Enrich, TLC

CONSTANTS scheduled, byHand

Symmetry == Permutations(Run)
=============================================================================
