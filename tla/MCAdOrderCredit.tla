--------------------------- MODULE MCAdOrderCredit --------------------------
(* TLC instances of AdOrderCredit.                                         *)
EXTENDS AdOrderCredit, TLC

SlotSymmetry == Permutations(Calls)
=============================================================================
