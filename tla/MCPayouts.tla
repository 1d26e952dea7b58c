------------------------------ MODULE MCPayouts ------------------------------
(***************************************************************************)
(* Small instances of Payouts for TLC.                                     *)
(***************************************************************************)
EXTENDS Payouts, TLC

Symmetry == Permutations(Payouts) \cup Permutations(Operators)
=============================================================================
