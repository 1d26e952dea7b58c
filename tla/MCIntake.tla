------------------------------ MODULE MCIntake ------------------------------
(***************************************************************************)
(* Instances of Intake for model checking.                                 *)
(***************************************************************************)
EXTENDS Intake, TLC
=============================================================================
