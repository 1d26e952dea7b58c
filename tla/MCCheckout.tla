----------------------------- MODULE MCCheckout -----------------------------
(* Small instances of Checkout for TLC. *)
EXTENDS Checkout, TLC

(* Rows and attempts are interchangeable: nothing in the code orders them. *)
Symmetry == Permutations(Orders) \cup Permutations(Holds) \cup Permutations(Operators)

=============================================================================
