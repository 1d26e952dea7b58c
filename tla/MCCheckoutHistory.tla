------------------------- MODULE MCCheckoutHistory -------------------------
(* Small instances of CheckoutHistory for TLC. *)
EXTENDS CheckoutHistory, TLC

(* Rows and attempts are interchangeable: nothing in the code orders them. *)
Symmetry == Permutations(Orders) \cup Permutations(Holds) \cup Permutations(Operators)

=============================================================================
