----------------------------- MODULE MCSeating ------------------------------
(* Small instances of Seating for TLC. *)
EXTENDS Seating, TLC

(* Seats, holds and orders are interchangeable. *)
Symmetry == Permutations(Seats) \cup Permutations(Holds) \cup Permutations(Orders)

=============================================================================
