------------------------------ MODULE MCTickets ------------------------------
(* Tickets on small sets: one place for every night and one for the first; *)
(* rows and requests are interchangeable.                                   *)
EXTENDS Tickets, TLC

CONSTANTS p1, p2, n1, n2

MCOwn == p1 :> NoNight @@ p2 :> n1

Symmetry == Permutations(Tickets) \cup Permutations(Offers) \cup Permutations(Requests)
=============================================================================
