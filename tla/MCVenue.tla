------------------------------- MODULE MCVenue -------------------------------
(* Pay-at-the-venue bookings on small sets.  In one run a booking of two   *)
(* tickets with a fee to refund is at the doors of two nights, with two    *)
(* stewards.  In the other three bookings meet the limit, two of them of   *)
(* one code; one has a ticket that owes nothing.                           *)
EXTENDS Venue, TLC

CONSTANTS o1, o2, o3, n1, n2

DoorSize == o1 :> 2
DoorCents == o1 :> 5
DoorOwn == o1 :> NoNight

BookingSize == o1 :> 1 @@ o2 :> 2 @@ o3 :> 1
BookingCents == o1 :> 2 @@ o2 :> 1 @@ o3 :> 3
BookingOwn == o1 :> n1 @@ o2 :> n1 @@ o3 :> n1

Symmetry == Permutations(Stewards)
=============================================================================
