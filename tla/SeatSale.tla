------------------------------ MODULE SeatSale ------------------------------
(***************************************************************************)
(* What selling numbered seats promises, with no holds, no clock and no    *)
(* sweep: a seat kept for an order is sold to that order or given up by    *)
(* it, and reaches nobody else in between.  An order keeps all of its      *)
(* seats at once, and ends with all of them or none.  Module Seating       *)
(* implements this (Seating!ImplementsSeatSale).                           *)
(***************************************************************************)

CONSTANTS Seats, Orders

VARIABLE seat \* of each seat: [for, as], as "FREE", "KEPT" or "SOLD"

Free == [for |-> "nobody", as |-> "FREE"]
Kept(o) == [for |-> o, as |-> "KEPT"]
Sold(o) == [for |-> o, as |-> "SOLD"]

KeptFor(o) == {s \in Seats : seat[s] = Kept(o)}

Init == seat = [s \in Seats |-> Free]

Keep(o, S) ==
  /\ \A s \in Seats : seat[s] \notin {Kept(o), Sold(o)}
  /\ \A s \in S : seat[s] = Free
  /\ seat' = [s \in Seats |-> IF s \in S THEN Kept(o) ELSE seat[s]]

Sell(o) ==
  /\ KeptFor(o) # {}
  /\ seat' = [s \in Seats |-> IF s \in KeptFor(o) THEN Sold(o) ELSE seat[s]]

(* One order gives its seats up, or several at once. *)
GiveUp(P) ==
  seat' = [s \in Seats |-> IF \E o \in P : seat[s] = Kept(o) THEN Free ELSE seat[s]]

Next ==
  \/ \E o \in Orders : (\E S \in SUBSET Seats : Keep(o, S)) \/ Sell(o)
  \/ \E P \in SUBSET Orders : GiveUp(P)

Spec == Init /\ [][Next]_seat

=============================================================================
