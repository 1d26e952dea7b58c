-------------------------------- MODULE Sale --------------------------------
(***************************************************************************)
(* What selling one tier promises its buyers, with no clock, no holds and  *)
(* no payments: an order is given its tickets when it is placed and buys   *)
(* all of them or none, once.  Until then they are kept for it, unless the *)
(* promise lapses first: an order that buys after that may oversell the    *)
(* tier.  Module CheckoutHistory is shown to implement this                *)
(* (ImplementsSale).                                                       *)
(***************************************************************************)
EXTENDS Integers, Counting

CONSTANTS Orders, Capacity, MaxQty

VARIABLES
  status, \* where each order is: "NONE", "PENDING", "PAID" or "CANCELLED"
  qty,    \* the tickets each order is for
  kept,   \* the PENDING orders whose tickets are kept for them
  sold    \* the tickets counted sold

vars == <<status, qty, kept, sold>>

Init ==
  /\ status = [o \in Orders |-> "NONE"]
  /\ qty \in [Orders -> 1 .. MaxQty]
  /\ kept = {}
  /\ sold = 0

(* An order is accepted only when its tickets are there, whatever else is  *)
(* already promised.  Its own promise may have lapsed by then.             *)
Place(o) ==
  /\ status[o] = "NONE"
  /\ \E q \in 1 .. MaxQty :
       /\ sold + SumOf(qty, kept) + q <= Capacity
       /\ qty' = [qty EXCEPT ![o] = q]
  /\ status' = [status EXCEPT ![o] = "PENDING"]
  /\ kept' \in {kept, kept \cup {o}}
  /\ UNCHANGED sold

Lapse(S) ==
  /\ kept' = kept \ S
  /\ UNCHANGED <<status, qty, sold>>

Buy(o) ==
  /\ status[o] = "PENDING"
  /\ status' = [status EXCEPT ![o] = "PAID"]
  /\ sold' = sold + qty[o]
  /\ kept' = kept \ {o}
  /\ UNCHANGED qty

(* The provider's webhook alone pays an order and counts nothing. *)
Pay(o) ==
  /\ status[o] = "PENDING"
  /\ status' = [status EXCEPT ![o] = "PAID"]
  /\ kept' = kept \ {o}
  /\ UNCHANGED <<qty, sold>>

(* One order, or with the deletion of the event several, ended unpaid. *)
GiveUp(S) ==
  /\ \A o \in S : status[o] = "PENDING"
  /\ status' = [o \in Orders |-> IF o \in S THEN "CANCELLED" ELSE status[o]]
  /\ kept' = kept \ S
  /\ UNCHANGED <<qty, sold>>

Next ==
  \/ \E o \in Orders : Place(o) \/ Buy(o) \/ Pay(o)
  \/ \E S \in SUBSET Orders : GiveUp(S) \/ Lapse(S)

Spec == Init /\ [][Next]_vars

=============================================================================
