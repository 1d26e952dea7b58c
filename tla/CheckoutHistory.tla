-------------------------- MODULE CheckoutHistory --------------------------
(***************************************************************************)
(* Module Checkout with a history variable, which no action reads: what    *)
(* the code promises of stock depends on a race that it does not exclude,  *)
(* of an order's payment with its holds' expiry, and this says which       *)
(* orders lost it.                                                         *)
(***************************************************************************)
EXTENDS Checkout

VARIABLE late \* the orders still awaiting their payment when a hold of theirs lapsed

historyVars == <<vars, late>>

(* Another buyer may be sold what this order still waits to pay for. *)
Overdue(o) ==
  /\ order[o].status = "PENDING"
  /\ \E h \in Holds : Active(h) /\ hold[h].order = o /\ IsHoldExpired(h, now)

Remember == late' = late \cup {o \in Orders : Overdue(o)'}

HistoryInit == Init /\ late = {}
HistoryNext == Next /\ Remember

HistorySpec == HistoryInit /\ [][HistoryNext]_historyVars

----------------------------------------------------------------------------
(* Properties                                                              *)

LatePaid == {o \in late : order[o].status = "PAID"}

(* A tier is oversold only by orders whose payment outlasted their holds:  *)
(* though nothing checks the count when an order settles, what phase 1     *)
(* reserved (inventory.js) is kept off sale until the holds lapse,         *)
(* whatever sweeps, releases, retries and other checkouts do.              *)
OversoldOnlyByLate == sold <= Capacity + SumOf([o \in Orders |-> order[o].qty], LatePaid)

Sales == INSTANCE Sale WITH
  status <- [o \in Orders |-> order[o].status],
  qty <- [o \in Orders |-> order[o].qty],
  kept <- {o \in Orders : order[o].status = "PENDING"} \ late

(* Whatever holds, clocks, cards and operators do, a buyer whose order was  *)
(* accepted buys all of its tickets or none, and nothing promised to one   *)
(* is sold to another before that one's holds have lapsed (inventory.js,   *)
(* checkout.js).                                                           *)
ImplementsSale == Sales!Spec

=============================================================================
