------------------------------- MODULE Payback -------------------------------
(***************************************************************************)
(* What giving money back on one paid order promises, with no people,      *)
(* provider, calls or tasks in it.  A refund first sets its amount aside   *)
(* from what the order has left; what it set aside it later gives back,    *)
(* once and for good, or lets go.  The order's two counters move by        *)
(* exactly the refund's amount, and never pass what was paid.              *)
(***************************************************************************)
EXTENDS Integers

CONSTANTS
  Refunds, \* the refunds that may be asked for
  Total    \* what the order was paid

VARIABLES
  held,    \* what each refund has set aside
  given,   \* what each refund has given back
  pending, \* the order's count of what is set aside
  refunded \* the order's count of what was given back

vars == <<held, given, pending, refunded>>

Init ==
  /\ held = [r \in Refunds |-> 0]
  /\ given = [r \in Refunds |-> 0]
  /\ pending = 0
  /\ refunded = 0

(* Set aside some amount of what is left: what the count grows by. *)
Reserve(r) ==
  LET amount == pending' - pending
  IN  /\ held[r] = 0 /\ given[r] = 0
      /\ amount \in Nat \ {0}
      /\ pending' + refunded <= Total
      /\ held' = [held EXCEPT ![r] = amount]
      /\ UNCHANGED <<given, refunded>>

(* Give back what was set aside. *)
Give(r) ==
  /\ held[r] # 0
  /\ given' = [given EXCEPT ![r] = held[r]]
  /\ held' = [held EXCEPT ![r] = 0]
  /\ pending' = pending - held[r]
  /\ refunded' = refunded + held[r]

(* Let go of what was set aside: it may be set aside again. *)
Release(r) ==
  /\ held[r] # 0
  /\ held' = [held EXCEPT ![r] = 0]
  /\ pending' = pending - held[r]
  /\ UNCHANGED <<given, refunded>>

Next ==
  \E r \in Refunds :
    \/ Reserve(r)
    \/ Give(r)
    \/ Release(r)

Spec == Init /\ [][Next]_vars
=============================================================================
