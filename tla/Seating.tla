------------------------------ MODULE Seating -------------------------------
(***************************************************************************)
(* Reserved seating: the seats of one night, the holds that reserve them,  *)
(* the reclaim of lapsed holds by whoever wants their seats, the expiry    *)
(* sweep, and the orders the seats are sold to.                            *)
(*                                                                         *)
(* Choosing seats takes no lock that keeps another choice out: it reads    *)
(* the holders of the seats, then writes conditionally, and is kept here   *)
(* as two steps with anything in between.  So is the sweep.  A checkout    *)
(* and a release read a hold under its row lock, in one step.  What the    *)
(* payment of an order does is module Checkout's; here an order is settled *)
(* or compensated at any moment.                                           *)
(*                                                                         *)
(* A definition whose name ends in _Mutant is the one that follows it with *)
(* a plausible bug, and is part of no specification.                       *)
(***************************************************************************)
EXTENDS Integers

CONSTANTS
  Seats,        \* EventSeat rows of the night
  Holds,        \* TicketHold rows that may be written
  Orders,       \* orders that may be placed
  TTL,          \* TICKET_HOLD_TTL_SECONDS
  MaxTime,      \* bound: the clock
  MaxLag        \* bound: how old a request's instant is when it decides

NoHold == "no hold"
NoOrder == "no order"

ASSUME SeatingAssumption ==
  /\ TTL \in Nat \ {0} /\ MaxTime \in Nat /\ MaxLag \in Nat
  /\ NoHold \notin Holds /\ NoOrder \notin Orders

VARIABLES
  now,        \* the clock
  seat,       \* EventSeat rows
  hold,       \* TicketHold rows, with the seats of their HoldItem rows
  order,      \* Order.status
  moving,     \* whether a payment of the order may still move
  claim,      \* what a request for seats has read and not yet written
  candidates, \* the holds the sweep has read and not yet written
  deleted     \* whether the event has been deleted

vars == <<now, seat, hold, order, moving, claim, candidates, deleted>>

HoldRow == [status : {"NONE", "ACTIVE", "CONVERTED", "RELEASED", "EXPIRED"},
            order : Orders \cup {NoOrder}, seats : SUBSET Seats, expiresAt : Nat]
Reading == [hold : Holds, order : Orders \cup {NoOrder}, active : BOOLEAN]
Claim == [seats : SUBSET Seats, at : Nat, read : SUBSET Reading]

FINISHED_HOLD_STATES == {"EXPIRED", "RELEASED"}

AvailableSeat == [status |-> "AVAILABLE", hold |-> NoHold, order |-> NoOrder]
HeldSeat(h) == [status |-> "HELD", hold |-> h, order |-> NoOrder]
SoldSeat(o) == [status |-> "SOLD", hold |-> NoHold, order |-> o]

(* A seat names a hold exactly while it is HELD, an order once it is SOLD. *)
SeatRow == {AvailableSeat} \cup {HeldSeat(h) : h \in Holds} \cup {SoldSeat(o) : o \in Orders}

NoClaim == [seats |-> {}, at |-> 0, read |-> {}]

Active(h) == hold[h].status = "ACTIVE"

AwaitingPayment(h) ==
  /\ hold[h].order # NoOrder
  /\ order[hold[h].order] = "PENDING"

HoldHasLapsed(h, t) ==
  /\ ~AwaitingPayment(h)
  /\ \/ hold[h].status \in FINISHED_HOLD_STATES
     \/ Active(h) /\ hold[h].expiresAt <= t

(* The seats still HELD by some holds. *)
SeatsOf(H) == {s \in Seats : seat[s].status = "HELD" /\ seat[s].hold \in H}

RequestInstants == {t \in 0 .. MaxTime : t <= now /\ now - t <= MaxLag}

----------------------------------------------------------------------------
(* Choosing seats                                                          *)

(* holdSeats, up to its writes: the plan, the seats' holders and the orders *)
(* those holders name.  A seat that is neither free nor a lapsed hold's is *)
(* refused here.                                                           *)
ChooseSeats(h, S, t) ==
  LET holders == {seat[s].hold : s \in {x \in S : seat[x].status = "HELD"}}
  IN
  /\ ~deleted
  /\ hold[h].status = "NONE" /\ claim[h] = NoClaim /\ S # {}
  /\ \A s \in S : seat[s].status # "SOLD"
  /\ \A g \in holders : HoldHasLapsed(g, t)
  /\ claim' = [claim EXCEPT ![h] =
                 [seats |-> S, at |-> t,
                  read |-> {[hold |-> g, order |-> hold[g].order, active |-> Active(g)] :
                              g \in holders}]]
  /\ UNCHANGED <<now, seat, hold, order, moving, candidates, deleted>>

(* reclaimLapsedSeats: the holds read as lapsed that still are what was     *)
(* read.                                                                   *)
TakenBack_Mutant(c) ==
  {r.hold : r \in {x \in c.read : x.active =>
     Active(x.hold) /\ hold[x.hold].expiresAt <= c.at}}

TakenBack(c) ==
  {r.hold : r \in {x \in c.read : x.active =>
     /\ Active(x.hold) /\ hold[x.hold].expiresAt <= c.at
     /\ hold[x.hold].order = x.order}}

(* claimSeats: all of the chosen seats, AVAILABLE once the lapsed are taken *)
(* back.                                                                   *)
Claimable_Mutant(c) ==
  \A s \in c.seats : seat[s].status # "SOLD"

Claimable(c) ==
  \A s \in c.seats : seat[s].status = "AVAILABLE" \/ s \in SeatsOf(TakenBack(c))

(* writeSeatHold, in a transaction that rolls back unless every seat is     *)
(* taken.                                                                  *)
WriteSeatHold(h) ==
  LET c == claim[h]
  IN
  /\ c # NoClaim
  /\ ~deleted
  /\ Claimable(c)
  /\ hold' = [g \in Holds |->
                IF g = h THEN [status |-> "ACTIVE", order |-> NoOrder, seats |-> c.seats,
                               expiresAt |-> c.at + TTL]
                ELSE IF g \in TakenBack(c) /\ Active(g)
                       THEN [hold[g] EXCEPT !.status = "EXPIRED"]
                ELSE hold[g]]
  /\ seat' = [s \in Seats |->
                IF s \in c.seats THEN HeldSeat(h)
                ELSE IF s \in SeatsOf(TakenBack(c)) THEN AvailableSeat
                ELSE seat[s]]
  /\ claim' = [claim EXCEPT ![h] = NoClaim]
  /\ UNCHANGED <<now, order, moving, candidates, deleted>>

SeatsGone(h) ==
  /\ claim[h] # NoClaim
  /\ deleted \/ ~Claimable(claim[h])
  /\ claim' = [claim EXCEPT ![h] = NoClaim]
  /\ UNCHANGED <<now, seat, hold, order, moving, candidates, deleted>>

----------------------------------------------------------------------------
(* Giving seats back                                                       *)

(* releaseSeats: the seats still HELD by the holds given up. *)
ReleaseSeats(H) ==
  seat' = [s \in Seats |-> IF s \in SeatsOf(H) THEN AvailableSeat ELSE seat[s]]

Finish(H, status) ==
  hold' = [h \in Holds |-> IF h \in H THEN [hold[h] EXCEPT !.status = status] ELSE hold[h]]

ReleaseHold(h, t) ==
  /\ Active(h)
  /\ ~AwaitingPayment(h)
  /\ Finish({h}, IF hold[h].expiresAt <= t THEN "EXPIRED" ELSE "RELEASED")
  /\ ReleaseSeats({h})
  /\ UNCHANGED <<now, order, moving, claim, candidates, deleted>>

SweepRead ==
  /\ candidates = {}
  /\ candidates' = {h \in Holds : Active(h) /\ ~AwaitingPayment(h) /\ hold[h].expiresAt <= now}
  /\ candidates' # {}
  /\ UNCHANGED <<now, seat, hold, order, moving, claim, deleted>>

SweepWrite_Mutant ==
  /\ candidates # {}
  /\ Finish({h \in candidates : Active(h) /\ ~AwaitingPayment(h)}, "EXPIRED")
  /\ UNCHANGED seat
  /\ candidates' = {}
  /\ UNCHANGED <<now, order, moving, claim, deleted>>

(* The holds that still qualify, and the seats of every candidate that is   *)
(* EXPIRED by then.                                                        *)
SweepWrite ==
  /\ candidates # {}
  /\ Finish({h \in candidates : Active(h) /\ ~AwaitingPayment(h)}, "EXPIRED")
  /\ ReleaseSeats({h \in candidates : hold'[h].status = "EXPIRED"})
  /\ candidates' = {}
  /\ UNCHANGED <<now, order, moving, claim, deleted>>

----------------------------------------------------------------------------
(* Orders                                                                  *)

(* orders.create, phase 1: each hold read under its lock, attached, and its *)
(* items stamped with the order's lines.                                   *)
Attach(o, H, t, pays) ==
  /\ ~deleted
  /\ order[o] = "NONE" /\ H # {}
  /\ \A h \in H : Active(h) /\ ~AwaitingPayment(h) /\ hold[h].expiresAt > t
  /\ hold' = [h \in Holds |-> IF h \in H THEN [hold[h] EXCEPT !.order = o] ELSE hold[h]]
  /\ order' = [order EXCEPT ![o] = "PENDING"]
  /\ moving' = [moving EXCEPT ![o] = pays]
  /\ UNCHANGED <<now, seat, claim, candidates, deleted>>

HoldsOf(o) == {h \in Holds : hold[h].order = o}

(* The seats reserved for an order's lines, and those still held for it. *)
Reserved(o) == UNION {hold[h].seats : h \in HoldsOf(o)}
StillHeld(o) == SeatsOf({h \in HoldsOf(o) : Active(h)})

(* settleCheckout, with sellHeldSeats: every reserved seat or nothing. *)
Settle(o) ==
  /\ order[o] = "PENDING"
  /\ StillHeld(o) = Reserved(o)
  /\ order' = [order EXCEPT ![o] = "PAID"]
  /\ moving' = [moving EXCEPT ![o] = FALSE]
  /\ seat' = [s \in Seats |-> IF s \in StillHeld(o) THEN SoldSeat(o) ELSE seat[s]]
  /\ Finish({h \in HoldsOf(o) : Active(h)}, "CONVERTED")
  /\ UNCHANGED <<now, claim, candidates, deleted>>

(* compensateCheckout: the holds stay ACTIVE for another card. *)
Compensate(o) ==
  /\ order[o] = "PENDING"
  /\ order' = [order EXCEPT ![o] = "CANCELLED"]
  /\ moving' = [moving EXCEPT ![o] = FALSE]
  /\ UNCHANGED <<now, seat, hold, claim, candidates, deleted>>

(* applyPaymentSucceeded marks the order, and applyPaymentFailed only its   *)
(* payment; neither knows of holds or seats.  The holds of an order marked *)
(* paid this way await no payment any more, and lapse like anybody's.      *)
WebhookPaid(o) ==
  /\ order[o] = "PENDING" /\ moving[o]
  /\ order' = [order EXCEPT ![o] = "PAID"]
  /\ moving' = [moving EXCEPT ![o] = FALSE]
  /\ UNCHANGED <<now, seat, hold, claim, candidates, deleted>>

WebhookFailed(o) ==
  /\ order[o] = "PENDING" /\ moving[o]
  /\ moving' = [moving EXCEPT ![o] = FALSE]
  /\ UNCHANGED <<now, seat, hold, order, claim, candidates, deleted>>

(* deleteEvent: the unpaid orders, then every hold with its seats. *)
DeleteEvent ==
  /\ ~deleted
  /\ \A o \in Orders : order[o] = "PENDING" => ~moving[o]
  /\ deleted' = TRUE
  /\ order' = [o \in Orders |-> IF order[o] = "PENDING" THEN "CANCELLED" ELSE order[o]]
  /\ Finish({h \in Holds : Active(h)}, "RELEASED")
  /\ ReleaseSeats({h \in Holds : Active(h)})
  /\ UNCHANGED <<now, moving, claim, candidates>>

Tick ==
  /\ now < MaxTime
  /\ now' = now + 1
  /\ UNCHANGED <<seat, hold, order, moving, claim, candidates, deleted>>

----------------------------------------------------------------------------

Init ==
  /\ now = 0
  /\ seat = [s \in Seats |-> AvailableSeat]
  /\ hold = [h \in Holds |->
               [status |-> "NONE", order |-> NoOrder, seats |-> {}, expiresAt |-> 0]]
  /\ order = [o \in Orders |-> "NONE"]
  /\ moving = [o \in Orders |-> FALSE]
  /\ claim = [h \in Holds |-> NoClaim]
  /\ candidates = {}
  /\ deleted = FALSE

Buyer ==
  \/ \E t \in RequestInstants :
       \/ \E h \in Holds : (\E S \in SUBSET Seats : ChooseSeats(h, S, t)) \/ ReleaseHold(h, t)
       \/ \E o \in Orders, H \in SUBSET Holds, pays \in BOOLEAN : Attach(o, H, t, pays)
  \/ \E h \in Holds : WriteSeatHold(h) \/ SeatsGone(h)

Payment(o) == Settle(o) \/ Compensate(o) \/ WebhookPaid(o) \/ WebhookFailed(o)

Next ==
  \/ Buyer
  \/ \E o \in Orders : Payment(o)
  \/ SweepRead \/ SweepWrite \/ DeleteEvent \/ Tick

Spec == Init /\ [][Next]_vars

----------------------------------------------------------------------------
(* Properties                                                              *)

TypeOK ==
  /\ now \in 0 .. MaxTime
  /\ seat \in [Seats -> SeatRow]
  /\ hold \in [Holds -> HoldRow]
  /\ order \in [Orders -> {"NONE", "PENDING", "PAID", "CANCELLED"}]
  /\ moving \in [Orders -> BOOLEAN]
  /\ claim \in [Holds -> Claim]
  /\ candidates \in SUBSET Holds
  /\ deleted \in BOOLEAN

(* A hold owns all of its seats for as long as it is ACTIVE and none of     *)
(* them after: no seat is left HELD by a hold that ended (the leak         *)
(* seating.js speaks of), and none is pulled from under one that has not,  *)
(* whoever reclaims, sweeps, releases or claims at the same time.          *)
HoldsOwnTheirSeats ==
  \A h \in Holds : SeatsOf({h}) = IF Active(h) THEN hold[h].seats ELSE {}

(* While an order awaits its payment its holds stay ACTIVE, so settlement's *)
(* backstop, SEATS_NOT_HELD, is never met.                                 *)
SettlementFindsItsSeats ==
  \A o \in Orders : order[o] = "PENDING" => StillHeld(o) = Reserved(o)

Mapped(s) ==
  CASE seat[s].status = "SOLD" -> [for |-> seat[s].order, as |-> "SOLD"]
    [] seat[s].status = "HELD" /\ AwaitingPayment(seat[s].hold) ->
         [for |-> hold[seat[s].hold].order, as |-> "KEPT"]
    [] OTHER -> [for |-> "nobody", as |-> "FREE"]

SeatView == [s \in Seats |-> Mapped(s)]

Sales == INSTANCE SeatSale WITH seat <- SeatView

(* A seat promised to an order is sold to that order or given up by it,     *)
(* and a sold one is never sold again (seating.js).  An order that a       *)
(* webhook marked paid has given up its seats in this sense: they are not  *)
(* SOLD, and nothing keeps them for it.                                    *)
ImplementsSeatSale == Sales!Spec

=============================================================================
