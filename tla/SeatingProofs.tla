--------------------------- MODULE SeatingProofs ---------------------------
(* Theorems about module Seating, for any seats, holds and orders.         *)
EXTENDS Seating, TLAPS

HoldStatus == {"NONE", "ACTIVE", "CONVERTED", "RELEASED", "EXPIRED"}

----------------------------------------------------------------------------
(* What the helpers do to a row                                            *)

LEMMA FinishRows ==
  ASSUME TypeOK, NEW H, NEW status \in HoldStatus, Finish(H, status)
  PROVE  /\ hold' \in [Holds -> HoldRow]
         /\ \A h \in Holds :
              /\ hold'[h].order = hold[h].order
              /\ hold'[h].seats = hold[h].seats
              /\ hold'[h].expiresAt = hold[h].expiresAt
              /\ h \in H => hold'[h].status = status
              /\ h \notin H => hold'[h] = hold[h]
BY DEF Finish, TypeOK, HoldRow, HoldStatus

LEMMA ReleaseRows ==
  ASSUME TypeOK, NEW H, ReleaseSeats(H)
  PROVE  /\ seat' \in [Seats -> SeatRow]
         /\ \A s \in Seats :
              /\ s \in SeatsOf(H) => seat'[s] = AvailableSeat
              /\ s \notin SeatsOf(H) => seat'[s] = seat[s]
BY DEF ReleaseSeats, TypeOK, SeatRow

(* A seat is one of three things, and its status says which. *)
LEMMA SeatShape ==
  ASSUME TypeOK, NEW s \in Seats
  PROVE  /\ seat[s].status \in {"AVAILABLE", "HELD", "SOLD"}
         /\ seat[s].status = "AVAILABLE" => seat[s] = AvailableSeat
         /\ seat[s].status = "HELD" => seat[s].hold \in Holds /\ seat[s] = HeldSeat(seat[s].hold)
         /\ seat[s].status = "SOLD" => seat[s].order \in Orders /\ seat[s] = SoldSeat(seat[s].order)
<1>1. seat[s] \in SeatRow
  BY DEF TypeOK
<1>2. CASE seat[s] = AvailableSeat
  BY <1>2 DEF AvailableSeat
<1>3. ASSUME NEW h \in Holds, seat[s] = HeldSeat(h)
      PROVE  seat[s].status = "HELD" /\ seat[s].hold = h
  BY <1>3 DEF HeldSeat
<1>4. ASSUME NEW o \in Orders, seat[s] = SoldSeat(o)
      PROVE  seat[s].status = "SOLD" /\ seat[s].order = o
  BY <1>4 DEF SoldSeat
<1>5. \/ seat[s] = AvailableSeat
      \/ \E h \in Holds : seat[s] = HeldSeat(h)
      \/ \E o \in Orders : seat[s] = SoldSeat(o)
  BY <1>1 DEF SeatRow
<1>. QED
  BY <1>2, <1>3, <1>4, <1>5

LEMMA ShapeStatus ==
  /\ AvailableSeat.status = "AVAILABLE"
  /\ \A h : HeldSeat(h).status = "HELD" /\ HeldSeat(h).hold = h
  /\ \A o : SoldSeat(o).status = "SOLD" /\ SoldSeat(o).order = o
BY DEF AvailableSeat, HeldSeat, SoldSeat

LEMMA RowTypes ==
  ASSUME TypeOK, NEW h \in Holds
  PROVE  /\ hold[h].order \in Orders \cup {NoOrder}
         /\ hold[h].seats \subseteq Seats
         /\ hold[h].status \in HoldStatus
         /\ claim[h].seats \subseteq Seats
         /\ claim[h].at \in Nat
         /\ claim[h].read \subseteq Reading
BY DEF TypeOK, HoldRow, Claim, HoldStatus

LEMMA RowIsTyped ==
  ASSUME NEW status \in HoldStatus, NEW o \in Orders \cup {NoOrder}, NEW S \in SUBSET Seats,
         NEW t \in Nat
  PROVE  [status |-> status, order |-> o, seats |-> S, expiresAt |-> t] \in HoldRow
BY DEF HoldRow, HoldStatus

LEMMA RequestInstantIsNat == ASSUME NEW t \in RequestInstants PROVE t \in Nat
BY SeatingAssumption DEF SeatingAssumption, RequestInstants

----------------------------------------------------------------------------
(* The types                                                               *)

LEMMA ChooseSeatsType ==
  ASSUME TypeOK, NEW h \in Holds, NEW S \in SUBSET Seats, NEW t \in RequestInstants,
         ChooseSeats(h, S, t)
  PROVE  TypeOK'
<1> DEFINE holders == {seat[s].hold : s \in {x \in S : seat[x].status = "HELD"}}
           read == {[hold |-> g, order |-> hold[g].order, active |-> Active(g)] : g \in holders}
<1>1. ASSUME NEW g \in holders
      PROVE  [hold |-> g, order |-> hold[g].order, active |-> Active(g)] \in Reading
  <2>1. g \in Holds
    BY SeatShape
  <2>2. hold[g].order \in Orders \cup {NoOrder}
    BY <2>1, RowTypes
  <2>3. Active(g) \in BOOLEAN
    BY DEF Active
  <2>. QED
    BY <2>1, <2>2, <2>3 DEF Reading
<1>2. read \subseteq Reading
  BY <1>1
<1>3. [seats |-> S, at |-> t, read |-> read] \in Claim
  <2>. HIDE DEF read
  <2>. QED
    BY <1>2, RequestInstantIsNat DEF Claim
<1>4. claim' = [claim EXCEPT ![h] = [seats |-> S, at |-> t, read |-> read]]
  BY DEF ChooseSeats
<1>5. claim' \in [Holds -> Claim]
  <2>. HIDE DEF read
  <2>. QED
    BY <1>3, <1>4 DEF TypeOK
<1>. QED
  BY <1>5 DEF ChooseSeats, TypeOK

LEMMA NoClaimIsClaim == NoClaim \in Claim
BY DEF NoClaim, Claim

LEMMA WriteSeatHoldRows ==
  ASSUME TypeOK, NEW h \in Holds, WriteSeatHold(h)
  PROVE  /\ hold' \in [Holds -> HoldRow]
         /\ seat' \in [Seats -> SeatRow]
         /\ claim' = [claim EXCEPT ![h] = NoClaim]
         /\ hold'[h] = [status |-> "ACTIVE", order |-> NoOrder, seats |-> claim[h].seats,
                        expiresAt |-> claim[h].at + TTL]
         /\ \A g \in Holds \ {h} :
              /\ hold'[g].order = hold[g].order
              /\ hold'[g].seats = hold[g].seats
              /\ g \in TakenBack(claim[h]) /\ Active(g) => hold'[g].status = "EXPIRED"
              /\ ~(g \in TakenBack(claim[h]) /\ Active(g)) => hold'[g] = hold[g]
         /\ \A s \in Seats :
              /\ s \in claim[h].seats => seat'[s] = HeldSeat(h)
              /\ s \notin claim[h].seats /\ s \in SeatsOf(TakenBack(claim[h]))
                   => seat'[s] = AvailableSeat
              /\ s \notin claim[h].seats /\ s \notin SeatsOf(TakenBack(claim[h]))
                   => seat'[s] = seat[s]
<1> DEFINE fresh == [status |-> "ACTIVE", order |-> NoOrder, seats |-> claim[h].seats,
                     expiresAt |-> claim[h].at + TTL]
           T == TakenBack(claim[h])
<1>1. claim[h].at + TTL \in Nat
  BY RowTypes, SeatingAssumption DEF SeatingAssumption
<1>2. fresh \in HoldRow
  BY <1>1, RowTypes, RowIsTyped DEF HoldStatus
<1>3. hold' = [g \in Holds |-> IF g = h THEN fresh
                               ELSE IF g \in T /\ Active(g)
                                      THEN [hold[g] EXCEPT !.status = "EXPIRED"]
                               ELSE hold[g]]
  BY DEF WriteSeatHold
<1>4. ASSUME NEW g \in Holds
      PROVE  /\ [hold[g] EXCEPT !.status = "EXPIRED"] \in HoldRow
             /\ [hold[g] EXCEPT !.status = "EXPIRED"].order = hold[g].order
             /\ [hold[g] EXCEPT !.status = "EXPIRED"].seats = hold[g].seats
             /\ [hold[g] EXCEPT !.status = "EXPIRED"].status = "EXPIRED"
             /\ hold[g] \in HoldRow
  BY DEF TypeOK, HoldRow
<1>5. seat' = [s \in Seats |-> IF s \in claim[h].seats THEN HeldSeat(h)
                               ELSE IF s \in SeatsOf(T) THEN AvailableSeat
                               ELSE seat[s]]
  BY DEF WriteSeatHold
<1>6. seat' \in [Seats -> SeatRow]
  <2>. HIDE DEF T
  <2>. QED
    BY <1>5 DEF TypeOK, SeatRow
<1>7. claim' = [claim EXCEPT ![h] = NoClaim]
  BY DEF WriteSeatHold
<1>8. hold' \in [Holds -> HoldRow]
  <2>. HIDE DEF fresh, T
  <2>. QED
    BY <1>2, <1>3, <1>4
<1>9. hold'[h] = fresh
  BY <1>3
<1>10. ASSUME NEW g \in Holds \ {h}
       PROVE  /\ hold'[g].order = hold[g].order
              /\ hold'[g].seats = hold[g].seats
              /\ g \in T /\ Active(g) => hold'[g].status = "EXPIRED"
              /\ ~(g \in T /\ Active(g)) => hold'[g] = hold[g]
  <2>. HIDE DEF fresh, T
  <2>. QED
    BY <1>3, <1>4
<1>11. ASSUME NEW s \in Seats
       PROVE  /\ s \in claim[h].seats => seat'[s] = HeldSeat(h)
              /\ s \notin claim[h].seats /\ s \in SeatsOf(T) => seat'[s] = AvailableSeat
              /\ s \notin claim[h].seats /\ s \notin SeatsOf(T) => seat'[s] = seat[s]
  <2>. HIDE DEF T
  <2>. QED
    BY <1>5
<1>. QED
  BY <1>6, <1>7, <1>8, <1>9, <1>10, <1>11

LEMMA AttachRows ==
  ASSUME TypeOK, NEW o \in Orders, NEW H \in SUBSET Holds, NEW t, NEW pays \in BOOLEAN,
         Attach(o, H, t, pays)
  PROVE  /\ hold' \in [Holds -> HoldRow]
         /\ \A h \in Holds :
              /\ hold'[h].status = hold[h].status
              /\ hold'[h].seats = hold[h].seats
              /\ h \in H => hold'[h].order = o
              /\ h \notin H => hold'[h] = hold[h]
BY DEF Attach, TypeOK, HoldRow

LEMMA SettleRows ==
  ASSUME TypeOK, NEW o \in Orders, Settle(o)
  PROVE  /\ seat' \in [Seats -> SeatRow]
         /\ \A s \in Seats :
              /\ s \in StillHeld(o) => seat'[s] = SoldSeat(o)
              /\ s \notin StillHeld(o) => seat'[s] = seat[s]
BY DEF Settle, TypeOK, SeatRow

----------------------------------------------------------------------------

(* Type correctness of the seats' rows: a seat names a hold exactly while   *)
(* it is HELD and an order once it is SOLD.                                *)
LEMMA TypeStep == ASSUME TypeOK, [Next]_vars PROVE TypeOK'
<1>1. ASSUME NEW h \in Holds, NEW S \in SUBSET Seats, NEW t \in RequestInstants,
             ChooseSeats(h, S, t)
      PROVE  TypeOK'
  BY <1>1, ChooseSeatsType
<1>2. ASSUME NEW h \in Holds, NEW t \in RequestInstants, ReleaseHold(h, t) PROVE TypeOK'
  <2>1. hold' \in [Holds -> HoldRow]
    <3>1. \E status \in HoldStatus : Finish({h}, status)
      BY <1>2 DEF ReleaseHold, HoldStatus
    <3>. QED
      BY <3>1, FinishRows
  <2>2. seat' \in [Seats -> SeatRow]
    BY <1>2, ReleaseRows DEF ReleaseHold
  <2>. QED
    BY <1>2, <2>1, <2>2 DEF ReleaseHold, TypeOK
<1>3. ASSUME NEW o \in Orders, NEW H \in SUBSET Holds, NEW t \in RequestInstants,
             NEW pays \in BOOLEAN, Attach(o, H, t, pays)
      PROVE  TypeOK'
  <2>1. hold' \in [Holds -> HoldRow]
    BY <1>3, AttachRows
  <2>. QED
    BY <1>3, <2>1 DEF Attach, TypeOK
<1>4. ASSUME NEW h \in Holds, WriteSeatHold(h) PROVE TypeOK'
  <2>1. /\ hold' \in [Holds -> HoldRow] /\ seat' \in [Seats -> SeatRow]
        /\ claim' = [claim EXCEPT ![h] = NoClaim]
    BY <1>4, WriteSeatHoldRows
  <2>2. claim' \in [Holds -> Claim]
    BY <2>1, NoClaimIsClaim DEF TypeOK
  <2>. QED
    BY <1>4, <2>1, <2>2 DEF WriteSeatHold, TypeOK
<1>5. ASSUME NEW h \in Holds, SeatsGone(h) PROVE TypeOK'
  <2>1. claim' \in [Holds -> Claim]
    BY <1>5, NoClaimIsClaim DEF SeatsGone, TypeOK
  <2>. QED
    BY <1>5, <2>1 DEF SeatsGone, TypeOK
<1>6. ASSUME NEW o \in Orders, Settle(o) PROVE TypeOK'
  <2>1. hold' \in [Holds -> HoldRow]
    BY <1>6, FinishRows DEF Settle, HoldStatus
  <2>2. seat' \in [Seats -> SeatRow]
    BY <1>6, SettleRows
  <2>. QED
    BY <1>6, <2>1, <2>2 DEF Settle, TypeOK
<1>7. ASSUME NEW o \in Orders, Compensate(o) \/ WebhookPaid(o) \/ WebhookFailed(o) PROVE TypeOK'
  BY <1>7 DEF Compensate, WebhookPaid, WebhookFailed, TypeOK
<1>8. CASE SweepRead
  BY <1>8 DEF SweepRead, TypeOK
<1>9. CASE SweepWrite
  <2>1. hold' \in [Holds -> HoldRow]
    BY <1>9, FinishRows DEF SweepWrite, HoldStatus
  <2>2. seat' \in [Seats -> SeatRow]
    BY <1>9, ReleaseRows DEF SweepWrite
  <2>. QED
    BY <1>9, <2>1, <2>2 DEF SweepWrite, TypeOK
<1>10. CASE DeleteEvent
  <2>1. hold' \in [Holds -> HoldRow]
    BY <1>10, FinishRows DEF DeleteEvent, HoldStatus
  <2>2. seat' \in [Seats -> SeatRow]
    BY <1>10, ReleaseRows DEF DeleteEvent
  <2>. QED
    BY <1>10, <2>1, <2>2 DEF DeleteEvent, TypeOK
<1>11. CASE Tick
  BY <1>11, SeatingAssumption DEF Tick, TypeOK, SeatingAssumption
<1>12. CASE UNCHANGED vars
  BY <1>12 DEF vars, TypeOK
<1>. QED
  BY <1>1, <1>2, <1>3, <1>4, <1>5, <1>6, <1>7, <1>8, <1>9, <1>10, <1>11, <1>12
     DEF Next, Buyer, Payment

THEOREM Typed == Spec => []TypeOK
<1>1. ASSUME Init PROVE TypeOK
  <2>1. [status |-> "NONE", order |-> NoOrder, seats |-> {}, expiresAt |-> 0] \in HoldRow
    BY RowIsTyped DEF HoldStatus
  <2>2. hold \in [Holds -> HoldRow]
    <3>. HIDE DEF HoldRow
    <3>. QED
      BY <1>1, <2>1 DEF Init
  <2>3. seat \in [Seats -> SeatRow]
    BY <1>1 DEF Init, SeatRow
  <2>4. claim \in [Holds -> Claim]
    BY <1>1, NoClaimIsClaim DEF Init
  <2>5. now \in 0 .. MaxTime
    BY <1>1, SeatingAssumption DEF Init, SeatingAssumption
  <2>6. /\ order \in [Orders -> {"NONE", "PENDING", "PAID", "CANCELLED"}]
        /\ candidates \in SUBSET Holds
    BY <1>1 DEF Init
  <2>7. moving \in [Orders -> BOOLEAN] /\ deleted \in BOOLEAN
    BY <1>1, Zenon DEF Init
  <2>. QED
    BY <2>2, <2>3, <2>4, <2>5, <2>6, <2>7, Zenon DEF TypeOK
<1>2. TypeOK /\ [Next]_vars => TypeOK'
  BY TypeStep
<1>. QED
  BY <1>1, <1>2, PTL DEF Spec

----------------------------------------------------------------------------
(* The inductive invariant                                                 *)

(* An ACTIVE hold has all of its seats, a hold some order awaits a payment  *)
(* with is ACTIVE, and an order exists before a hold is attached to it.    *)
HoldFits(h) ==
  /\ Active(h) => \A s \in hold[h].seats : seat[s] = HeldSeat(h)
  /\ AwaitingPayment(h) => Active(h)
  /\ hold[h].order # NoOrder => order[hold[h].order] # "NONE"

(* What a choice of seats has read stays harmless: it read only ACTIVE      *)
(* holds, and the order of any of them had ended and will not be back.     *)
ClaimFits(h) ==
  /\ claim[h] # NoClaim => hold[h].status = "NONE"
  /\ \A r \in claim[h].read :
       r.active /\ (r.order # NoOrder => order[r.order] \in {"PAID", "CANCELLED"})

SeatFits(s) ==
  /\ seat[s].status = "HELD" => Active(seat[s].hold) /\ s \in hold[seat[s].hold].seats
  /\ seat[s].status = "SOLD" => order[seat[s].order] # "NONE"

Fits == (\A h \in Holds : HoldFits(h) /\ ClaimFits(h)) /\ (\A s \in Seats : SeatFits(s))

IInv == TypeOK /\ Fits

(* An order that has ended stays so, and none is unplaced. *)
LEMMA OrdersMoveOn ==
  ASSUME TypeOK, [Next]_vars, NEW o \in Orders
  PROVE  /\ order[o] # "NONE" => order'[o] # "NONE"
         /\ order[o] \in {"PAID", "CANCELLED"} => order'[o] = order[o]
<1>1. \/ UNCHANGED order
      \/ \E p \in Orders : order[p] = "NONE" /\ order' = [order EXCEPT ![p] = "PENDING"]
      \/ \E p \in Orders, end \in {"PAID", "CANCELLED"} :
           order[p] = "PENDING" /\ order' = [order EXCEPT ![p] = end]
      \/ order' = [p \in Orders |-> IF order[p] = "PENDING" THEN "CANCELLED" ELSE order[p]]
  BY DEF Next, vars, Buyer, Payment, ChooseSeats, ReleaseHold, Attach, WriteSeatHold, SeatsGone,
         Settle, Compensate, WebhookPaid, WebhookFailed, SweepRead, SweepWrite, DeleteEvent, Tick
<1>. QED
  BY <1>1 DEF TypeOK

(* A claim that stays as it was, or is dropped, still fits. *)
LEMMA ClaimStillFits ==
  ASSUME IInv, [Next]_vars, NEW h \in Holds,
         claim'[h] = claim[h] \/ claim'[h] = NoClaim,
         claim'[h] # NoClaim => hold'[h].status = hold[h].status
  PROVE  ClaimFits(h)'
<1>1. ClaimFits(h) /\ claim[h].read \subseteq Reading
  BY RowTypes DEF IInv, Fits
<1>2. CASE claim'[h] = NoClaim
  BY <1>2 DEF ClaimFits, NoClaim
<1>3. CASE claim'[h] = claim[h] /\ claim'[h] # NoClaim
  <2>1. hold'[h].status = "NONE"
    BY <1>1, <1>3 DEF ClaimFits
  <2>2. ASSUME NEW r \in claim[h].read
        PROVE  r.active /\ (r.order # NoOrder => order'[r.order] \in {"PAID", "CANCELLED"})
    <3>1. r.order \in Orders \cup {NoOrder}
      BY <1>1 DEF Reading
    <3>2. r.active /\ (r.order # NoOrder => order[r.order] \in {"PAID", "CANCELLED"})
      BY <1>1 DEF ClaimFits
    <3>3. r.order # NoOrder => order'[r.order] = order[r.order]
      BY <3>1, <3>2, OrdersMoveOn DEF IInv
    <3>. QED
      BY <3>2, <3>3
  <2>. QED
    BY <1>3, <2>1, <2>2 DEF ClaimFits
<1>. QED
  BY <1>2, <1>3

(* Holds given up with their seats: a release, the sweep, the deletion. *)
LEMMA GivingBackFits ==
  ASSUME IInv, TypeOK', [Next]_vars,
         NEW H \in SUBSET Holds, NEW K \in SUBSET Holds, NEW status \in {"EXPIRED", "RELEASED"},
         Finish(H, status), ReleaseSeats(K), UNCHANGED claim,
         H \subseteq K,
         \A h \in H : Active(h) /\ ~AwaitingPayment(h)',
         \A h \in K \ H : ~Active(h),
         \A o \in Orders : order'[o] = "PENDING" => order[o] = "PENDING"
  PROVE  Fits'
<1>. USE DEF IInv, Fits
<1>1. \A h \in Holds :
        /\ hold'[h].order = hold[h].order /\ hold'[h].seats = hold[h].seats
        /\ h \in H => hold'[h].status = status
        /\ h \notin H => hold'[h] = hold[h]
  BY FinishRows DEF HoldStatus
<1>2. \A s \in Seats :
        /\ s \in SeatsOf(K) => seat'[s] = AvailableSeat
        /\ s \notin SeatsOf(K) => seat'[s] = seat[s]
  BY ReleaseRows
<1>3. ASSUME NEW h \in Holds PROVE HoldFits(h)'
  <2>1. HoldFits(h) /\ hold[h].seats \subseteq Seats /\ hold[h].order \in Orders \cup {NoOrder}
    BY RowTypes
  <2>2. hold'[h].order # NoOrder => order'[hold'[h].order] # "NONE"
    BY <1>1, <2>1, OrdersMoveOn DEF HoldFits
  <2>3. CASE h \in H
    BY <1>1, <2>2, <2>3 DEF HoldFits, Active
  <2>4. CASE h \notin H
    <3>1. hold'[h] = hold[h]
      BY <1>1, <2>4
    <3>2. AwaitingPayment(h)' => Active(h)'
      BY <2>1, <3>1 DEF HoldFits, AwaitingPayment, Active
    <3>3. ASSUME Active(h)', NEW s \in hold'[h].seats PROVE seat'[s] = HeldSeat(h)
      <4>1. Active(h) /\ s \in Seats /\ seat[s] = HeldSeat(h)
        BY <2>1, <3>1, <3>3 DEF Active, HoldFits
      <4>2. s \notin SeatsOf(K)
        BY <2>4, <4>1, ShapeStatus DEF SeatsOf
      <4>. QED
        BY <1>2, <4>1, <4>2
    <3>. QED
      BY <2>2, <3>2, <3>3 DEF HoldFits
  <2>. QED
    BY <2>3, <2>4
<1>4. ASSUME NEW h \in Holds PROVE ClaimFits(h)'
  <2>1. claim'[h] # NoClaim => h \notin H
    BY DEF ClaimFits, Active
  <2>. QED
    BY <1>1, <2>1, ClaimStillFits
<1>5. ASSUME NEW s \in Seats PROVE SeatFits(s)'
  <2>1. CASE s \in SeatsOf(K)
    BY <1>2, <2>1, ShapeStatus DEF SeatFits
  <2>2. CASE s \notin SeatsOf(K)
    <3>1. seat'[s] = seat[s] /\ SeatFits(s)
      BY <1>2, <2>2
    <3>2. ASSUME seat[s].status = "HELD"
          PROVE  hold'[seat[s].hold].status = "ACTIVE" /\ s \in hold'[seat[s].hold].seats
      <4>1. seat[s].hold \in Holds
        BY <3>2, SeatShape
      <4>2. hold[seat[s].hold].status = "ACTIVE" /\ s \in hold[seat[s].hold].seats
        BY <3>1, <3>2 DEF SeatFits, Active
      <4>3. seat[s].hold \notin H
        BY <2>2, <3>2 DEF SeatsOf
      <4>. QED
        BY <1>1, <4>1, <4>2, <4>3
    <3>3. seat'[s].status = "SOLD" => order'[seat'[s].order] # "NONE"
      BY <3>1, SeatShape, OrdersMoveOn DEF SeatFits
    <3>. QED
      BY <3>1, <3>2, <3>3 DEF SeatFits, Active
  <2>. QED
    BY <2>1, <2>2
<1>. QED
  BY <1>3, <1>4, <1>5

(* Rows nobody touched still fit. *)
LEMMA UntouchedFits ==
  ASSUME IInv, [Next]_vars, UNCHANGED <<seat, hold, claim>>,
         \A o \in Orders : order'[o] = "PENDING" => order[o] = "PENDING"
  PROVE  Fits'
<1>. USE DEF IInv, Fits
<1>1. ASSUME NEW h \in Holds PROVE HoldFits(h)' /\ ClaimFits(h)'
  <2>1. HoldFits(h) /\ hold[h].order \in Orders \cup {NoOrder}
    BY RowTypes
  <2>2. ClaimFits(h)'
    BY ClaimStillFits
  <2>3. hold[h].order # NoOrder => order'[hold[h].order] # "NONE"
    BY <2>1, OrdersMoveOn DEF HoldFits
  <2>4. AwaitingPayment(h)' => Active(h)'
    BY <2>1 DEF HoldFits, AwaitingPayment, Active
  <2>5. Active(h)' => \A s \in hold'[h].seats : seat'[s] = HeldSeat(h)
    BY <2>1 DEF HoldFits, Active
  <2>. QED
    BY <2>2, <2>3, <2>4, <2>5 DEF HoldFits
<1>2. ASSUME NEW s \in Seats PROVE SeatFits(s)'
  BY SeatShape, OrdersMoveOn DEF SeatFits, Active
<1>. QED
  BY <1>1, <1>2

LEMMA ChooseSeatsFits ==
  ASSUME IInv, TypeOK', [Next]_vars, NEW h \in Holds, NEW S \in SUBSET Seats, NEW t,
         ChooseSeats(h, S, t)
  PROVE  Fits'
<1>. USE DEF IInv, Fits
<1> DEFINE holders == {seat[s].hold : s \in {x \in S : seat[x].status = "HELD"}}
<1>1. UNCHANGED <<seat, hold, order>>
  BY DEF ChooseSeats
<1>2. ASSUME NEW g \in holders
      PROVE  /\ Active(g)
             /\ hold[g].order # NoOrder => order[hold[g].order] \in {"PAID", "CANCELLED"}
  <2>1. PICK s \in S : seat[s].status = "HELD" /\ g = seat[s].hold
    OBVIOUS
  <2>2. g \in Holds /\ Active(g) /\ HoldFits(g)
    BY <2>1, SeatShape DEF SeatFits
  <2>3. ~AwaitingPayment(g)
    BY DEF ChooseSeats, HoldHasLapsed
  <2>4. hold[g].order \in Orders \cup {NoOrder}
    BY <2>2, RowTypes
  <2>. QED
    BY <2>2, <2>3, <2>4 DEF HoldFits, AwaitingPayment, TypeOK
<1>3. claim' = [claim EXCEPT ![h] =
                  [seats |-> S, at |-> t,
                   read |-> {[hold |-> g, order |-> hold[g].order, active |-> Active(g)] :
                               g \in holders}]]
  BY DEF ChooseSeats
<1>4. ASSUME NEW r \in claim'[h].read
      PROVE  r.active /\ (r.order # NoOrder => order'[r.order] \in {"PAID", "CANCELLED"})
  <2>1. PICK g \in holders : r = [hold |-> g, order |-> hold[g].order, active |-> Active(g)]
    BY <1>3 DEF TypeOK
  <2>2. r.active = Active(g) /\ r.order = hold[g].order
    BY <2>1
  <2>. QED
    BY <1>1, <1>2, <2>2
<1>5. hold[h].status = "NONE"
  BY DEF ChooseSeats
<1>6. ClaimFits(h)'
  BY <1>1, <1>4, <1>5 DEF ClaimFits
<1>7. ASSUME NEW g \in Holds \ {h} PROVE ClaimFits(g)'
  <2>1. claim'[g] = claim[g]
    BY <1>3 DEF TypeOK
  <2>. QED
    BY <1>1, <2>1, ClaimStillFits
<1>8. ASSUME NEW g \in Holds PROVE HoldFits(g)'
  <2>1. HoldFits(g)
    OBVIOUS
  <2>. QED
    BY <1>1, <2>1 DEF HoldFits, AwaitingPayment, Active
<1>9. ASSUME NEW s \in Seats PROVE SeatFits(s)'
  <2>1. SeatFits(s)
    OBVIOUS
  <2>. QED
    BY <1>1, <2>1 DEF SeatFits, Active
<1>. QED
  BY <1>6, <1>7, <1>8, <1>9

(* The holds a choice takes back are ACTIVE and await no payment. *)
LEMMA TakenBackIsFree ==
  ASSUME IInv, NEW h \in Holds, NEW g \in TakenBack(claim[h])
  PROVE  g \in Holds /\ g # h /\ Active(g) /\ ~AwaitingPayment(g)
<1>1. ClaimFits(h) /\ claim[h].read \subseteq Reading
  BY RowTypes DEF IInv, Fits
<1>2. PICK r \in claim[h].read :
        /\ g = r.hold
        /\ r.active => Active(r.hold) /\ hold[r.hold].expiresAt <= claim[h].at
                       /\ hold[r.hold].order = r.order
  BY DEF TakenBack
<1>3. r.active /\ (r.order # NoOrder => order[r.order] \in {"PAID", "CANCELLED"})
  BY <1>1 DEF ClaimFits
<1>4. Active(g) /\ hold[g].order = r.order
  BY <1>2, <1>3
<1>5. ~AwaitingPayment(g)
  BY <1>3, <1>4 DEF AwaitingPayment
<1>6. claim[h] # NoClaim
  BY DEF NoClaim
<1>7. hold[h].status = "NONE"
  BY <1>1, <1>6 DEF ClaimFits
<1>8. g \in Holds
  BY <1>1, <1>2 DEF Reading
<1>. QED
  BY <1>4, <1>5, <1>7, <1>8 DEF Active

LEMMA WriteSeatHoldFits ==
  ASSUME IInv, TypeOK', [Next]_vars, NEW h \in Holds, WriteSeatHold(h)
  PROVE  Fits'
<1>. USE DEF IInv, Fits
<1> DEFINE c == claim[h]
           T == TakenBack(claim[h])
<1>1. /\ UNCHANGED order
      /\ c # NoClaim /\ hold[h].status = "NONE" /\ c.seats \subseteq Seats
  BY RowTypes DEF WriteSeatHold, ClaimFits
<1>2. \A s \in c.seats : seat[s].status = "AVAILABLE" \/ s \in SeatsOf(T)
  BY DEF WriteSeatHold, Claimable
<1>3. /\ hold'[h].status = "ACTIVE" /\ hold'[h].order = NoOrder /\ hold'[h].seats = c.seats
      /\ claim' = [claim EXCEPT ![h] = NoClaim]
  <2>1. hold'[h] = [status |-> "ACTIVE", order |-> NoOrder, seats |-> claim[h].seats,
                    expiresAt |-> claim[h].at + TTL]
    BY WriteSeatHoldRows, Zenon
  <2>2. claim' = [claim EXCEPT ![h] = NoClaim]
    BY DEF WriteSeatHold
  <2>. QED
    BY <2>1, <2>2
<1>4. \A g \in Holds \ {h} :
        /\ g \in T => hold'[g].status = "EXPIRED"
        /\ g \notin T => hold'[g] = hold[g]
        /\ hold'[g].order = hold[g].order /\ hold'[g].seats = hold[g].seats
  BY WriteSeatHoldRows, TakenBackIsFree
<1>5. \A s \in Seats :
        /\ s \in c.seats => seat'[s] = HeldSeat(h)
        /\ s \notin c.seats /\ s \in SeatsOf(T) => seat'[s] = AvailableSeat
        /\ s \notin c.seats /\ s \notin SeatsOf(T) => seat'[s] = seat[s]
  BY WriteSeatHoldRows
<1>6. HoldFits(h)'
  BY <1>1, <1>3, <1>5 DEF HoldFits, AwaitingPayment
<1>7. ClaimFits(h)'
  BY <1>3 DEF ClaimFits, NoClaim, TypeOK
<1>8. ASSUME NEW g \in Holds \ {h} PROVE HoldFits(g)' /\ ClaimFits(g)'
  <2>1. HoldFits(g) /\ ClaimFits(g) /\ hold[g].seats \subseteq Seats
    BY RowTypes
  <2>2. claim'[g] = claim[g]
    BY <1>3 DEF TypeOK
  <2>3. claim[g] # NoClaim => hold'[g].status = hold[g].status
    BY <1>4, <2>1, TakenBackIsFree DEF ClaimFits, Active
  <2>4. ClaimFits(g)'
    BY <2>2, <2>3, ClaimStillFits
  <2>5. CASE g \in T
    <3>1. ~AwaitingPayment(g)'
      BY <1>1, <1>4, <2>5, TakenBackIsFree DEF AwaitingPayment
    <3>2. hold'[g].status = "EXPIRED" /\ hold'[g].order = hold[g].order
      BY <1>4, <2>5
    <3>. QED
      BY <1>1, <2>1, <2>4, <3>1, <3>2 DEF HoldFits, Active
  <2>6. CASE g \notin T
    <3>1. hold'[g] = hold[g]
      BY <1>4, <2>6
    <3>2. ASSUME Active(g), NEW s \in hold[g].seats PROVE seat'[s] = HeldSeat(g)
      <4>1. s \in Seats /\ seat[s] = HeldSeat(g)
        BY <2>1, <3>2 DEF HoldFits
      <4>2. seat[s].status = "HELD" /\ seat[s].hold = g
        BY <4>1, ShapeStatus
      <4>3. s \notin SeatsOf(T) /\ s \notin c.seats
        BY <1>2, <2>6, <4>2 DEF SeatsOf
      <4>. QED
        BY <1>5, <4>1, <4>3
    <3>. QED
      BY <1>1, <2>1, <2>4, <3>1, <3>2 DEF HoldFits, AwaitingPayment, Active
  <2>. QED
    BY <2>5, <2>6
<1>9. ASSUME NEW s \in Seats PROVE SeatFits(s)'
  <2>1. CASE s \in c.seats
    BY <1>3, <1>5, <2>1, ShapeStatus DEF SeatFits, Active
  <2>2. CASE s \notin c.seats /\ s \in SeatsOf(T)
    BY <1>5, <2>2, ShapeStatus DEF SeatFits
  <2>3. CASE s \notin c.seats /\ s \notin SeatsOf(T)
    <3>1. seat'[s] = seat[s] /\ SeatFits(s)
      BY <1>5, <2>3
    <3>2. ASSUME seat[s].status = "HELD"
          PROVE  hold'[seat[s].hold].status = "ACTIVE" /\ s \in hold'[seat[s].hold].seats
      <4>1. seat[s].hold \in Holds
        BY <3>2, SeatShape
      <4>2. hold[seat[s].hold].status = "ACTIVE" /\ s \in hold[seat[s].hold].seats
        BY <3>1, <3>2 DEF SeatFits, Active
      <4>3. seat[s].hold \notin T /\ seat[s].hold # h
        BY <1>1, <2>3, <3>2, <4>2 DEF SeatsOf
      <4>. QED
        BY <1>4, <4>1, <4>2, <4>3
    <3>. QED
      BY <1>1, <3>1, <3>2 DEF SeatFits, Active
  <2>. QED
    BY <2>1, <2>2, <2>3
<1>. QED
  BY <1>6, <1>7, <1>8, <1>9

LEMMA AttachFits ==
  ASSUME IInv, TypeOK', [Next]_vars, NEW o \in Orders, NEW H \in SUBSET Holds, NEW t,
         NEW pays \in BOOLEAN, Attach(o, H, t, pays)
  PROVE  Fits'
<1>. USE DEF IInv, Fits
<1>1. /\ UNCHANGED <<seat, claim>>
      /\ order[o] = "NONE" /\ order' = [order EXCEPT ![o] = "PENDING"]
      /\ \A h \in H : Active(h)
  BY DEF Attach
<1>2. \A h \in Holds :
        /\ hold'[h].status = hold[h].status /\ hold'[h].seats = hold[h].seats
        /\ h \in H => hold'[h].order = o
        /\ h \notin H => hold'[h] = hold[h]
  BY AttachRows
<1>3. order'[o] = "PENDING" /\ \A p \in Orders \ {o} : order'[p] = order[p]
  BY <1>1 DEF TypeOK
<1>4. ASSUME NEW h \in Holds PROVE HoldFits(h)'
  <2>1. HoldFits(h) /\ hold[h].order \in Orders \cup {NoOrder}
    BY RowTypes
  <2>2. Active(h)' => \A s \in hold'[h].seats : seat'[s] = HeldSeat(h)
    BY <1>1, <1>2, <2>1 DEF HoldFits, Active
  <2>3. CASE h \in H
    BY <1>1, <1>2, <1>3, <2>2, <2>3 DEF HoldFits, Active
  <2>4. CASE h \notin H
    <3>1. hold'[h] = hold[h]
      BY <1>2, <2>4
    <3>2. hold[h].order # NoOrder => order'[hold[h].order] = order[hold[h].order]
      BY <1>1, <1>3, <2>1 DEF HoldFits
    <3>3. AwaitingPayment(h)' => Active(h)'
      BY <2>1, <3>1, <3>2 DEF HoldFits, AwaitingPayment, Active
    <3>. QED
      BY <2>1, <2>2, <3>1, <3>2, <3>3 DEF HoldFits
  <2>. QED
    BY <2>3, <2>4
<1>5. ASSUME NEW h \in Holds PROVE ClaimFits(h)'
  BY <1>1, <1>2, ClaimStillFits
<1>6. ASSUME NEW s \in Seats PROVE SeatFits(s)'
  <2>1. SeatFits(s) /\ (seat[s].status = "HELD" => seat[s].hold \in Holds)
    BY SeatShape
  <2>2. seat[s].status = "SOLD" => order'[seat[s].order] # "NONE"
    BY <2>1, SeatShape, OrdersMoveOn DEF SeatFits
  <2>. QED
    BY <1>1, <1>2, <2>1, <2>2 DEF SeatFits, Active
<1>. QED
  BY <1>4, <1>5, <1>6

(* What is still held for an order that awaits its payment is all of it. *)
LEMMA NothingMissing ==
  ASSUME IInv, NEW o \in Orders, order[o] = "PENDING"
  PROVE  /\ \A h \in HoldsOf(o) : Active(h)
         /\ StillHeld(o) = SeatsOf(HoldsOf(o))
         /\ StillHeld(o) = Reserved(o)
<1>. USE DEF IInv, Fits
<1>1. ASSUME NEW h \in HoldsOf(o) PROVE Active(h)
  <2>1. h \in Holds /\ AwaitingPayment(h) /\ HoldFits(h)
    BY SeatingAssumption DEF SeatingAssumption, HoldsOf, AwaitingPayment
  <2>. QED
    BY <2>1 DEF HoldFits
<1>2. StillHeld(o) = SeatsOf(HoldsOf(o))
  BY <1>1 DEF StillHeld
<1>3. ASSUME NEW s \in SeatsOf(HoldsOf(o)) PROVE s \in Reserved(o)
  BY DEF SeatsOf, SeatFits, Reserved
<1>4. ASSUME NEW s \in Reserved(o) PROVE s \in SeatsOf(HoldsOf(o))
  <2>1. PICK h \in HoldsOf(o) : s \in hold[h].seats
    BY DEF Reserved
  <2>2. HoldFits(h) /\ s \in Seats
    BY <2>1, RowTypes DEF HoldsOf
  <2>3. seat[s] = HeldSeat(h)
    BY <1>1, <2>1, <2>2 DEF HoldFits
  <2>. QED
    BY <2>1, <2>2, <2>3, ShapeStatus DEF SeatsOf
<1>. QED
  BY <1>1, <1>2, <1>3, <1>4

LEMMA SettleFits ==
  ASSUME IInv, TypeOK', [Next]_vars, NEW o \in Orders, Settle(o)
  PROVE  Fits'
<1>. USE DEF IInv, Fits
<1>1. /\ UNCHANGED claim
      /\ order[o] = "PENDING" /\ order' = [order EXCEPT ![o] = "PAID"]
  BY DEF Settle
<1>2. order'[o] = "PAID" /\ \A p \in Orders \ {o} : order'[p] = order[p]
  BY <1>1 DEF TypeOK
<1>3. \A h \in HoldsOf(o) : Active(h)
  BY <1>1, NothingMissing
<1>4. Finish(HoldsOf(o), "CONVERTED")
  <2>1. {h \in HoldsOf(o) : Active(h)} = HoldsOf(o)
    BY <1>3
  <2>. QED
    BY <2>1 DEF Settle
<1>5. \A h \in Holds :
        /\ hold'[h].order = hold[h].order /\ hold'[h].seats = hold[h].seats
        /\ h \in HoldsOf(o) => hold'[h].status = "CONVERTED"
        /\ h \notin HoldsOf(o) => hold'[h] = hold[h]
  BY <1>4, FinishRows DEF HoldStatus
<1>6. \A s \in Seats :
        /\ s \in SeatsOf(HoldsOf(o)) => seat'[s] = SoldSeat(o)
        /\ s \notin SeatsOf(HoldsOf(o)) => seat'[s] = seat[s]
  BY <1>1, SettleRows, NothingMissing
<1>7. ASSUME NEW h \in Holds PROVE HoldFits(h)'
  <2>1. HoldFits(h) /\ hold[h].order \in Orders \cup {NoOrder} /\ hold[h].seats \subseteq Seats
    BY RowTypes
  <2>2. CASE h \in HoldsOf(o)
    BY <1>2, <1>5, <2>2, SeatingAssumption
       DEF SeatingAssumption, HoldFits, HoldsOf, AwaitingPayment, Active
  <2>3. CASE h \notin HoldsOf(o)
    <3>1. hold'[h] = hold[h] /\ hold[h].order # o
      BY <1>5, <2>3 DEF HoldsOf
    <3>2. hold[h].order # NoOrder => order'[hold[h].order] = order[hold[h].order]
      BY <1>2, <2>1, <3>1
    <3>3. ASSUME Active(h), NEW s \in hold[h].seats PROVE seat'[s] = HeldSeat(h)
      <4>1. s \in Seats /\ seat[s] = HeldSeat(h)
        BY <2>1, <3>3 DEF HoldFits
      <4>2. s \notin SeatsOf(HoldsOf(o))
        BY <2>3, <4>1, ShapeStatus DEF SeatsOf
      <4>. QED
        BY <1>6, <4>1, <4>2
    <3>. QED
      BY <2>1, <3>1, <3>2, <3>3 DEF HoldFits, AwaitingPayment, Active
  <2>. QED
    BY <2>2, <2>3
<1>8. ASSUME NEW h \in Holds PROVE ClaimFits(h)'
  <2>1. claim[h] # NoClaim => h \notin HoldsOf(o)
    BY <1>3 DEF ClaimFits, Active
  <2>. QED
    BY <1>1, <1>5, <2>1, ClaimStillFits
<1>9. ASSUME NEW s \in Seats PROVE SeatFits(s)'
  <2>1. CASE s \in SeatsOf(HoldsOf(o))
    BY <1>2, <1>6, <2>1, ShapeStatus DEF SeatFits
  <2>2. CASE s \notin SeatsOf(HoldsOf(o))
    <3>1. seat'[s] = seat[s] /\ SeatFits(s)
      BY <1>6, <2>2
    <3>2. ASSUME seat[s].status = "HELD"
          PROVE  hold'[seat[s].hold].status = "ACTIVE" /\ s \in hold'[seat[s].hold].seats
      <4>1. seat[s].hold \in Holds
        BY <3>2, SeatShape
      <4>2. hold[seat[s].hold].status = "ACTIVE" /\ s \in hold[seat[s].hold].seats
        BY <3>1, <3>2 DEF SeatFits, Active
      <4>3. seat[s].hold \notin HoldsOf(o)
        BY <2>2, <3>2 DEF SeatsOf
      <4>. QED
        BY <1>5, <4>1, <4>2, <4>3
    <3>3. seat[s].status = "SOLD" => order'[seat[s].order] # "NONE"
      BY <3>1, SeatShape, OrdersMoveOn DEF SeatFits
    <3>. QED
      BY <3>1, <3>2, <3>3 DEF SeatFits, Active
  <2>. QED
    BY <2>1, <2>2
<1>. QED
  BY <1>7, <1>8, <1>9

LEMMA FitsStep == ASSUME IInv, [Next]_vars PROVE IInv'
<1>. USE DEF IInv
<1>0. TypeOK'
  BY TypeStep
<1>1. ASSUME NEW h \in Holds, NEW S \in SUBSET Seats, NEW t \in RequestInstants,
             ChooseSeats(h, S, t)
      PROVE  Fits'
  BY <1>0, <1>1, ChooseSeatsFits
<1>2. ASSUME NEW h \in Holds, NEW t \in RequestInstants, ReleaseHold(h, t) PROVE Fits'
  <2>1. \E status \in {"EXPIRED", "RELEASED"} : Finish({h}, status)
    BY <1>2 DEF ReleaseHold
  <2>2. /\ ReleaseSeats({h}) /\ UNCHANGED <<claim, order>>
        /\ Active(h) /\ ~AwaitingPayment(h)
    BY <1>2 DEF ReleaseHold
  <2>3. hold'[h].order = hold[h].order
    BY <2>1, FinishRows DEF HoldStatus
  <2>4. ~AwaitingPayment(h)'
    BY <2>2, <2>3 DEF AwaitingPayment
  <2>. QED
    BY <1>0, <2>1, <2>2, <2>4, GivingBackFits
<1>3. ASSUME NEW o \in Orders, NEW H \in SUBSET Holds, NEW t \in RequestInstants,
             NEW pays \in BOOLEAN, Attach(o, H, t, pays)
      PROVE  Fits'
  BY <1>0, <1>3, AttachFits
<1>4. ASSUME NEW h \in Holds, WriteSeatHold(h) PROVE Fits'
  BY <1>0, <1>4, WriteSeatHoldFits
<1>5. ASSUME NEW h \in Holds, SeatsGone(h) PROVE Fits'
  <2>1. UNCHANGED <<seat, hold, order>> /\ claim' = [claim EXCEPT ![h] = NoClaim]
    BY <1>5 DEF SeatsGone
  <2>2. ASSUME NEW g \in Holds PROVE ClaimFits(g)'
    <3>1. claim'[g] = claim[g] \/ claim'[g] = NoClaim
      BY <2>1 DEF TypeOK
    <3>. QED
      BY <2>1, <3>1, ClaimStillFits
  <2>3. ASSUME NEW g \in Holds PROVE HoldFits(g)'
    <3>1. HoldFits(g)
      BY DEF Fits
    <3>. QED
      BY <2>1, <3>1 DEF HoldFits, AwaitingPayment, Active
  <2>4. ASSUME NEW s \in Seats PROVE SeatFits(s)'
    <3>1. SeatFits(s)
      BY DEF Fits
    <3>. QED
      BY <2>1, <3>1 DEF SeatFits, Active
  <2>. QED
    BY <2>2, <2>3, <2>4 DEF Fits
<1>6. ASSUME NEW o \in Orders, Settle(o) PROVE Fits'
  BY <1>0, <1>6, SettleFits
<1>7. ASSUME NEW o \in Orders, Compensate(o) \/ WebhookPaid(o) \/ WebhookFailed(o) PROVE Fits'
  <2>1. UNCHANGED <<seat, hold, claim>>
    BY <1>7 DEF Compensate, WebhookPaid, WebhookFailed
  <2>2. \A p \in Orders : order'[p] = "PENDING" => order[p] = "PENDING"
    BY <1>7 DEF Compensate, WebhookPaid, WebhookFailed, TypeOK
  <2>. QED
    BY <2>1, <2>2, UntouchedFits
<1>8. CASE SweepRead \/ Tick \/ UNCHANGED vars
  <2>1. UNCHANGED <<seat, hold, claim, order>>
    BY <1>8 DEF SweepRead, Tick, vars
  <2>. QED
    BY <1>0, <2>1, UntouchedFits
<1>9. CASE SweepWrite
  <2> DEFINE H == {h \in candidates : Active(h) /\ ~AwaitingPayment(h)}
             K == {h \in candidates : hold'[h].status = "EXPIRED"}
  <2>1. /\ Finish(H, "EXPIRED") /\ ReleaseSeats(K) /\ UNCHANGED <<claim, order>>
        /\ H \in SUBSET Holds /\ K \in SUBSET Holds
    BY <1>9 DEF SweepWrite, TypeOK
  <2>2. \A h \in Holds :
          /\ hold'[h].order = hold[h].order
          /\ h \in H => hold'[h].status = "EXPIRED"
          /\ h \notin H => hold'[h] = hold[h]
    BY <2>1, FinishRows DEF HoldStatus
  <2>3. H \subseteq K
    BY <2>1, <2>2
  <2>4. \A h \in K \ H : ~Active(h)
    BY <2>1, <2>2 DEF Active
  <2>5. \A h \in H : Active(h) /\ ~AwaitingPayment(h)'
    BY <2>1, <2>2 DEF AwaitingPayment
  <2>. HIDE DEF H, K
  <2>. QED
    BY <1>0, <2>1, <2>3, <2>4, <2>5, GivingBackFits
<1>10. CASE DeleteEvent
  <2> DEFINE H == {h \in Holds : Active(h)}
  <2>1. /\ Finish(H, "RELEASED") /\ ReleaseSeats(H) /\ UNCHANGED claim
        /\ order' = [o \in Orders |-> IF order[o] = "PENDING" THEN "CANCELLED" ELSE order[o]]
    BY <1>10 DEF DeleteEvent
  <2>2. \A o \in Orders : order'[o] # "PENDING"
    BY <2>1 DEF TypeOK
  <2>3. \A h \in H : ~AwaitingPayment(h)'
    BY <1>0, <2>2, RowTypes DEF AwaitingPayment, TypeOK, HoldRow
  <2>4. H \in SUBSET Holds /\ \A h \in H : Active(h)
    OBVIOUS
  <2>. HIDE DEF H
  <2>. QED
    BY <1>0, <2>1, <2>2, <2>3, <2>4, GivingBackFits
<1>. QED
  BY <1>0, <1>1, <1>2, <1>3, <1>4, <1>5, <1>6, <1>7, <1>8, <1>9, <1>10
     DEF Next, Buyer, Payment

LEMMA Inductive == Spec => []IInv
<1>1. ASSUME Init PROVE Fits
  <2>1. ASSUME NEW h \in Holds PROVE HoldFits(h) /\ ClaimFits(h)
    BY <1>1 DEF Init, HoldFits, ClaimFits, Active, AwaitingPayment, NoClaim
  <2>2. ASSUME NEW s \in Seats PROVE SeatFits(s)
    BY <1>1 DEF Init, SeatFits, AvailableSeat
  <2>. QED
    BY <2>1, <2>2 DEF Fits
<1>2. IInv /\ [Next]_vars => IInv'
  BY FitsStep
<1>3. TypeOK /\ Fits => IInv
  BY DEF IInv
<1>. QED
  BY <1>1, <1>2, <1>3, Typed, PTL DEF Spec

(* A hold owns all of its seats for as long as it is ACTIVE and none after, *)
(* whatever is claimed, taken back, released, swept or sold meanwhile      *)
(* (seating.js: reclaimLapsedSeats, releaseSeats, sellHeldSeats).          *)
THEOREM SeatsOwned == Spec => []HoldsOwnTheirSeats
<1>1. ASSUME IInv, NEW h \in Holds
      PROVE  SeatsOf({h}) = IF Active(h) THEN hold[h].seats ELSE {}
  <2>1. HoldFits(h) /\ hold[h].seats \subseteq Seats
    BY <1>1, RowTypes DEF IInv, Fits
  <2>2. ASSUME NEW s \in SeatsOf({h}) PROVE Active(h) /\ s \in hold[h].seats
    BY <1>1 DEF IInv, Fits, SeatFits, SeatsOf
  <2>3. ASSUME Active(h), NEW s \in hold[h].seats PROVE s \in SeatsOf({h})
    BY <2>1, <2>3, ShapeStatus DEF HoldFits, SeatsOf
  <2>. QED
    BY <2>2, <2>3
<1>2. IInv => HoldsOwnTheirSeats
  BY <1>1 DEF HoldsOwnTheirSeats
<1>. QED
  BY <1>2, Inductive, PTL

(* While an order awaits its payment every seat reserved for it is still    *)
(* HELD for it, so sellHeldSeats never meets SEATS_NOT_HELD after money    *)
(* has moved.                                                              *)
THEOREM SettlementSafe == Spec => []SettlementFindsItsSeats
<1>1. IInv => SettlementFindsItsSeats
  BY NothingMissing DEF SettlementFindsItsSeats
<1>. QED
  BY <1>1, Inductive, PTL

----------------------------------------------------------------------------
(* Seating implements SeatSale                                             *)

(* What an order's seats are to SeatSale, before a step and after it. *)
LEMMA MappedIs ==
  ASSUME NEW s \in Seats
  PROVE  /\ seat[s] = AvailableSeat => Mapped(s) = Sales!Free
         /\ \A o : seat[s] = SoldSeat(o) => Mapped(s) = Sales!Sold(o)
         /\ \A h : seat[s] = HeldSeat(h) =>
              Mapped(s) = IF AwaitingPayment(h) THEN Sales!Kept(hold[h].order) ELSE Sales!Free
BY DEF Mapped, AvailableSeat, SoldSeat, HeldSeat, Sales!Free, Sales!Sold, Sales!Kept

LEMMA MappedWillBe ==
  ASSUME NEW s \in Seats
  PROVE  /\ seat'[s] = AvailableSeat => Mapped(s)' = Sales!Free
         /\ \A o : seat'[s] = SoldSeat(o) => Mapped(s)' = Sales!Sold(o)
         /\ \A h : seat'[s] = HeldSeat(h) =>
              Mapped(s)' = IF AwaitingPayment(h)' THEN Sales!Kept(hold'[h].order) ELSE Sales!Free
BY DEF Mapped, AvailableSeat, SoldSeat, HeldSeat, Sales!Free, Sales!Sold, Sales!Kept

LEMMA Apart ==
  /\ \A o, p : Sales!Kept(o) = Sales!Kept(p) => o = p
  /\ \A o, p : Sales!Kept(o) # Sales!Sold(p) /\ Sales!Kept(o) # Sales!Free
                 /\ Sales!Sold(o) # Sales!Free
  /\ \A o, p : Sales!Sold(o) = Sales!Sold(p) => o = p
BY DEF Sales!Kept, Sales!Sold, Sales!Free

LEMMA ThreeKinds ==
  ASSUME TypeOK, NEW s \in Seats
  PROVE  \/ seat[s] = AvailableSeat
         \/ \E h \in Holds : seat[s] = HeldSeat(h)
         \/ \E o \in Orders : seat[s] = SoldSeat(o)
BY DEF TypeOK, SeatRow

(* The seats kept for an order are those held by its holds. *)
LEMMA KeptSeats ==
  ASSUME IInv, NEW s \in Seats, NEW o \in Orders
  PROVE  Mapped(s) = Sales!Kept(o) <=> order[o] = "PENDING" /\ s \in SeatsOf(HoldsOf(o))
<1>1. CASE seat[s] = AvailableSeat
  BY <1>1, MappedIs, Apart, ShapeStatus DEF SeatsOf
<1>2. ASSUME NEW h \in Holds, seat[s] = HeldSeat(h)
      PROVE  Mapped(s) = Sales!Kept(o) <=> order[o] = "PENDING" /\ s \in SeatsOf(HoldsOf(o))
  <2>1. s \in SeatsOf(HoldsOf(o)) <=> hold[h].order = o
    BY <1>2, ShapeStatus DEF SeatsOf, HoldsOf
  <2>2. AwaitingPayment(h) /\ hold[h].order = o <=> order[o] = "PENDING" /\ hold[h].order = o
    BY SeatingAssumption DEF SeatingAssumption, AwaitingPayment
  <2>3. Mapped(s) = Sales!Kept(o) <=> AwaitingPayment(h) /\ hold[h].order = o
    BY <1>2, MappedIs, Apart
  <2>. QED
    BY <2>1, <2>2, <2>3
<1>3. ASSUME NEW p \in Orders, seat[s] = SoldSeat(p)
      PROVE  Mapped(s) = Sales!Kept(o) <=> order[o] = "PENDING" /\ s \in SeatsOf(HoldsOf(o))
  BY <1>3, MappedIs, Apart, ShapeStatus DEF SeatsOf
<1>. QED
  BY <1>1, <1>2, <1>3, ThreeKinds DEF IInv

(* A seat that is not written, under a hold whose standing does not change. *)
LEMMA Unmoved ==
  ASSUME TypeOK, NEW s \in Seats, seat'[s] = seat[s],
         \A h \in Holds : seat[s] = HeldSeat(h) =>
           /\ AwaitingPayment(h)' <=> AwaitingPayment(h)
           /\ hold'[h].order = hold[h].order
  PROVE  Mapped(s)' = Mapped(s)
BY ThreeKinds, MappedIs, MappedWillBe

(* Holds that keep their order, while no order moves, stand as they did. *)
LEMMA Standing ==
  ASSUME NEW h \in Holds, hold'[h].order = hold[h].order, UNCHANGED order
  PROVE  AwaitingPayment(h)' <=> AwaitingPayment(h)
BY DEF AwaitingPayment

LEMMA Stutters ==
  ASSUME \A s \in Seats : Mapped(s)' = Mapped(s)
  PROVE  UNCHANGED SeatView
BY DEF SeatView

(* Seats given back by holds that await no payment were free already. *)
LEMMA GivingBackMapped ==
  ASSUME TypeOK, UNCHANGED order, NEW K \in SUBSET Holds, ReleaseSeats(K),
         \A h \in K : ~AwaitingPayment(h),
         \A h \in Holds : hold'[h].order = hold[h].order
  PROVE  UNCHANGED SeatView
<1>1. ASSUME NEW s \in Seats, s \in SeatsOf(K) PROVE Mapped(s)' = Mapped(s)
  <2>1. seat[s].hold \in K /\ seat[s] = HeldSeat(seat[s].hold)
    BY <1>1, SeatShape DEF SeatsOf
  <2>2. Mapped(s) = Sales!Free
    BY <2>1, MappedIs
  <2>3. seat'[s] = AvailableSeat
    BY <1>1, ReleaseRows
  <2>. QED
    BY <2>2, <2>3, MappedWillBe
<1>2. ASSUME NEW s \in Seats, s \notin SeatsOf(K) PROVE Mapped(s)' = Mapped(s)
  <2>1. seat'[s] = seat[s]
    BY <1>2, ReleaseRows
  <2>. QED
    BY <2>1, Standing, Unmoved
<1>. QED
  BY <1>1, <1>2, Stutters

(* A choice of seats takes free ones, for a hold no order knows of yet. *)
LEMMA WriteSeatHoldMapped ==
  ASSUME IInv, NEW h \in Holds, WriteSeatHold(h)
  PROVE  UNCHANGED SeatView
<1> DEFINE c == claim[h]
           T == TakenBack(claim[h])
<1>1. /\ TypeOK /\ UNCHANGED order
      /\ hold[h].status = "NONE" /\ Claimable(c)
  BY DEF WriteSeatHold, IInv, Fits, ClaimFits
<1>2. hold'[h].order = NoOrder
  <2>1. hold'[h] = [status |-> "ACTIVE", order |-> NoOrder, seats |-> claim[h].seats,
                    expiresAt |-> claim[h].at + TTL]
    BY <1>1, WriteSeatHoldRows, Zenon
  <2>. QED
    BY <2>1
<1>3. ~AwaitingPayment(h)'
  BY <1>2 DEF AwaitingPayment
<1>4. \A g \in Holds \ {h} : hold'[g].order = hold[g].order
  BY <1>1, WriteSeatHoldRows
<1>5. ASSUME NEW s \in SeatsOf(T) PROVE s \in Seats /\ Mapped(s) = Sales!Free
  <2>1. s \in Seats /\ seat[s].hold \in T /\ seat[s] = HeldSeat(seat[s].hold)
    BY <1>1, SeatShape DEF SeatsOf
  <2>. QED
    BY <2>1, TakenBackIsFree, MappedIs
<1>6. ASSUME NEW s \in Seats, s \in c.seats PROVE Mapped(s)' = Mapped(s)
  <2>1. seat'[s] = HeldSeat(h)
    BY <1>1, <1>6, WriteSeatHoldRows
  <2>2. Mapped(s)' = Sales!Free
    BY <2>1, <1>3, MappedWillBe
  <2>3. seat[s] = AvailableSeat \/ s \in SeatsOf(T)
    BY <1>1, <1>6, SeatShape DEF Claimable
  <2>4. Mapped(s) = Sales!Free
    BY <1>5, <2>3, MappedIs
  <2>. QED
    BY <2>2, <2>4
<1>7. ASSUME NEW s \in Seats, s \notin c.seats, s \in SeatsOf(T) PROVE Mapped(s)' = Mapped(s)
  <2>1. seat'[s] = AvailableSeat
    BY <1>1, <1>7, WriteSeatHoldRows
  <2>. QED
    BY <1>5, <1>7, <2>1, MappedWillBe
<1>8. ASSUME NEW s \in Seats, s \notin c.seats, s \notin SeatsOf(T) PROVE Mapped(s)' = Mapped(s)
  <2>1. seat'[s] = seat[s]
    BY <1>1, <1>8, WriteSeatHoldRows
  <2>2. ASSUME NEW g \in Holds, seat[s] = HeldSeat(g)
        PROVE  /\ AwaitingPayment(g)' <=> AwaitingPayment(g)
               /\ hold'[g].order = hold[g].order
    <3>1. Active(g)
      BY <2>2, ShapeStatus DEF IInv, Fits, SeatFits
    <3>2. g # h
      BY <1>1, <3>1 DEF Active
    <3>3. hold'[g].order = hold[g].order
      BY <1>4, <3>2
    <3>. QED
      BY <1>1, <3>3, Standing
  <2>. QED
    BY <1>1, <2>1, <2>2, Unmoved
<1>. QED
  BY <1>6, <1>7, <1>8, Stutters

(* Attaching holds to an order keeps all of their seats for it. *)
LEMMA AttachMapped ==
  ASSUME IInv, NEW o \in Orders, NEW H \in SUBSET Holds, NEW t, NEW pays \in BOOLEAN,
         Attach(o, H, t, pays)
  PROVE  Sales!Keep(o, SeatsOf(H))
<1>1. /\ TypeOK /\ UNCHANGED seat
      /\ order[o] = "NONE" /\ order' = [order EXCEPT ![o] = "PENDING"]
      /\ \A h \in H : ~AwaitingPayment(h)
  BY DEF Attach, IInv
<1>2. \A h \in Holds : /\ h \in H => hold'[h].order = o
                       /\ h \notin H => hold'[h] = hold[h]
  BY <1>1, AttachRows
<1>3. order'[o] = "PENDING" /\ \A p \in Orders \ {o} : order'[p] = order[p]
  BY <1>1 DEF TypeOK
<1>4. ASSUME NEW s \in Seats PROVE Mapped(s) # Sales!Kept(o) /\ Mapped(s) # Sales!Sold(o)
  <2>1. Mapped(s) # Sales!Kept(o)
    BY <1>1, KeptSeats
  <2>2. CASE seat[s] = AvailableSeat
    BY <2>1, <2>2, MappedIs, Apart
  <2>3. ASSUME NEW h \in Holds, seat[s] = HeldSeat(h) PROVE Mapped(s) # Sales!Sold(o)
    BY <2>3, MappedIs, Apart
  <2>4. ASSUME NEW p \in Orders, seat[s] = SoldSeat(p) PROVE Mapped(s) # Sales!Sold(o)
    <3>1. order[p] # "NONE"
      BY <2>4, ShapeStatus DEF IInv, Fits, SeatFits
    <3>. QED
      BY <1>1, <2>4, <3>1, MappedIs, Apart
  <2>. QED
    BY <1>1, <2>1, <2>2, <2>3, <2>4, ThreeKinds
<1>5. ASSUME NEW s \in SeatsOf(H)
      PROVE  Mapped(s) = Sales!Free /\ Mapped(s)' = Sales!Kept(o)
  <2>1. PICK h \in H : s \in Seats /\ seat[s] = HeldSeat(h)
    BY <1>1, SeatShape DEF SeatsOf
  <2>2. Mapped(s) = Sales!Free
    BY <1>1, <2>1, MappedIs
  <2>3. hold'[h].order = o
    BY <1>2, <2>1
  <2>4. AwaitingPayment(h)'
    BY <1>3, <2>3, SeatingAssumption DEF SeatingAssumption, AwaitingPayment
  <2>. QED
    BY <1>1, <2>1, <2>2, <2>3, <2>4, MappedWillBe
<1>6. ASSUME NEW s \in Seats, s \notin SeatsOf(H) PROVE Mapped(s)' = Mapped(s)
  <2>1. ASSUME NEW g \in Holds, seat[s] = HeldSeat(g)
        PROVE  /\ AwaitingPayment(g)' <=> AwaitingPayment(g)
               /\ hold'[g].order = hold[g].order
    <3>1. hold'[g] = hold[g]
      BY <1>2, <1>6, <2>1, ShapeStatus DEF SeatsOf
    <3>2. hold[g].order # NoOrder => hold[g].order \in Orders \ {o}
      BY <1>1, RowTypes DEF IInv, Fits, HoldFits
    <3>. QED
      BY <1>3, <3>1, <3>2 DEF AwaitingPayment
  <2>. QED
    BY <1>1, <2>1, Unmoved
<1>7. SeatView' = [s \in Seats |-> IF s \in SeatsOf(H) THEN Sales!Kept(o) ELSE SeatView[s]]
  BY <1>5, <1>6 DEF SeatView
<1>8. \A s \in Seats : SeatView[s] = Mapped(s)
  BY DEF SeatView
<1>9. SeatsOf(H) \subseteq Seats
  BY DEF SeatsOf
<1>. QED
  BY <1>4, <1>5, <1>7, <1>8, <1>9 DEF Sales!Keep

(* Settling sells every seat kept for the order; an order of no seats sells *)
(* none.                                                                   *)
LEMMA SettleMapped ==
  ASSUME IInv, NEW o \in Orders, Settle(o)
  PROVE  Sales!Sell(o) \/ UNCHANGED SeatView
<1> DEFINE K == SeatsOf(HoldsOf(o))
<1>1. /\ TypeOK
      /\ order[o] = "PENDING" /\ order' = [order EXCEPT ![o] = "PAID"]
      /\ \A p \in Orders \ {o} : order'[p] = order[p]
  BY DEF Settle, IInv, TypeOK
<1>2. \A h \in Holds : hold'[h].order = hold[h].order
  BY <1>1, FinishRows DEF Settle, HoldStatus
<1>3. \A s \in Seats : /\ s \in K => seat'[s] = SoldSeat(o)
                       /\ s \notin K => seat'[s] = seat[s]
  BY <1>1, SettleRows, NothingMissing
<1>4. ASSUME NEW s \in Seats, s \in K PROVE Mapped(s)' = Sales!Sold(o)
  BY <1>3, <1>4, MappedWillBe
<1>5. ASSUME NEW s \in Seats, s \notin K PROVE Mapped(s)' = Mapped(s)
  <2>1. ASSUME NEW g \in Holds, seat[s] = HeldSeat(g)
        PROVE  AwaitingPayment(g)' <=> AwaitingPayment(g)
    <3>1. hold[g].order \in Orders \cup {NoOrder}
      BY <1>1, RowTypes
    <3>2. hold[g].order # o
      BY <1>5, <2>1, ShapeStatus DEF SeatsOf, HoldsOf
    <3>. QED
      BY <1>1, <1>2, <3>1, <3>2 DEF AwaitingPayment
  <2>. QED
    BY <1>1, <1>2, <1>3, <1>5, <2>1, Unmoved
<1>6. \A s \in Seats : SeatView[s] = Mapped(s)
  BY DEF SeatView
<1>7. Sales!KeptFor(o) = K
  <2>1. K \subseteq Seats
    BY DEF SeatsOf
  <2>2. \A s \in Seats : SeatView[s] = Sales!Kept(o) <=> s \in K
    BY <1>1, <1>6, KeptSeats
  <2>. HIDE DEF K
  <2>. QED
    BY <2>1, <2>2 DEF Sales!KeptFor
<1>8. SeatView' = [s \in Seats |-> IF s \in K THEN Sales!Sold(o) ELSE SeatView[s]]
  BY <1>4, <1>5 DEF SeatView
<1>9. CASE K = {}
  BY <1>5, <1>9, Stutters
<1>10. CASE K # {}
  <2>. HIDE DEF K
  <2>. QED
    BY <1>7, <1>8, <1>10 DEF Sales!Sell
<1>. QED
  BY <1>9, <1>10

(* An order that ends unsettled gives up every seat kept for it. *)
LEMMA EndingMapped ==
  ASSUME IInv, NEW P \in SUBSET Orders,
         \A o \in P : order'[o] # "PENDING",
         \A o \in Orders \ P : order'[o] = order[o],
         \A h \in Holds : hold'[h].order = hold[h].order,
         \A s \in Seats : seat'[s] # seat[s] =>
           seat'[s] = AvailableSeat /\ (\E h \in Holds : seat[s] = HeldSeat(h))
                                    /\ \A p \in Orders \ P : order[p] # "PENDING"
  PROVE  Sales!GiveUp(P)
<1>1. ASSUME NEW s \in Seats
      PROVE  Mapped(s)' = IF \E o \in P : Mapped(s) = Sales!Kept(o) THEN Sales!Free ELSE Mapped(s)
  <2>1. CASE seat[s] = AvailableSeat \/ \E o \in Orders : seat[s] = SoldSeat(o)
    <3>1. \A h \in Holds : seat[s] # HeldSeat(h)
      <4>1. seat[s].status # "HELD"
        BY <2>1, ShapeStatus
      <4>. QED
        BY <4>1, ShapeStatus
    <3>2. Mapped(s)' = Mapped(s)
      <4>1. seat'[s] = seat[s]
        BY <3>1
      <4>. QED
        BY <3>1, <4>1, Unmoved DEF IInv
    <3>3. \A o \in P : Mapped(s) # Sales!Kept(o)
      BY <2>1, MappedIs, Apart
    <3>. QED
      BY <3>2, <3>3
  <2>2. ASSUME NEW h \in Holds, seat[s] = HeldSeat(h)
        PROVE  Mapped(s)' = IF \E o \in P : Mapped(s) = Sales!Kept(o)
                              THEN Sales!Free ELSE Mapped(s)
    <3>1. hold'[h].order = hold[h].order /\ hold[h].order \in Orders \cup {NoOrder}
      BY RowTypes DEF IInv
    <3>2. Mapped(s) = IF AwaitingPayment(h) THEN Sales!Kept(hold[h].order) ELSE Sales!Free
      BY <2>2, MappedIs
    <3>3. AwaitingPayment(h)' <=> AwaitingPayment(h) /\ hold[h].order \notin P
      BY <3>1 DEF AwaitingPayment
    <3>4. (\E o \in P : Mapped(s) = Sales!Kept(o)) <=> AwaitingPayment(h) /\ hold[h].order \in P
      BY <3>2, Apart
    <3>5. CASE seat'[s] = seat[s]
      <4>1. Mapped(s)' = IF AwaitingPayment(h)' THEN Sales!Kept(hold'[h].order) ELSE Sales!Free
        BY <2>2, <3>5, MappedWillBe
      <4>. QED
        BY <3>1, <3>2, <3>3, <3>4, <4>1
    <3>6. CASE seat'[s] # seat[s]
      <4>1. Mapped(s)' = Sales!Free
        BY <3>6, MappedWillBe
      <4>2. AwaitingPayment(h) => hold[h].order \in P
        BY <3>1, <3>6 DEF AwaitingPayment
      <4>. QED
        BY <3>2, <3>4, <4>1, <4>2
    <3>. QED
      BY <3>5, <3>6
  <2>. QED
    BY <2>1, <2>2, ThreeKinds DEF IInv
<1>2. \A s \in Seats : SeatView[s] = Mapped(s)
  BY DEF SeatView
<1>3. SeatView' = [s \in Seats |-> Mapped(s)']
  BY DEF SeatView
<1>. QED
  BY <1>1, <1>2, <1>3 DEF Sales!GiveUp

LEMMA StepMapped == ASSUME IInv, [Next]_vars PROVE [Sales!Next]_SeatView
<1>. USE DEF IInv
<1>1. CASE UNCHANGED <<seat, hold, order>>
  BY <1>1, Standing, Unmoved, Stutters
<1>2. ASSUME NEW h \in Holds, NEW t \in RequestInstants, ReleaseHold(h, t)
      PROVE  UNCHANGED SeatView
  <2>1. \E status \in HoldStatus : Finish({h}, status)
    BY <1>2 DEF ReleaseHold, HoldStatus
  <2>2. \A g \in Holds : hold'[g].order = hold[g].order
    BY <2>1, FinishRows
  <2>3. UNCHANGED order /\ ReleaseSeats({h}) /\ ~AwaitingPayment(h)
    BY <1>2 DEF ReleaseHold
  <2>. QED
    BY <2>2, <2>3, GivingBackMapped
<1>3. ASSUME NEW o \in Orders, NEW H \in SUBSET Holds, NEW t, NEW pays \in BOOLEAN,
             Attach(o, H, t, pays)
      PROVE  Sales!Next
  <2>1. SeatsOf(H) \in SUBSET Seats
    BY DEF SeatsOf
  <2>. QED
    BY <1>3, <2>1, AttachMapped DEF Sales!Next
<1>4. ASSUME NEW h \in Holds, WriteSeatHold(h) PROVE UNCHANGED SeatView
  BY <1>4, WriteSeatHoldMapped
<1>5. ASSUME NEW o \in Orders, Settle(o) PROVE [Sales!Next]_SeatView
  BY <1>5, SettleMapped DEF Sales!Next
<1>6. ASSUME NEW o \in Orders, Compensate(o) \/ WebhookPaid(o) PROVE Sales!Next
  <2>1. UNCHANGED <<seat, hold>>
    BY <1>6 DEF Compensate, WebhookPaid
  <2>2. order'[o] # "PENDING" /\ \A p \in Orders \ {o} : order'[p] = order[p]
    BY <1>6 DEF Compensate, WebhookPaid, TypeOK
  <2>3. {o} \in SUBSET Orders
    OBVIOUS
  <2>4. Sales!GiveUp({o})
    BY <2>1, <2>2, <2>3, EndingMapped
  <2>. QED
    BY <2>3, <2>4 DEF Sales!Next
<1>7. ASSUME SweepWrite PROVE UNCHANGED SeatView
  <2> DEFINE K == {h \in candidates : hold'[h].status = "EXPIRED"}
  <2>1. UNCHANGED order /\ ReleaseSeats(K) /\ K \in SUBSET Holds
    BY <1>7 DEF SweepWrite, TypeOK
  <2>2. \A h \in Holds :
          /\ hold'[h].order = hold[h].order
          /\ ~(Active(h) /\ ~AwaitingPayment(h)) => hold'[h] = hold[h]
    BY <1>7, FinishRows DEF SweepWrite, HoldStatus
  <2>3. ASSUME NEW h \in K PROVE ~AwaitingPayment(h)
    BY <2>1, <2>2 DEF Fits, HoldFits, Active
  <2>. HIDE DEF K
  <2>. QED
    BY <2>1, <2>2, <2>3, GivingBackMapped
<1>8. ASSUME DeleteEvent PROVE Sales!Next
  <2> DEFINE H == {h \in Holds : Active(h)}
  <2>1. Finish(H, "RELEASED") /\ ReleaseSeats(H)
    BY <1>8 DEF DeleteEvent
  <2>2. \A h \in Holds : hold'[h].order = hold[h].order
    BY <2>1, FinishRows DEF HoldStatus
  <2>3. \A o \in Orders : order'[o] # "PENDING"
    BY <1>8 DEF DeleteEvent, TypeOK
  <2>4. ASSUME NEW s \in Seats, seat'[s] # seat[s]
        PROVE  seat'[s] = AvailableSeat /\ \E h \in Holds : seat[s] = HeldSeat(h)
    <3>1. s \in SeatsOf(H) /\ seat'[s] = AvailableSeat
      BY <2>1, <2>4, ReleaseRows
    <3>. QED
      BY <3>1, SeatShape DEF SeatsOf
  <2>5. Sales!GiveUp(Orders)
    BY <2>2, <2>3, <2>4, EndingMapped
  <2>. QED
    BY <2>5 DEF Sales!Next
<1>9. \/ UNCHANGED <<seat, hold, order>>
      \/ \E h \in Holds, t \in RequestInstants : ReleaseHold(h, t)
      \/ \E o \in Orders, H \in SUBSET Holds, t \in RequestInstants, pays \in BOOLEAN :
           Attach(o, H, t, pays)
      \/ \E h \in Holds : WriteSeatHold(h)
      \/ \E o \in Orders : Settle(o) \/ Compensate(o) \/ WebhookPaid(o)
      \/ SweepWrite \/ DeleteEvent
  BY DEF Next, vars, Buyer, Payment, ChooseSeats, SeatsGone, WebhookFailed, SweepRead, Tick
<1>. QED
  BY <1>1, <1>2, <1>3, <1>4, <1>5, <1>6, <1>7, <1>8, <1>9

(* Reserved seating keeps SeatSale's promise: a seat promised to an order   *)
(* is sold to that order or given up by it, an order's seats are kept and  *)
(* sold together, and a sold seat is never sold again (seating.js).        *)
THEOREM Implements == Spec => ImplementsSeatSale
<1>1. ASSUME Init PROVE Sales!Init
  <2>1. \A s \in Seats : Mapped(s) = Sales!Free
    BY <1>1, MappedIs DEF Init
  <2>. QED
    BY <2>1 DEF SeatView, Sales!Init
<1>2. IInv /\ [Next]_vars => [Sales!Next]_SeatView
  BY StepMapped
<1>. QED
  BY <1>1, <1>2, Inductive, PTL DEF Spec, ImplementsSeatSale, Sales!Spec

=============================================================================
