---------------------------- MODULE RefundsProofs ----------------------------
(***************************************************************************)
(* Theorems about Refunds, for every set of refunds and operators, every   *)
(* quantity, price and number of sends: the order never owes or gave back  *)
(* more than was paid for it; each step of the requests, calls, repairs    *)
(* and verdicts is a step of Payback or none of its business; the order's  *)
(* counters are the sums of its refunds; refunded tickets admit nobody;    *)
(* and what a refund is said to have come to is what the provider did,     *)
(* unless the order was disturbed while an operator decided.               *)
(*                                                                         *)
(* The sums are the sizes of sets of units (module Counting), so that what *)
(* a step does to a sum follows from what it does to one row.              *)
(***************************************************************************)
EXTENDS Refunds, FiniteSetTheorems, TLAPS

IsOrder(o) ==
  /\ o = [status |-> o.status, refundedCents |-> o.refundedCents,
          refundPendingCents |-> o.refundPendingCents, refundedQuantity |-> o.refundedQuantity]
  /\ o.refundedCents \in Int /\ o.refundPendingCents \in Int

(* A row that was sent, or got an answer, is reserved; one that waits to   *)
(* be sent is reserved, or is the old kind of a cancellation's refund.     *)
IsRow(row) ==
  /\ row = [status |-> row.status, owed |-> row.owed, reserved |-> row.reserved,
            amount |-> row.amount, quantity |-> row.quantity, attempts |-> row.attempts]
  /\ row.owed \in BOOLEAN /\ row.reserved \in BOOLEAN /\ row.amount \in Nat
  /\ row.status # "NONE" => row.amount # 0
  /\ row.status \in IN_FLIGHT_STATES \cup {"SUCCEEDED", "DECLINED", "FAILED"} => row.reserved
  /\ row.status \in {"REQUESTED", "APPROVED"} => row.reserved \/ row.owed

IsDecision(d) ==
  /\ d = [refund |-> d.refund, send |-> d.send, state |-> d.state, status |-> d.status,
          settled |-> d.settled, flying |-> d.flying, verdict |-> d.verdict]
  /\ d = NoDecision \/ d.refund \in Refunds
  /\ d.verdict \in {"NONE", "SETTLE", "RELEASE", "ALREADY_DONE"}

Decisions ==
  /\ decision = [op \in Operators |-> decision[op]]
  /\ \A op \in Operators : IsDecision(decision[op])

IInv ==
  /\ IsOrder(order)
  /\ refund = [r \in Refunds |-> refund[r]]
  /\ \A r \in Refunds : IsRow(refund[r])
  /\ Decisions
  /\ NeverPastPaid

(* What a row has set aside, and what it has given back. *)
HeldOf(row) == IF row.reserved /\ row.status \in PENDING_STATES THEN row.amount ELSE 0
GivenOf(row) == IF row.status = "SUCCEEDED" THEN row.amount ELSE 0

Mapped == <<[r \in Refunds |-> HeldBy(r)], [r \in Refunds |-> GivenBy(r)],
            order.refundPendingCents, order.refundedCents>>

LEMMA TotalIsNat == Total \in Nat /\ Total # 0
<1>1. \A q, p \in Nat \ {0} : q * p \in Nat /\ q * p # 0
  BY SMT
<1>. QED
  BY <1>1, RefundsAssumption DEF Total

LEMMA MappedIs ==
  ASSUME NEW r \in Refunds
  PROVE  HeldBy(r) = HeldOf(refund[r]) /\ GivenBy(r) = GivenOf(refund[r])
BY DEF HeldBy, GivenBy, HeldOf, GivenOf, Status

LEMMA MappedWillBe ==
  ASSUME NEW r \in Refunds
  PROVE  HeldBy(r)' = HeldOf(refund'[r]) /\ GivenBy(r)' = GivenOf(refund'[r])
BY DEF HeldBy, GivenBy, HeldOf, GivenOf, Status

----------------------------------------------------------------------------
(* Four kinds of step, told apart by what becomes of one row and of the    *)
(* order's two counters.                                                   *)

OthersKeep(r) ==
  \A q \in Refunds \ {r} :
    HeldOf(refund'[q]) = HeldOf(refund[q]) /\ GivenOf(refund'[q]) = GivenOf(refund[q])

Counted(pending, refunded) ==
  /\ order'.refundPendingCents = order.refundPendingCents + pending
  /\ order'.refundedCents = order.refundedCents + refunded

LEMMA OneRow ==
  ASSUME NEW r \in Refunds, OthersKeep(r)
  PROVE  /\ [q \in Refunds |-> HeldBy(q)'] =
              [[q \in Refunds |-> HeldBy(q)] EXCEPT ![r] = HeldOf(refund'[r])]
         /\ [q \in Refunds |-> GivenBy(q)'] =
              [[q \in Refunds |-> GivenBy(q)] EXCEPT ![r] = GivenOf(refund'[r])]
<1>1. \A q \in Refunds : /\ HeldBy(q) = HeldOf(refund[q]) /\ GivenBy(q) = GivenOf(refund[q])
                         /\ HeldBy(q)' = HeldOf(refund'[q]) /\ GivenBy(q)' = GivenOf(refund'[q])
  BY MappedIs, MappedWillBe
<1>. QED
  BY <1>1 DEF OthersKeep

LEMMA Reserves ==
  ASSUME IInv, NEW r \in Refunds, OthersKeep(r), NEW a \in Nat \ {0},
         HeldOf(refund[r]) = 0, GivenOf(refund[r]) = 0,
         HeldOf(refund'[r]) = a, GivenOf(refund'[r]) = 0,
         Counted(a, 0), order.refundPendingCents + order.refundedCents + a <= Total
  PROVE  Payback!Next /\ NeverPastPaid'
<1>3. /\ order'.refundPendingCents - order.refundPendingCents = a
      /\ order'.refundedCents = order.refundedCents
      /\ order'.refundPendingCents + order.refundedCents <= Total
  BY TotalIsNat DEF Counted, IInv, IsOrder, Total
<1>4. HeldBy(r) = 0 /\ GivenBy(r) = 0
  BY MappedIs
<1>5. [q \in Refunds |-> GivenBy(q)'] = [q \in Refunds |-> GivenBy(q)]
  BY <1>4, OneRow
<1>1. Payback!Reserve(r)
  BY <1>3, <1>4, <1>5, OneRow DEF Payback!Reserve
<1>2. NeverPastPaid'
  BY TotalIsNat DEF NeverPastPaid, Counted, IInv, IsOrder, Total
<1>. QED
  BY <1>1, <1>2 DEF Payback!Next

LEMMA Gives ==
  ASSUME IInv, NEW r \in Refunds, OthersKeep(r),
         HeldOf(refund[r]) = refund[r].amount, refund[r].amount # 0,
         HeldOf(refund'[r]) = 0, GivenOf(refund'[r]) = refund[r].amount,
         Counted(0 - refund[r].amount, refund[r].amount)
  PROVE  Payback!Next /\ NeverPastPaid'
<1>0. refund[r].amount \in Nat
  BY DEF IInv, IsRow
<1>3. /\ order'.refundPendingCents = order.refundPendingCents - refund[r].amount
      /\ order'.refundedCents = order.refundedCents + refund[r].amount
  BY <1>0 DEF Counted, IInv, IsOrder
<1>4. HeldBy(r) = refund[r].amount
  BY MappedIs
<1>1. Payback!Give(r)
  BY <1>3, <1>4, OneRow DEF Payback!Give
<1>2. NeverPastPaid'
  BY <1>0, TotalIsNat DEF NeverPastPaid, Counted, IInv, IsOrder, Total
<1>. QED
  BY <1>1, <1>2 DEF Payback!Next

LEMMA Releases ==
  ASSUME IInv, NEW r \in Refunds, OthersKeep(r),
         HeldOf(refund[r]) = refund[r].amount, refund[r].amount # 0,
         HeldOf(refund'[r]) = 0, GivenOf(refund'[r]) = GivenOf(refund[r]),
         Counted(0 - refund[r].amount, 0)
  PROVE  Payback!Next /\ NeverPastPaid'
<1>0. refund[r].amount \in Nat
  BY DEF IInv, IsRow
<1>3. /\ order'.refundPendingCents = order.refundPendingCents - refund[r].amount
      /\ order'.refundedCents = order.refundedCents
  BY <1>0 DEF Counted, IInv, IsOrder
<1>4. HeldBy(r) = refund[r].amount /\ GivenBy(r) = GivenOf(refund'[r])
  BY MappedIs
<1>5. [q \in Refunds |-> GivenBy(q)'] = [q \in Refunds |-> GivenBy(q)]
  BY <1>4, OneRow
<1>1. Payback!Release(r)
  BY <1>3, <1>4, <1>5, OneRow DEF Payback!Release
<1>2. NeverPastPaid'
  BY <1>0, TotalIsNat DEF NeverPastPaid, Counted, IInv, IsOrder, Total
<1>. QED
  BY <1>1, <1>2 DEF Payback!Next

LEMMA Rests ==
  ASSUME IInv, Counted(0, 0),
         \A q \in Refunds :
           HeldOf(refund'[q]) = HeldOf(refund[q]) /\ GivenOf(refund'[q]) = GivenOf(refund[q])
  PROVE  UNCHANGED Mapped /\ NeverPastPaid'
<1>1. \A q \in Refunds : HeldBy(q)' = HeldBy(q) /\ GivenBy(q)' = GivenBy(q)
  BY MappedIs, MappedWillBe
<1>2. [q \in Refunds |-> HeldBy(q)]' = [q \in Refunds |-> HeldBy(q)]
  BY <1>1
<1>3. [q \in Refunds |-> GivenBy(q)]' = [q \in Refunds |-> GivenBy(q)]
  BY <1>1
<1>4. order'.refundPendingCents = order.refundPendingCents
      /\ order'.refundedCents = order.refundedCents
  BY DEF Counted, IInv, IsOrder
<1>. QED
  BY <1>2, <1>3, <1>4 DEF Mapped, NeverPastPaid, Total, IInv

----------------------------------------------------------------------------
(* Rows that are written, and rows that move                               *)

LEMMA AskedRow ==
  ASSUME NEW status \in {"REQUESTED", "APPROVED"}, NEW owed \in BOOLEAN,
         NEW row \in Asked(status, owed), row.amount \in Nat \ {0}
  PROVE  IsRow(row) /\ row.reserved /\ row.status = status
<1>1. PICK amount, quantity :
        row = [[NoRow EXCEPT !.status = status, !.owed = owed, !.reserved = TRUE]
                EXCEPT !.amount = amount, !.quantity = quantity]
  BY Zenon DEF Asked, OnWhole, OnAmount
<1>2. row = [status |-> status, owed |-> owed, reserved |-> TRUE,
             amount |-> amount, quantity |-> quantity, attempts |-> 0]
  BY <1>1 DEF NoRow
<1>. QED
  BY <1>2 DEF IsRow, IN_FLIGHT_STATES

LEMMA MovedRow ==
  ASSUME NEW row, IsRow(row), NEW status,
         status \in IN_FLIGHT_STATES \cup {"SUCCEEDED", "DECLINED", "FAILED", "APPROVED"}
           => row.reserved,
         row.status # "NONE", status # "REQUESTED"
  PROVE  /\ IsRow([row EXCEPT !.status = status])
         /\ [row EXCEPT !.status = status].status = status
         /\ [row EXCEPT !.status = status].reserved = row.reserved
         /\ [row EXCEPT !.status = status].amount = row.amount
<1>1. [row EXCEPT !.status = status] =
        [status |-> status, owed |-> row.owed, reserved |-> row.reserved,
         amount |-> row.amount, quantity |-> row.quantity, attempts |-> row.attempts]
  BY DEF IsRow
<1>. QED
  BY <1>1 DEF IsRow

LEMMA SentRow ==
  ASSUME NEW row, IsRow(row), NEW attempts
  PROVE  [row EXCEPT !.status = "SUBMITTED", !.attempts = attempts] =
           [status |-> "SUBMITTED", owed |-> row.owed, reserved |-> row.reserved,
            amount |-> row.amount, quantity |-> row.quantity, attempts |-> attempts]
<1>. DEFINE sent == [status |-> "SUBMITTED", owed |-> row.owed, reserved |-> row.reserved,
                     amount |-> row.amount, quantity |-> row.quantity,
                     attempts |-> row.attempts]
<1>1. [row EXCEPT !.status = "SUBMITTED"] = sent
  BY DEF IsRow
<1>2. [sent EXCEPT !.attempts = attempts] =
        [status |-> "SUBMITTED", owed |-> row.owed, reserved |-> row.reserved,
         amount |-> row.amount, quantity |-> row.quantity, attempts |-> attempts]
  OBVIOUS
<1>. HIDE DEF sent
<1>. QED
  BY <1>1, <1>2, Zenon

(* The order's two ways of moving: a reservation taken or let go, and a    *)
(* settlement.                                                             *)
LEMMA CountedOrder ==
  ASSUME IInv, NEW n \in Int, order' = [order EXCEPT !.refundPendingCents = @ + n]
  PROVE  IsOrder(order') /\ Counted(n, 0)
<1>1. IsOrder(order)
  BY DEF IInv
<1>2. order' = [status |-> order.status, refundedCents |-> order.refundedCents,
                refundPendingCents |-> order.refundPendingCents + n,
                refundedQuantity |-> order.refundedQuantity]
  BY <1>1 DEF IsOrder
<1>. QED
  BY <1>1, <1>2 DEF IsOrder, Counted

LEMMA SameOrder ==
  ASSUME IInv, UNCHANGED order
  PROVE  IsOrder(order') /\ Counted(0, 0)
BY DEF IInv, IsOrder, Counted

LEMMA RoomToReserve ==
  ASSUME IInv, NEW a \in 1 .. RefundableCents
  PROVE  /\ a \in Nat \ {0}
         /\ order.refundPendingCents + order.refundedCents + a <= Total
<1>1. order.refundPendingCents \in Int /\ order.refundedCents \in Int
  BY DEF IInv, IsOrder
<1>. QED
  BY <1>1, TotalIsNat DEF RefundableCents, Positive, Total

Safe == IInv' /\ [Payback!Next]_Mapped

LEMMA RowSet ==
  ASSUME IInv, NEW r \in Refunds, NEW row, IsRow(row), refund' = [refund EXCEPT ![r] = row]
  PROVE  /\ refund' = [q \in Refunds |-> refund'[q]]
         /\ \A q \in Refunds : IsRow(refund'[q])
         /\ refund'[r] = row
         /\ OthersKeep(r)
<1>1. refund' = [q \in Refunds |-> IF q = r THEN row ELSE refund[q]]
  BY DEF IInv
<1>2. \A q \in Refunds \ {r} : refund'[q] = refund[q]
  BY <1>1
<1>. QED
  BY <1>1, <1>2 DEF IInv, OthersKeep

LEMMA Concluded ==
  ASSUME IInv, IsOrder(order'), refund' = [q \in Refunds |-> refund'[q]],
         \A q \in Refunds : IsRow(refund'[q]), Decisions',
         Payback!Next \/ UNCHANGED Mapped, NeverPastPaid'
  PROVE  Safe
BY DEF Safe, IInv

LEMMA RequestSafe ==
  ASSUME IInv, NEW r \in Refunds, Status(r) = "NONE", Decisions',
         NEW status \in {"REQUESTED", "APPROVED"}, NEW owed \in BOOLEAN,
         NEW row \in Asked(status, owed), Reserve(row), refund' = [refund EXCEPT ![r] = row]
  PROVE  Safe
<1>. DEFINE a == row.amount
<1>1. a \in Nat \ {0} /\ order.refundPendingCents + order.refundedCents + a <= Total
  BY RoomToReserve DEF Reserve
<1>2. IsRow(row) /\ row.reserved /\ row.status = status
  BY <1>1, AskedRow
<1>3. IsOrder(order') /\ Counted(a, 0)
  BY <1>1, CountedOrder DEF Reserve
<1>4. HeldOf(refund[r]) = 0 /\ GivenOf(refund[r]) = 0
  BY DEF HeldOf, GivenOf, Status, PENDING_STATES
<1>5. HeldOf(row) = a /\ GivenOf(row) = 0
  BY <1>2 DEF HeldOf, GivenOf, PENDING_STATES
<1>6. /\ refund' = [q \in Refunds |-> refund'[q]]
      /\ \A q \in Refunds : IsRow(refund'[q])
      /\ refund'[r] = row /\ OthersKeep(r)
  BY <1>2, RowSet
<1>7. Payback!Next /\ NeverPastPaid'
  BY <1>1, <1>3, <1>4, <1>5, <1>6, Reserves
<1>. QED
  BY <1>3, <1>6, <1>7, Concluded

LEMMA StatusSafe ==
  ASSUME IInv, NEW r \in Refunds, NEW status \in RefundStatuses,
         UNCHANGED order, Decisions',
         refund' = [refund EXCEPT ![r].status = status],
         status \in IN_FLIGHT_STATES \cup {"SUCCEEDED", "DECLINED", "FAILED", "APPROVED"}
           => refund[r].reserved,
         Status(r) \notin {"NONE", "SUCCEEDED"}, status \notin {"REQUESTED", "SUCCEEDED"},
         refund[r].reserved => (Status(r) \in PENDING_STATES <=> status \in PENDING_STATES)
  PROVE  Safe
<1>. DEFINE row == [refund[r] EXCEPT !.status = status]
<1>1. IsRow(refund[r])
  BY DEF IInv
<1>2. /\ IsRow(row) /\ row.status = status
      /\ row.reserved = refund[r].reserved /\ row.amount = refund[r].amount
  BY <1>1, MovedRow DEF Status
<1>3. refund' = [refund EXCEPT ![r] = row]
  BY DEF IInv
<1>4. HeldOf(row) = HeldOf(refund[r]) /\ GivenOf(row) = GivenOf(refund[r])
  BY <1>2 DEF HeldOf, GivenOf, Status
<1>. HIDE DEF row
<1>5. /\ refund' = [q \in Refunds |-> refund'[q]]
      /\ \A q \in Refunds : IsRow(refund'[q])
      /\ refund'[r] = row /\ OthersKeep(r)
  BY <1>2, <1>3, RowSet
<1>6. UNCHANGED Mapped /\ NeverPastPaid'
  BY <1>4, <1>5, SameOrder, Rests DEF OthersKeep
<1>. QED
  BY <1>5, <1>6, SameOrder, Concluded

LEMMA ReserveAgainSafe ==
  ASSUME IInv, NEW r \in Refunds, refund[r].reserved, Decisions',
         Status(r) \in {"DECLINED", "FAILED"}, refund[r].amount <= RefundableCents,
         order' = [order EXCEPT !.refundPendingCents = @ + refund[r].amount],
         refund' = [refund EXCEPT ![r].status = "APPROVED"]
  PROVE  Safe
<1>. DEFINE row == [refund[r] EXCEPT !.status = "APPROVED"]
             a == refund[r].amount
<1>1. IsRow(refund[r])
  BY DEF IInv
<1>2. IsRow(row) /\ row.status = "APPROVED" /\ row.reserved /\ row.amount = a
  BY <1>1, MovedRow DEF Status
<1>3. refund' = [refund EXCEPT ![r] = row]
  BY DEF IInv
<1>4. a \in Nat \ {0}
  BY <1>1 DEF IsRow, Status
<1>5. order.refundPendingCents + order.refundedCents + a <= Total
  <2>1. RefundableCents \in Int
    BY TotalIsNat DEF RefundableCents, Positive, IInv, IsOrder, Total
  <2>2. a \in 1 .. RefundableCents
    BY <1>4, <2>1
  <2>. QED
    BY <2>2, RoomToReserve
<1>6. HeldOf(refund[r]) = 0 /\ GivenOf(refund[r]) = 0 /\ HeldOf(row) = a /\ GivenOf(row) = 0
  BY <1>2 DEF HeldOf, GivenOf, PENDING_STATES, Status
<1>7. IsOrder(order') /\ Counted(a, 0)
  BY <1>4, CountedOrder
<1>. HIDE DEF row
<1>8. /\ refund' = [q \in Refunds |-> refund'[q]]
      /\ \A q \in Refunds : IsRow(refund'[q])
      /\ refund'[r] = row /\ OthersKeep(r)
  BY <1>2, <1>3, RowSet
<1>9. Payback!Next /\ NeverPastPaid'
  BY <1>4, <1>5, <1>6, <1>7, <1>8, Reserves
<1>. QED
  BY <1>7, <1>8, <1>9, Concluded

LEMMA ReleaseSafe ==
  ASSUME IInv, NEW r \in Refunds, refund[r].reserved, Decisions',
         NEW status \in {"DECLINED", "FAILED", "CANCELLED"}, Status(r) \in PENDING_STATES,
         order' = [order EXCEPT !.refundPendingCents = @ - refund[r].amount],
         refund' = [refund EXCEPT ![r].status = status]
  PROVE  Safe
<1>. DEFINE row == [refund[r] EXCEPT !.status = status]
             a == refund[r].amount
<1>1. IsRow(refund[r])
  BY DEF IInv
<1>2. IsRow(row) /\ row.status = status
  BY <1>1, MovedRow DEF Status, PENDING_STATES
<1>3. refund' = [refund EXCEPT ![r] = row]
  BY DEF IInv
<1>4. a \in Nat \ {0}
  BY <1>1 DEF IsRow, Status, PENDING_STATES
<1>5. /\ HeldOf(refund[r]) = a /\ GivenOf(refund[r]) = 0
      /\ HeldOf(row) = 0 /\ GivenOf(row) = 0
  BY <1>2 DEF HeldOf, GivenOf, PENDING_STATES, Status
<1>6. IsOrder(order') /\ Counted(0 - a, 0)
  <2>1. 0 - a \in Int /\ order' = [order EXCEPT !.refundPendingCents = @ + (0 - a)]
    BY <1>4 DEF IInv, IsOrder
  <2>. QED
    BY <2>1, CountedOrder
<1>. HIDE DEF row
<1>7. /\ refund' = [q \in Refunds |-> refund'[q]]
      /\ \A q \in Refunds : IsRow(refund'[q])
      /\ refund'[r] = row /\ OthersKeep(r)
  BY <1>2, <1>3, RowSet
<1>8. Payback!Next /\ NeverPastPaid'
  BY <1>4, <1>5, <1>6, <1>7, Releases
<1>. QED
  BY <1>6, <1>7, <1>8, Concluded

LEMMA SettleSafe ==
  ASSUME IInv, NEW r \in Refunds, Status(r) \in IN_FLIGHT_STATES, SettleRefund(r), Decisions'
  PROVE  Safe
<1>. DEFINE row == [refund[r] EXCEPT !.status = "SUCCEEDED"]
             a == refund[r].amount
<1>1. IsRow(refund[r])
  BY DEF IInv
<1>2. refund[r].reserved /\ a \in Nat \ {0}
  BY <1>1 DEF IsRow, Status, IN_FLIGHT_STATES
<1>3. IsRow(row) /\ row.status = "SUCCEEDED" /\ row.amount = a
  BY <1>1, <1>2, MovedRow DEF Status, IN_FLIGHT_STATES
<1>4. refund' = [refund EXCEPT ![r] = row]
  BY DEF IInv, SettleRefund
<1>5. /\ HeldOf(refund[r]) = a
      /\ HeldOf(row) = 0 /\ GivenOf(row) = a
  BY <1>2, <1>3 DEF HeldOf, GivenOf, PENDING_STATES, IN_FLIGHT_STATES, Status
<1>6. IsOrder(order') /\ Counted(0 - a, a)
  <2>1. PICK status, quantity :
          order' = [order EXCEPT !.refundedCents = order.refundedCents + a,
                                 !.refundPendingCents = @ - a,
                                 !.refundedQuantity = quantity, !.status = status]
    BY Zenon DEF SettleRefund
  <2>2. IsOrder(order)
    BY DEF IInv
  <2>3. order' = [status |-> status, refundedCents |-> order.refundedCents + a,
                  refundPendingCents |-> order.refundPendingCents - a,
                  refundedQuantity |-> quantity]
    BY <2>1, <2>2 DEF IsOrder
  <2>. QED
    BY <1>2, <2>2, <2>3 DEF IsOrder, Counted
<1>. HIDE DEF row
<1>7. /\ refund' = [q \in Refunds |-> refund'[q]]
      /\ \A q \in Refunds : IsRow(refund'[q])
      /\ refund'[r] = row /\ OthersKeep(r)
  BY <1>3, <1>4, RowSet
<1>8. Payback!Next /\ NeverPastPaid'
  BY <1>2, <1>5, <1>6, <1>7, Gives
<1>. QED
  BY <1>6, <1>7, <1>8, Concluded

LEMMA RepairReservedSafe ==
  ASSUME IInv, NEW r \in Refunds, RepairReserved(r)
  PROVE  Safe
<1>. DEFINE a == refund[r].amount
<1>0. Decisions'
  BY Zenon DEF RepairReserved, IInv, Decisions
<1>1. IsRow(refund[r]) /\ Status(r) \in {"REQUESTED", "APPROVED"} /\ ~refund[r].reserved
  BY DEF IInv, RepairReserved, IsUnreservedLegacyRefund
<1>2. PICK row, quantity :
        /\ row = [[refund[r] EXCEPT !.reserved = TRUE]
                    EXCEPT !.amount = a, !.quantity = quantity]
        /\ Reserve(row) /\ refund' = [refund EXCEPT ![r] = row]
  <2>1. [refund[r] EXCEPT !.reserved = TRUE].amount = a
    BY <1>1 DEF IsRow
  <2>. QED
    BY <2>1, Zenon DEF RepairReserved, OnWhole, OnAmount
<1>3. row = [status |-> refund[r].status, owed |-> refund[r].owed, reserved |-> TRUE,
             amount |-> a, quantity |-> quantity, attempts |-> refund[r].attempts]
  BY <1>1, <1>2 DEF IsRow
<1>4. a \in Nat \ {0} /\ order.refundPendingCents + order.refundedCents + a <= Total
  BY <1>2, <1>3, RoomToReserve DEF Reserve
<1>5. IsRow(row)
  BY <1>1, <1>3, <1>4 DEF IsRow
<1>6. HeldOf(refund[r]) = 0 /\ GivenOf(refund[r]) = 0 /\ HeldOf(row) = a /\ GivenOf(row) = 0
  BY <1>1, <1>3 DEF HeldOf, GivenOf, PENDING_STATES, Status
<1>7. IsOrder(order') /\ Counted(a, 0)
  BY <1>2, <1>3, <1>4, CountedOrder DEF Reserve
<1>8. /\ refund' = [q \in Refunds |-> refund'[q]]
      /\ \A q \in Refunds : IsRow(refund'[q])
      /\ refund'[r] = row /\ OthersKeep(r)
  BY <1>2, <1>5, RowSet
<1>9. Payback!Next /\ NeverPastPaid'
  BY <1>4, <1>6, <1>7, <1>8, Reserves
<1>. QED
  BY <1>0, <1>7, <1>8, <1>9, Concluded

(* A row that holds nothing is withdrawn, and another may take its place. *)
LEMMA ReplacedSafe ==
  ASSUME IInv, NEW r \in Refunds, NEW n \in Refunds,
         NEW status \in {"REQUESTED", "APPROVED"}, Replaced(r, n, status), Decisions',
         HeldOf(refund[r]) = 0, Status(r) \notin {"NONE", "SUCCEEDED"}
  PROVE  Safe
<1>. DEFINE gone == [refund[r] EXCEPT !.status = "CANCELLED"]
<1>1. IsRow(refund[r])
  BY DEF IInv
<1>2. IsRow(gone) /\ gone.status = "CANCELLED"
  BY <1>1, MovedRow DEF Status, IN_FLIGHT_STATES
<1>3. /\ HeldOf(gone) = HeldOf(refund[r])
      /\ GivenOf(gone) = GivenOf(refund[r])
  BY <1>2 DEF HeldOf, GivenOf, PENDING_STATES, Status
<1>4. CASE RefundableCents = 0
  <2>1. refund' = [refund EXCEPT ![r] = gone] /\ UNCHANGED order
    BY <1>4 DEF Replaced, IInv
  <2>. HIDE DEF gone
  <2>2. /\ refund' = [q \in Refunds |-> refund'[q]]
        /\ \A q \in Refunds : IsRow(refund'[q])
        /\ refund'[r] = gone /\ OthersKeep(r)
    BY <1>2, <2>1, RowSet
  <2>3. UNCHANGED Mapped /\ NeverPastPaid'
    BY <1>3, <2>1, <2>2, SameOrder, Rests DEF OthersKeep
  <2>. QED
    BY <2>1, <2>2, <2>3, SameOrder, Concluded
<1>5. CASE RefundableCents # 0
  <2>1. n # r /\ Status(n) = "NONE"
    BY <1>5, Zenon DEF Replaced
  <2>2. PICK row \in Asked(status, TRUE) :
          /\ Reserve(row)
          /\ refund' = [refund EXCEPT ![r].status = "CANCELLED", ![n] = row]
    BY <1>5, Zenon DEF Replaced
  <2>3. /\ row.amount \in Nat \ {0}
        /\ order.refundPendingCents + order.refundedCents + row.amount <= Total
    BY <2>2, RoomToReserve DEF Reserve
  <2>4. IsRow(row) /\ row.reserved /\ row.status = status
    BY <2>3, AskedRow
  <2>5. HeldOf(row) = row.amount /\ GivenOf(row) = 0
    BY <2>4 DEF HeldOf, GivenOf, PENDING_STATES
  <2>6. HeldOf(refund[n]) = 0 /\ GivenOf(refund[n]) = 0
    BY <2>1 DEF HeldOf, GivenOf, PENDING_STATES, Status
  <2>7. IsOrder(order') /\ Counted(row.amount, 0)
    BY <2>2, <2>3, CountedOrder DEF Reserve
  <2>8. refund' = [q \in Refunds |->
          IF q = n THEN row ELSE IF q = r THEN gone ELSE refund[q]]
    BY <2>1, <2>2 DEF IInv
  <2>. HIDE DEF gone
  <2>9. \A q \in Refunds : IsRow(refund'[q])
    BY <1>2, <2>4, <2>8 DEF IInv
  <2>10. refund'[n] = row /\ OthersKeep(n)
    BY <1>3, <2>1, <2>8 DEF OthersKeep
  <2>11. Payback!Next /\ NeverPastPaid'
    BY <2>3, <2>5, <2>6, <2>7, <2>10, Reserves
  <2>12. refund' = [q \in Refunds |-> refund'[q]]
    BY <2>8
  <2>. QED
    BY <2>7, <2>9, <2>11, <2>12, Concluded
<1>. QED
  BY <1>4, <1>5

LEMMA SubmitSafe == ASSUME IInv, NEW r \in Refunds, SubmitRefund(r) PROVE Safe
<1>0. Decisions'
  BY Zenon DEF SubmitRefund, IInv, Decisions
<1>1. IsRow(refund[r]) /\ refund[r].reserved /\ refund[r].status = "APPROVED"
  BY DEF IInv, SubmitRefund, Status
<1>. DEFINE k == refund[r].attempts + 1
             row == [refund[r] EXCEPT !.status = "SUBMITTED", !.attempts = k]
<1>2. refund' = [refund EXCEPT ![r] = row] /\ UNCHANGED order
  BY DEF SubmitRefund, IInv
<1>. HIDE DEF k
<1>3. row = [status |-> "SUBMITTED", owed |-> refund[r].owed, reserved |-> refund[r].reserved,
             amount |-> refund[r].amount, quantity |-> refund[r].quantity, attempts |-> k]
  BY <1>1, SentRow
<1>4. IsRow(row)
  BY <1>1, <1>3 DEF IsRow
<1>5. HeldOf(row) = HeldOf(refund[r]) /\ GivenOf(row) = GivenOf(refund[r])
  BY <1>1, <1>3 DEF HeldOf, GivenOf, PENDING_STATES
<1>. HIDE DEF row
<1>6. /\ refund' = [q \in Refunds |-> refund'[q]]
      /\ \A q \in Refunds : IsRow(refund'[q])
      /\ refund'[r] = row /\ OthersKeep(r)
  BY <1>2, <1>4, RowSet
<1>7. UNCHANGED Mapped /\ NeverPastPaid'
  BY <1>2, <1>5, <1>6, SameOrder, Rests DEF OthersKeep
<1>. QED
  BY <1>0, <1>2, <1>6, <1>7, SameOrder, Concluded

(* A step that leaves refunds and order alone. *)
LEMMA QuietSafe == ASSUME IInv, UNCHANGED <<order, refund>>, Decisions' PROVE Safe
<1>1. UNCHANGED Mapped /\ NeverPastPaid'
  BY SameOrder, Rests
<1>2. refund' = [q \in Refunds |-> refund'[q]] /\ \A q \in Refunds : IsRow(refund'[q])
  BY DEF IInv
<1>. QED
  BY <1>1, <1>2, SameOrder, Concluded

LEMMA RecordSafe ==
  ASSUME IInv, NEW r \in Refunds, NEW n \in Sends, NEW outcome \in Outcomes, Record(r, n, outcome)
  PROVE  Safe
<1>0. Decisions'
  BY Zenon DEF Record, IInv, Decisions
<1>1. CASE Status(r) # "SUBMITTED"
  <2>1. UNCHANGED <<order, refund>>
    BY <1>1 DEF Record
  <2>. QED
    BY <1>0, <2>1, QuietSafe
<1>2. CASE Status(r) = "SUBMITTED"
  <2>1. refund[r].reserved
    BY <1>2 DEF IInv, IsRow, Status, IN_FLIGHT_STATES
  <2>2. CASE outcome = "SUCCEEDED"
    <3>1. SettleRefund(r)
      BY <1>2, <2>2, Zenon DEF Record
    <3>. QED
      BY <1>0, <1>2, <3>1, SettleSafe DEF IN_FLIGHT_STATES
  <2>3. CASE outcome = "TIMEOUT"
    <3>1. refund' = [refund EXCEPT ![r].status = "TIMEOUT"] /\ UNCHANGED order
      BY <1>2, <2>3 DEF Record, RecordRefundTimeout
    <3>2. /\ Status(r) \in PENDING_STATES /\ "TIMEOUT" \in PENDING_STATES
          /\ "TIMEOUT" \in RefundStatuses
      BY <1>2 DEF PENDING_STATES, RefundStatuses
    <3>. QED
      BY <1>0, <1>2, <2>1, <3>1, <3>2, StatusSafe
  <2>4. CASE outcome \in {"DECLINED", "FAILED"}
    <3>1. RecordRefundFailure(r, outcome)
      BY <1>2, <2>4, Zenon DEF Record
    <3>. QED
      BY <1>0, <1>2, <2>1, <2>4, <3>1, ReleaseSafe DEF RecordRefundFailure, PENDING_STATES
  <2>. QED
    BY <2>2, <2>3, <2>4 DEF Outcomes
<1>. QED
  BY <1>1, <1>2

LEMMA DecisionSet ==
  ASSUME IInv, NEW op \in Operators, NEW d, IsDecision(d), decision' = [decision EXCEPT ![op] = d]
  PROVE  Decisions'
BY DEF IInv, Decisions

LEMMA NoDecisionIsOne == IsDecision(NoDecision)
BY DEF IsDecision, NoDecision

LEMMA LoadSafe ==
  ASSUME IInv, NEW op \in Operators, NEW r \in Refunds, NEW n \in Sends, LoadTask(op, r, n)
  PROVE  Safe
<1>1. PICK state, status, settled, flying :
        decision' = [decision EXCEPT ![op] =
          [refund |-> r, send |-> n, state |-> state, status |-> status,
           settled |-> settled, flying |-> flying, verdict |-> "NONE"]]
  BY Zenon DEF LoadTask
<1>2. Decisions'
  BY <1>1, DecisionSet DEF IsDecision
<1>. QED
  BY <1>2, QuietSafe DEF LoadTask

LEMMA RequerySafe == ASSUME IInv, NEW op \in Operators, Requery(op) PROVE Safe
<1>. DEFINE d == decision[op]
<1>1. IsDecision(d) /\ d # NoDecision
  BY DEF IInv, Decisions, Requery
<1>2. PICK verdict \in {"ALREADY_DONE", "SETTLE", "RELEASE", "CONFLICT"} :
        decision' = [decision EXCEPT ![op] =
          IF verdict = "CONFLICT" THEN NoDecision ELSE [d EXCEPT !.verdict = verdict]]
  <2>1. CompareRefundEvidence(d) \in {"SETTLE", "RELEASE", "CONFLICT"}
    BY Zenon DEF CompareRefundEvidence
  <2>. QED
    BY <2>1, Zenon DEF Requery
<1>3. ASSUME NEW v \in {"ALREADY_DONE", "SETTLE", "RELEASE"}
      PROVE  IsDecision([d EXCEPT !.verdict = v])
  <2>1. [d EXCEPT !.verdict = v] =
          [refund |-> d.refund, send |-> d.send, state |-> d.state, status |-> d.status,
           settled |-> d.settled, flying |-> d.flying, verdict |-> v]
    BY <1>1 DEF IsDecision
  <2>. QED
    BY <1>1, <2>1 DEF IsDecision
<1>. HIDE DEF d
<1>4. Decisions'
  BY <1>2, <1>3, NoDecisionIsOne, DecisionSet
<1>. QED
  BY <1>4, QuietSafe DEF Requery

LEMMA ResolveSafe == ASSUME IInv, NEW op \in Operators, Resolve(op) PROVE Safe
<1>. DEFINE d == decision[op]
             r == d.refund
             may == d.verdict = "ALREADY_DONE" \/ d.status \in IN_FLIGHT_STATES
             applies == d.verdict # "ALREADY_DONE" /\ Status(r) = d.status
<1>0. Decisions'
  BY NoDecisionIsOne, DecisionSet DEF Resolve
<1>1. d.verdict # "NONE" /\ IsDecision(d)
  BY DEF IInv, Decisions, Resolve
<1>2. r \in Refunds
  BY <1>1 DEF IsDecision, NoDecision
<1>3. CASE ~(may /\ applies)
  <2>1. UNCHANGED <<order, refund>>
    BY <1>3, <1>1, Zenon DEF Resolve
  <2>. QED
    BY <1>0, <2>1, QuietSafe
<1>4. CASE may /\ applies
  <2>1. Status(r) \in IN_FLIGHT_STATES
    BY <1>4
  <2>2. refund[r].reserved /\ Status(r) \in PENDING_STATES
    BY <1>2, <2>1 DEF IInv, IsRow, Status, IN_FLIGHT_STATES, PENDING_STATES
  <2>3. SettleRefund(r) \/ RecordRefundFailure(r, "FAILED")
    BY <1>4, Zenon DEF Resolve
  <2>4. CASE SettleRefund(r)
    BY <1>0, <1>2, <2>1, <2>4, SettleSafe
  <2>5. CASE RecordRefundFailure(r, "FAILED")
    BY <1>0, <1>2, <2>2, <2>5, ReleaseSafe DEF RecordRefundFailure
  <2>. QED
    BY <2>3, <2>4, <2>5
<1>. QED
  BY <1>3, <1>4

LEMMA ApproveSafe == ASSUME IInv, NEW r \in Refunds, ApproveRefund(r) PROVE Safe
<1>0. Decisions' /\ refund[r].reserved /\ refund' = [refund EXCEPT ![r].status = "APPROVED"]
  BY Zenon DEF ApproveRefund, IInv, Decisions
<1>1. CASE Status(r) = "REQUESTED" /\ UNCHANGED order
  <2>1. Status(r) \in PENDING_STATES /\ "APPROVED" \in PENDING_STATES
        /\ "APPROVED" \in RefundStatuses
    BY <1>1 DEF PENDING_STATES, RefundStatuses
  <2>. QED
    BY <1>0, <1>1, <2>1, StatusSafe
<1>2. CASE /\ Status(r) \in {"DECLINED", "FAILED"} /\ CanReserveAgain(r)
           /\ order' = [order EXCEPT !.refundPendingCents = @ + refund[r].amount]
  BY <1>0, <1>2, ReserveAgainSafe DEF CanReserveAgain
<1>. QED
  BY <1>1, <1>2, Zenon DEF ApproveRefund

LEMMA CancelSafe == ASSUME IInv, NEW r \in Refunds, CancelRefund(r) PROVE Safe
<1>0. Decisions' /\ refund' = [refund EXCEPT ![r].status = "CANCELLED"]
  BY Zenon DEF CancelRefund, IInv, Decisions
<1>1. Status(r) \in {"REQUESTED", "APPROVED", "DECLINED", "FAILED"} /\ IsRow(refund[r])
  BY DEF CancelRefund, IInv
<1>2. CASE Status(r) \in PENDING_STATES /\ ~IsUnreservedLegacyRefund(r)
  <2>1. refund[r].reserved
    BY <1>1, <1>2 DEF IsRow, IsUnreservedLegacyRefund, Status, PENDING_STATES
  <2>2. order' = [order EXCEPT !.refundPendingCents = @ - refund[r].amount]
    BY <1>2, Zenon DEF CancelRefund
  <2>. QED
    BY <1>0, <1>2, <2>1, <2>2, ReleaseSafe
<1>3. CASE ~(Status(r) \in PENDING_STATES /\ ~IsUnreservedLegacyRefund(r))
  <2>1. UNCHANGED order
    BY <1>3, Zenon DEF CancelRefund
  <2>2. refund[r].reserved => Status(r) \notin PENDING_STATES
    BY <1>3 DEF IsUnreservedLegacyRefund
  <2>3. "CANCELLED" \notin PENDING_STATES /\ "CANCELLED" \in RefundStatuses
        /\ "CANCELLED" \notin IN_FLIGHT_STATES
    BY DEF PENDING_STATES, RefundStatuses, IN_FLIGHT_STATES
  <2>. QED
    BY <1>0, <1>1, <2>1, <2>2, <2>3, StatusSafe
<1>. QED
  BY <1>2, <1>3

LEMMA RequestRefundSafe == ASSUME IInv, NEW r \in Refunds, RequestRefund(r) PROVE Safe
<1>1. PICK row \in Asked("REQUESTED", FALSE) :
        Reserve(row) /\ refund' = [refund EXCEPT ![r] = row]
  BY Zenon DEF RequestRefund
<1>2. Decisions'
  BY Zenon DEF RequestRefund, IInv, Decisions
<1>. QED
  BY <1>1, <1>2, RequestSafe DEF RequestRefund

LEMMA DeleteEventSafe == ASSUME IInv, NEW r \in Refunds, DeleteEvent(r) PROVE Safe
<1>1. Decisions'
  BY Zenon DEF DeleteEvent, IInv, Decisions
<1>2. CASE UNCHANGED <<order, refund>>
  BY <1>1, <1>2, QuietSafe
<1>3. CASE ~UNCHANGED <<order, refund>>
  <2>1. PICK row \in Asked("REQUESTED", TRUE) :
          Status(r) = "NONE" /\ Reserve(row) /\ refund' = [refund EXCEPT ![r] = row]
    BY <1>3, Zenon DEF DeleteEvent
  <2>. QED
    BY <1>1, <2>1, RequestSafe
<1>. QED
  BY <1>2, <1>3

LEMMA RepairReplacedSafe ==
  ASSUME IInv, NEW r \in Refunds, NEW n \in Refunds, NEW status \in {"REQUESTED", "APPROVED"},
         RepairReplaced(r, n, status)
  PROVE  Safe
<1>1. Decisions' /\ Replaced(r, n, status)
  BY Zenon DEF RepairReplaced, IInv, Decisions
<1>2. HeldOf(refund[r]) = 0 /\ Status(r) \notin {"NONE", "SUCCEEDED"}
  BY DEF RepairReplaced, IsUnreservedLegacyRefund, HeldOf
<1>. QED
  BY <1>1, <1>2, ReplacedSafe

LEMMA ApproveOwedSafe ==
  ASSUME IInv, NEW r \in Refunds, NEW n \in Refunds, ApproveOwed(r, n)
  PROVE  Safe
<1>1. Decisions' /\ Replaced(r, n, "APPROVED")
  BY Zenon DEF ApproveOwed, IInv, Decisions
<1>2. HeldOf(refund[r]) = 0 /\ Status(r) \notin {"NONE", "SUCCEEDED"}
  BY DEF ApproveOwed, HeldOf, Status, PENDING_STATES
<1>. QED
  BY <1>1, <1>2, ReplacedSafe

----------------------------------------------------------------------------

LEMMA InitSafe == Init => IInv /\ Payback!Init
<1>. SUFFICES ASSUME Init PROVE IInv /\ Payback!Init
  OBVIOUS
<1>1. IsOrder(order)
  BY DEF Init, IsOrder
<1>2. /\ \A r \in Refunds : refund[r] \in {NoRow, LegacyRow("REQUESTED"), LegacyRow("APPROVED")}
      /\ refund = [q \in Refunds |-> refund[q]]
  BY DEF Init
<1>4. IsRow(NoRow) /\ IsRow(LegacyRow("REQUESTED")) /\ IsRow(LegacyRow("APPROVED"))
  BY TotalIsNat DEF IsRow, NoRow, LegacyRow, IN_FLIGHT_STATES
<1>5. \A r \in Refunds : IsRow(refund[r])
  BY <1>2, <1>4
<1>6. Decisions
  BY NoDecisionIsOne DEF Init, Decisions
<1>7. NeverPastPaid
  BY TotalIsNat DEF Init, NeverPastPaid
<1>8. \A r \in Refunds : HeldBy(r) = 0 /\ GivenBy(r) = 0
  <2>1. \A r \in Refunds : ~refund[r].reserved /\ Status(r) # "SUCCEEDED"
    BY <1>2 DEF NoRow, LegacyRow, Status
  <2>. QED
    BY <2>1 DEF HeldBy, GivenBy
<1>9. Payback!Init
  BY <1>8 DEF Payback!Init, Init
<1>. QED
  BY <1>1, <1>2, <1>5, <1>6, <1>7, <1>9 DEF IInv

LEMMA StepSafe == ASSUME IInv, [Next]_vars PROVE Safe
<1>1. CASE UNCHANGED vars
  <2>1. UNCHANGED <<order, refund>> /\ Decisions'
    BY <1>1, Zenon DEF vars, IInv, Decisions
  <2>. QED
    BY <2>1, QuietSafe
<1>2. ASSUME NEW r \in Refunds, RequestRefund(r) PROVE Safe
  BY <1>2, RequestRefundSafe
<1>3. ASSUME NEW r \in Refunds, DeleteEvent(r) PROVE Safe
  BY <1>3, DeleteEventSafe
<1>4. ASSUME NEW r \in Refunds, ApproveRefund(r) PROVE Safe
  BY <1>4, ApproveSafe
<1>5. ASSUME NEW r \in Refunds, CancelRefund(r) PROVE Safe
  BY <1>5, CancelSafe
<1>6. ASSUME NEW r \in Refunds, RepairReserved(r) PROVE Safe
  BY <1>6, RepairReservedSafe
<1>7. ASSUME NEW r \in Refunds, NEW n \in Refunds, NEW status \in {"REQUESTED", "APPROVED"},
             RepairReplaced(r, n, status)
      PROVE  Safe
  BY <1>7, RepairReplacedSafe
<1>8. ASSUME NEW r \in Refunds, NEW n \in Refunds, ApproveOwed(r, n) PROVE Safe
  BY <1>8, ApproveOwedSafe
<1>9. ASSUME NEW r \in Refunds, SubmitRefund(r) PROVE Safe
  BY <1>9, SubmitSafe
<1>10. ASSUME NEW r \in Refunds, NEW n \in Sends, ProviderPays(r, n) \/ CallLost(r, n) PROVE Safe
  <2>1. UNCHANGED <<order, refund>> /\ Decisions'
    BY <1>10, Zenon DEF ProviderPays, CallLost, IInv, Decisions
  <2>. QED
    BY <2>1, QuietSafe
<1>11. ASSUME NEW r \in Refunds, NEW n \in Sends, NEW outcome \in Outcomes, Record(r, n, outcome)
       PROVE  Safe
  BY <1>11, RecordSafe
<1>12. ASSUME NEW r \in Refunds, NEW n \in Sends, ClaimTask(r, n) \/ EscalateTask(r, n) PROVE Safe
  <2>1. UNCHANGED <<order, refund>> /\ Decisions'
    BY <1>12, Zenon DEF ClaimTask, EscalateTask, MoveTask, IInv, Decisions
  <2>. QED
    BY <2>1, QuietSafe
<1>13. ASSUME NEW r \in Refunds, NEW n \in Sends, NEW op \in Operators, LoadTask(op, r, n)
       PROVE  Safe
  BY <1>13, LoadSafe
<1>14. ASSUME CheckIn PROVE Safe
  <2>1. UNCHANGED <<order, refund>> /\ Decisions'
    BY <1>14, Zenon DEF CheckIn, IInv, Decisions
  <2>. QED
    BY <2>1, QuietSafe
<1>15. ASSUME NEW op \in Operators, Requery(op) PROVE Safe
  BY <1>15, RequerySafe
<1>16. ASSUME NEW op \in Operators, Resolve(op) PROVE Safe
  BY <1>16, ResolveSafe
<1>. QED
  BY <1>1, <1>2, <1>3, <1>4, <1>5, <1>6, <1>7, <1>8, <1>9, <1>10, <1>11, <1>12, <1>13,
     <1>14, <1>15, <1>16, Zenon DEF Next

LEMMA Inductive == Spec => []IInv
<1>1. IInv /\ [Next]_vars => IInv'
  BY StepSafe DEF Safe
<1>. QED
  BY <1>1, InitSafe, PTL DEF Spec

(* However requests, approvals, repairs, answers and verdicts interleave,  *)
(* what an order gave back and what it has set aside never come to more    *)
(* than was paid for it.                                                   *)
THEOREM CeilingHolds == Spec => []NeverPastPaid
<1>1. IInv => NeverPastPaid
  BY DEF IInv
<1>. QED
  BY <1>1, Inductive, PTL

(* The refunds of an order, with everything that reserves, sends, records, *)
(* repairs and reconciles them, do to its money only what Payback allows:  *)
(* a refund sets its amount aside, and gives it back once or lets it go.   *)
THEOREM Implements == Spec => ImplementsPayback
<1>1. IInv /\ [Next]_vars => [Payback!Next]_Mapped
  BY StepSafe DEF Safe
<1>2. [Payback!Next]_Mapped => [Payback!Next]_(Payback!vars)
  BY DEF Mapped, Payback!vars
<1>. QED
  BY <1>1, <1>2, InitSafe, Inductive, PTL DEF Spec, ImplementsPayback, Payback!Spec

----------------------------------------------------------------------------
(* Sums.  A sum over a finite set is the size of the set of units it       *)
(* counts (module Counting), so what is needed of it follows from what is  *)
(* known of finite sets, with no induction, as in CheckoutProofs.          *)

IsCount(f, S) == IsFiniteSet(S) /\ \A x \in S : f[x] \in Nat

LEMMA UnitsAre ==
  ASSUME NEW S, NEW f, NEW u
  PROVE  u \in Units(f, S) <=> \E x \in S : \E k \in 1 .. f[x] : u = <<x, k>>
BY DEF Units

LEMMA UnitsOfOne ==
  ASSUME NEW x, NEW f, f[x] \in Nat
  PROVE  /\ IsFiniteSet({x} \X (1 .. f[x]))
         /\ Cardinality({x} \X (1 .. f[x])) = f[x]
<1>1. IsFiniteSet({x}) /\ Cardinality({x}) = 1
  BY FS_Singleton
<1>2. IsFiniteSet(1 .. f[x]) /\ Cardinality(1 .. f[x]) = f[x]
  BY FS_Interval
<1>3. /\ IsFiniteSet({x} \X (1 .. f[x]))
      /\ Cardinality({x} \X (1 .. f[x])) = Cardinality({x}) * Cardinality(1 .. f[x])
  BY <1>1, <1>2, FS_Product
<1>. QED
  BY <1>1, <1>2, <1>3

LEMMA SumIsNat ==
  ASSUME NEW S, NEW f, IsCount(f, S)
  PROVE  IsFiniteSet(Units(f, S)) /\ SumOf(f, S) \in Nat
<1>. DEFINE brings == [x \in S |-> {x} \X (1 .. f[x])]
            each == {{x} \X (1 .. f[x]) : x \in S}
<1>1. brings \in Surjection(S, each)
  BY DEF Surjection
<1>2. IsFiniteSet(each)
  BY <1>1, FS_Surjection DEF IsCount
<1>3. \A T \in each : IsFiniteSet(T)
  BY UnitsOfOne DEF IsCount
<1>4. IsFiniteSet(Units(f, S))
  BY <1>2, <1>3, FS_UNION DEF Units
<1>. QED
  BY <1>4, FS_CardinalityType DEF SumOf

LEMMA SumOfNone == ASSUME NEW f PROVE SumOf(f, {}) = 0
<1>1. Units(f, {}) = {}
  BY DEF Units
<1>. QED
  BY <1>1, FS_EmptySet DEF SumOf

LEMMA SumOfOne == ASSUME NEW x, NEW f, f[x] \in Nat PROVE SumOf(f, {x}) = f[x]
<1>1. Units(f, {x}) = {x} \X (1 .. f[x])
  BY DEF Units
<1>. QED
  BY <1>1, UnitsOfOne DEF SumOf

LEMMA SumSame ==
  ASSUME NEW S, NEW f, NEW g, \A x \in S : f[x] = g[x]
  PROVE  SumOf(f, S) = SumOf(g, S)
<1>1. \A x \in S : {x} \X (1 .. f[x]) = {x} \X (1 .. g[x])
  OBVIOUS
<1>2. Units(f, S) = Units(g, S)
  BY <1>1 DEF Units
<1>. QED
  BY <1>2 DEF SumOf

LEMMA SumOfBoth ==
  ASSUME NEW S, NEW T, NEW f, IsCount(f, S), IsCount(f, T), S \cap T = {}
  PROVE  SumOf(f, S \cup T) = SumOf(f, S) + SumOf(f, T)
<1>1. Units(f, S \cup T) = Units(f, S) \cup Units(f, T)
  BY DEF Units
<1>2. Units(f, S) \cap Units(f, T) = {}
  BY UnitsAre
<1>3. IsFiniteSet(Units(f, S)) /\ IsFiniteSet(Units(f, T))
  BY SumIsNat
<1>4. Cardinality(Units(f, S) \cup Units(f, T)) =
        Cardinality(Units(f, S)) + Cardinality(Units(f, T)) - Cardinality({})
  BY <1>2, <1>3, FS_Union
<1>5. Cardinality(Units(f, S)) \in Nat /\ Cardinality(Units(f, T)) \in Nat
  BY SumIsNat DEF SumOf
<1>6. Cardinality({}) = 0
  BY FS_EmptySet
<1>7. SumOf(f, S \cup T) = Cardinality(Units(f, S) \cup Units(f, T))
  BY <1>1, Zenon DEF SumOf
<1>. QED
  BY <1>4, <1>5, <1>6, <1>7 DEF SumOf

LEMMA SumOfPart ==
  ASSUME NEW S, NEW f, IsCount(f, S), NEW T \in SUBSET S
  PROVE  IsCount(f, T) /\ SumOf(f, T) <= SumOf(f, S)
<1>1. Units(f, T) \subseteq Units(f, S)
  BY UnitsAre
<1>2. IsCount(f, T)
  BY FS_Subset DEF IsCount
<1>. QED
  BY <1>1, <1>2, SumIsNat, FS_Subset DEF SumOf

LEMMA SumWithout ==
  ASSUME NEW S, NEW f, IsCount(f, S), NEW x \in S
  PROVE  SumOf(f, S) = SumOf(f, S \ {x}) + f[x] /\ SumOf(f, S \ {x}) \in Nat
<1>1. IsCount(f, S \ {x}) /\ IsCount(f, {x})
  BY SumOfPart
<1>2. S = (S \ {x}) \cup {x}
  OBVIOUS
<1>3. SumOf(f, (S \ {x}) \cup {x}) = SumOf(f, S \ {x}) + SumOf(f, {x})
  BY <1>1, SumOfBoth
<1>4. f[x] \in Nat
  BY DEF IsCount
<1>. QED
  BY <1>1, <1>2, <1>3, <1>4, SumOfOne, SumIsNat

LEMMA SumChanged ==
  ASSUME NEW S, NEW f, NEW g, IsCount(f, S), IsCount(g, S), NEW x \in S,
         \A y \in S \ {x} : g[y] = f[y]
  PROVE  SumOf(g, S) = SumOf(f, S) - f[x] + g[x]
<1>1. SumOf(g, S \ {x}) = SumOf(f, S \ {x})
  BY SumSame
<1>2. /\ SumOf(f, S) = SumOf(f, S \ {x}) + f[x] /\ SumOf(f, S \ {x}) \in Nat
      /\ SumOf(g, S) = SumOf(g, S \ {x}) + g[x]
  BY SumWithout
<1>3. f[x] \in Nat /\ g[x] \in Nat
  BY DEF IsCount
<1>. QED
  BY <1>1, <1>2, <1>3

LEMMA SumWhere ==
  ASSUME NEW S, NEW T \in SUBSET S, NEW f, NEW g, \A x \in S : g[x] = IF x \in T THEN f[x] ELSE 0
  PROVE  SumOf(g, S) = SumOf(f, T)
<1>1. ASSUME NEW u PROVE u \in Units(g, S) <=> u \in Units(f, T)
  <2>1. ASSUME NEW x \in S, NEW k PROVE k \in 1 .. g[x] <=> x \in T /\ k \in 1 .. f[x]
    <3>1. 1 .. 0 = {}
      OBVIOUS
    <3>. QED
      BY <3>1
  <2>2. u \in Units(g, S) <=> \E x \in S : \E k \in 1 .. g[x] : u = <<x, k>>
    BY UnitsAre
  <2>3. u \in Units(f, T) <=> \E x \in T : \E k \in 1 .. f[x] : u = <<x, k>>
    BY UnitsAre
  <2>. QED
    BY <2>1, <2>2, <2>3
<1>2. Units(g, S) = Units(f, T)
  BY <1>1
<1>. QED
  BY <1>2 DEF SumOf

----------------------------------------------------------------------------
(* The order's counters are sums over its refunds.  Each step of Payback    *)
(* moves one refund's share and the counter by the same amount.            *)

Amounts == [r \in Refunds |-> refund[r].amount]
HeldShares == [r \in Refunds |-> HeldBy(r)]
GivenShares == [r \in Refunds |-> GivenBy(r)]

Balanced ==
  /\ order.refundPendingCents = SumOf(HeldShares, Refunds)
  /\ order.refundedCents = SumOf(GivenShares, Refunds)

LEMMA SharesCount ==
  ASSUME IInv
  PROVE  /\ IsCount(HeldShares, Refunds) /\ SumOf(HeldShares, Refunds) \in Nat
         /\ IsCount(GivenShares, Refunds) /\ SumOf(GivenShares, Refunds) \in Nat
<1>1. \A r \in Refunds : refund[r].amount \in Nat
  BY DEF IInv, IsRow
<1>2. IsCount(HeldShares, Refunds) /\ IsCount(GivenShares, Refunds)
  BY <1>1, RefundsAssumption DEF IsCount, HeldShares, GivenShares, HeldBy, GivenBy
<1>. QED
  BY <1>2, SumIsNat

LEMMA SharesCountNext ==
  ASSUME IInv'
  PROVE  /\ IsCount(HeldShares', Refunds) /\ SumOf(HeldShares', Refunds) \in Nat
         /\ IsCount(GivenShares', Refunds) /\ SumOf(GivenShares', Refunds) \in Nat
<1>1. \A r \in Refunds : refund'[r].amount \in Nat
  BY DEF IInv, IsRow
<1>2. IsCount(HeldShares', Refunds) /\ IsCount(GivenShares', Refunds)
  BY <1>1, RefundsAssumption DEF IsCount, HeldShares, GivenShares, HeldBy, GivenBy
<1>. QED
  BY <1>2, SumIsNat

LEMMA BalancedIs == ASSUME IInv PROVE Balanced <=> CountersMatchRefunds
<1>1. SumOf(HeldShares, Refunds) = AmountsOf(PendingOf(Reserved))
  <2>1. PendingOf(Reserved) \in SUBSET Refunds
    BY DEF PendingOf, Reserved
  <2>2. \A r \in Refunds : HeldShares[r] = IF r \in PendingOf(Reserved) THEN Amounts[r] ELSE 0
    BY DEF HeldShares, HeldBy, PendingOf, Reserved, Amounts
  <2>. QED
    BY <2>1, <2>2, SumWhere DEF AmountsOf, Amounts
<1>2. SumOf(GivenShares, Refunds) = AmountsOf(Succeeded)
  <2>1. Succeeded \in SUBSET Refunds
    BY DEF Succeeded
  <2>2. \A r \in Refunds : GivenShares[r] = IF r \in Succeeded THEN Amounts[r] ELSE 0
    BY DEF GivenShares, GivenBy, Succeeded, Amounts
  <2>. QED
    BY <2>1, <2>2, SumWhere DEF AmountsOf, Amounts
<1>. QED
  BY <1>1, <1>2 DEF Balanced, CountersMatchRefunds

LEMMA BalancedStep == ASSUME IInv, Safe, Balanced PROVE Balanced'
<1>1. /\ IsCount(HeldShares, Refunds) /\ IsCount(GivenShares, Refunds)
      /\ IsCount(HeldShares', Refunds) /\ IsCount(GivenShares', Refunds)
  BY SharesCount, SharesCountNext DEF Safe
<1>2. CASE UNCHANGED Mapped
  <2>1. UNCHANGED <<HeldShares, GivenShares, order.refundPendingCents, order.refundedCents>>
    BY <1>2 DEF Mapped, HeldShares, GivenShares
  <2>. QED
    BY <2>1 DEF Balanced
<1>3. ASSUME NEW r \in Refunds, Payback!Reserve(r) PROVE Balanced'
  <2>1. /\ HeldShares[r] = 0
        /\ HeldShares' = [HeldShares EXCEPT ![r] = order'.refundPendingCents - order.refundPendingCents]
        /\ GivenShares' = GivenShares /\ order'.refundedCents = order.refundedCents
    BY <1>3 DEF Payback!Reserve, HeldShares, GivenShares
  <2>2. /\ \A q \in Refunds \ {r} : HeldShares'[q] = HeldShares[q]
        /\ HeldShares'[r] = order'.refundPendingCents - order.refundPendingCents
    BY <2>1 DEF HeldShares
  <2>3. SumOf(HeldShares', Refunds) = SumOf(HeldShares, Refunds) - HeldShares[r] + HeldShares'[r]
    BY <1>1, <2>2, SumChanged
  <2>4. order'.refundPendingCents \in Int /\ order.refundPendingCents \in Int
    BY DEF Safe, IInv, IsOrder
  <2>. QED
    BY <2>1, <2>2, <2>3, <2>4 DEF Balanced
<1>4. ASSUME NEW r \in Refunds, Payback!Release(r) \/ Payback!Give(r)
      PROVE  order'.refundPendingCents = SumOf(HeldShares', Refunds)
  <2>1. /\ HeldShares' = [HeldShares EXCEPT ![r] = 0]
        /\ order'.refundPendingCents = order.refundPendingCents - HeldShares[r]
    BY <1>4 DEF Payback!Release, Payback!Give, HeldShares
  <2>2. (\A q \in Refunds \ {r} : HeldShares'[q] = HeldShares[q]) /\ HeldShares'[r] = 0
    BY <2>1 DEF HeldShares
  <2>3. SumOf(HeldShares', Refunds) = SumOf(HeldShares, Refunds) - HeldShares[r] + HeldShares'[r]
    BY <1>1, <2>2, SumChanged
  <2>4. SumOf(HeldShares, Refunds) \in Nat /\ HeldShares[r] \in Nat
    BY <1>1, SharesCount DEF IsCount
  <2>. QED
    BY <2>1, <2>2, <2>3, <2>4 DEF Balanced
<1>5. ASSUME NEW r \in Refunds, Payback!Release(r)
      PROVE  order'.refundedCents = SumOf(GivenShares', Refunds)
  <2>1. GivenShares' = GivenShares /\ order'.refundedCents = order.refundedCents
    BY <1>5 DEF Payback!Release, GivenShares
  <2>. QED
    BY <2>1 DEF Balanced
<1>6. ASSUME NEW r \in Refunds, Payback!Give(r)
      PROVE  order'.refundedCents = SumOf(GivenShares', Refunds)
  <2>1. /\ HeldShares[r] # 0
        /\ GivenShares' = [GivenShares EXCEPT ![r] = HeldShares[r]]
        /\ order'.refundedCents = order.refundedCents + HeldShares[r]
    BY <1>6 DEF Payback!Give, HeldShares, GivenShares
  <2>2. /\ \A q \in Refunds \ {r} : GivenShares'[q] = GivenShares[q]
        /\ GivenShares'[r] = HeldShares[r]
    BY <2>1 DEF GivenShares
  <2>3. SumOf(GivenShares', Refunds) = SumOf(GivenShares, Refunds) - GivenShares[r] + GivenShares'[r]
    BY <1>1, <2>2, SumChanged
  <2>4. GivenShares[r] = 0
    BY <2>1 DEF HeldShares, GivenShares, HeldBy, GivenBy, PENDING_STATES
  <2>5. SumOf(GivenShares, Refunds) \in Nat /\ HeldShares[r] \in Nat
    BY <1>1, SharesCount DEF IsCount
  <2>. QED
    BY <2>1, <2>2, <2>3, <2>4, <2>5 DEF Balanced
<1>. QED
  BY <1>2, <1>3, <1>4, <1>5, <1>6 DEF Safe, Payback!Next, Balanced

LEMMA Balances == Spec => [](IInv /\ Balanced)
<1>1. Init => IInv /\ Balanced
  <2>1. SUFFICES ASSUME Init PROVE Balanced
    BY InitSafe
  <2>2. IInv /\ Payback!Init
    BY <2>1, InitSafe
  <2>3. /\ \A r \in Refunds : HeldShares[r] = 0 /\ GivenShares[r] = 0
        /\ order.refundPendingCents = 0 /\ order.refundedCents = 0
    BY <2>2 DEF Payback!Init, HeldShares, GivenShares
  <2>4. SumOf(HeldShares, Refunds) = 0 /\ SumOf(GivenShares, Refunds) = 0
    <3>1. \A r \in Refunds : /\ HeldShares[r] = IF r \in {} THEN HeldShares[r] ELSE 0
                             /\ GivenShares[r] = IF r \in {} THEN GivenShares[r] ELSE 0
      BY <2>3
    <3>. QED
      BY <3>1, SumWhere, SumOfNone
  <2>. QED
    BY <2>3, <2>4 DEF Balanced
<1>2. IInv /\ Balanced /\ [Next]_vars => (IInv /\ Balanced)'
  BY StepSafe, BalancedStep DEF Safe
<1>. QED
  BY <1>1, <1>2, PTL DEF Spec

(* Whatever order requests, answers, repairs, withdrawals and verdicts come *)
(* in, the order's two counters are the amounts of its refunds: of those   *)
(* that wait or are with the provider, and of those that were given back.  *)
THEOREM CountersAreSums == Spec => []CountersMatchRefunds
<1>1. IInv /\ Balanced => CountersMatchRefunds
  BY BalancedIs
<1>. QED
  BY <1>1, Balances, PTL

----------------------------------------------------------------------------
(* The types.  That a counter never drops below zero is what its being a    *)
(* sum gives: Balanced, not a guard of the code.                           *)

OrderType == [status : {"PAID", "REFUNDED"}, refundedCents : Nat, refundPendingCents : Nat,
              refundedQuantity : Nat]
TicketType == [standing : Nat, withdrawn : Nat, deleted : BOOLEAN]
RowType == [status : RefundStatuses, owed : BOOLEAN, reserved : BOOLEAN,
            amount : Nat, quantity : Nat, attempts : Nat]
DecisionType ==
  [refund : Refunds \cup {NoRefund}, send : Sends \cup {0}, state : TaskStates,
   status : RefundStatuses, settled : Nat, flying : SUBSET Refunds,
   verdict : {"NONE", "SETTLE", "RELEASE", "ALREADY_DONE"}]

(* Writing one field, or one row, keeps the type. *)
CallType == [out : BOOLEAN, paid : BOOLEAN]

LEMMA StatusWritten ==
  ASSUME NEW row \in RowType, NEW status \in RefundStatuses
  PROVE  [row EXCEPT !.status = status] \in RowType
BY DEF RowType

LEMMA AttemptsWritten ==
  ASSUME NEW row \in RowType
  PROVE  [row EXCEPT !.attempts = @ + 1] \in RowType
BY DEF RowType

LEMMA RowWritten ==
  ASSUME NEW f \in [Refunds -> RowType], NEW r \in Refunds, NEW row \in RowType
  PROVE  [f EXCEPT ![r] = row] \in [Refunds -> RowType]
OBVIOUS

LEMMA PendingWritten ==
  ASSUME NEW o \in OrderType, NEW n \in Nat
  PROVE  [o EXCEPT !.refundPendingCents = n] \in OrderType
BY DEF OrderType

LEMMA CallWritten ==
  ASSUME NEW f \in [Refunds -> [Sends -> CallType]], NEW r \in Refunds, NEW n, NEW c,
         n \in Sends => c \in CallType
  PROVE  [f EXCEPT ![r][n] = c] \in [Refunds -> [Sends -> CallType]]
OBVIOUS

LEMMA TaskWritten ==
  ASSUME NEW f \in [Refunds -> [Sends -> TaskStates]], NEW r \in Refunds, NEW n,
         NEW state \in TaskStates
  PROVE  [f EXCEPT ![r][n] = state] \in [Refunds -> [Sends -> TaskStates]]
OBVIOUS

(* The variables one by one. *)
LEMMA TypedFrom ==
  ASSUME order' \in OrderType, tickets' \in TicketType, refund' \in [Refunds -> RowType],
         call' \in [Refunds -> [Sends -> CallType]],
         task' \in [Refunds -> [Sends -> TaskStates]],
         decision' \in [Operators -> DecisionType], disturbed' \in BOOLEAN
  PROVE  TypeOK'
BY DEF TypeOK, OrderType, TicketType, RowType, CallType, DecisionType

LEMMA TypesAre ==
  ASSUME TypeOK
  PROVE  /\ order \in OrderType /\ tickets \in TicketType /\ refund \in [Refunds -> RowType]
         /\ call \in [Refunds -> [Sends -> CallType]]
         /\ task \in [Refunds -> [Sends -> TaskStates]]
         /\ decision \in [Operators -> DecisionType] /\ disturbed \in BOOLEAN
BY DEF TypeOK, OrderType, TicketType, RowType, CallType, DecisionType

CountersAreNat == order.refundPendingCents \in Nat /\ order.refundedCents \in Nat

LEMMA CountersWillBeNat == ASSUME IInv', Balanced' PROVE CountersAreNat'
BY SharesCountNext DEF Balanced, CountersAreNat

LEMMA AmountsAreNat ==
  ASSUME TypeOK, NEW S \in SUBSET Refunds
  PROVE  AmountsOf(S) \in Nat /\ QuantitiesOf(S) \in Nat
<1>1. IsFiniteSet(S)
  BY FS_Subset, RefundsAssumption
<1>2. /\ IsCount([r \in Refunds |-> refund[r].amount], S)
      /\ IsCount([r \in Refunds |-> refund[r].quantity], S)
  BY <1>1 DEF IsCount, TypeOK
<1>. QED
  BY <1>2, SumIsNat DEF AmountsOf, QuantitiesOf

LEMMA LeftIsNat ==
  ASSUME TypeOK, NEW S \in SUBSET Refunds
  PROVE  LineQuantityLeft(S) \in Nat /\ RefundableCents \in Nat
<1>1. PendingOf(S) \in SUBSET Refunds
  BY DEF PendingOf
<1>2. QuantitiesOf(PendingOf(S)) \in Nat
  BY <1>1, AmountsAreNat
<1>3. order.refundedQuantity \in Nat /\ order.refundedCents \in Nat /\ order.refundPendingCents \in Nat
  BY DEF TypeOK
<1>4. Quantity \in Nat
  BY RefundsAssumption
<1>. HIDE DEF QuantitiesOf
<1>. QED
  BY <1>2, <1>3, <1>4, TotalIsNat DEF LineQuantityLeft, RefundableCents, Positive

LEMMA OnType ==
  ASSUME TypeOK, NEW S \in SUBSET Refunds, NEW row \in RowType, NEW amount \in Nat
  PROVE  OnWhole(row, amount, S) \in RowType /\ OnAmount(row, amount, S) \in RowType
<1>1. LineQuantityLeft(S) \in Nat
  BY LeftIsNat
<1>2. amount \div Price \in Nat
  <2>1. \A p \in Nat \ {0} : amount \div p \in Nat
    OBVIOUS
  <2>. QED
    BY <2>1, RefundsAssumption
<1>3. Lesser(LineQuantityLeft(S), amount \div Price) \in Nat
  BY <1>1, <1>2 DEF Lesser
<1>4. ASSUME NEW k \in Nat
      PROVE  [row EXCEPT !.amount = amount, !.quantity = k] \in RowType
  BY <1>4 DEF RowType
<1>. QED
  BY <1>1, <1>3, <1>4, Zenon DEF OnWhole, OnAmount

LEMMA AskedType ==
  ASSUME TypeOK, NEW status \in {"REQUESTED", "APPROVED"}, NEW owed \in BOOLEAN,
         NEW row \in Asked(status, owed)
  PROVE  row \in RowType
<1>. DEFINE base == [NoRow EXCEPT !.status = status, !.owed = owed, !.reserved = TRUE]
<1>1. base \in RowType
  BY DEF NoRow, RowType, RefundStatuses
<1>2. RefundableCents \in Nat
  BY LeftIsNat
<1>3. \A a \in 1 .. RefundableCents - 1 : a \in Nat
  BY <1>2
<1>. HIDE DEF base
<1>4. \/ row = OnWhole(base, RefundableCents, Refunds)
      \/ \E a \in 1 .. RefundableCents - 1 : row = OnAmount(base, a, Refunds)
  BY Zenon DEF Asked, base
<1>. QED
  BY <1>1, <1>2, <1>3, <1>4, OnType

LEMMA ReserveType ==
  ASSUME TypeOK, NEW row, Reserve(row)
  PROVE  order' \in OrderType
<1>1. RefundableCents \in Nat
  BY LeftIsNat
<1>2. row.amount \in Nat
  BY <1>1 DEF Reserve
<1>3. order \in OrderType /\ order.refundPendingCents \in Nat
  BY TypesAre DEF OrderType
<1>4. order.refundPendingCents + row.amount \in Nat
  BY <1>2, <1>3
<1>. QED
  BY <1>3, <1>4, PendingWritten DEF Reserve

LEMMA LetGoType ==
  ASSUME TypeOK, CountersAreNat', NEW n, order' = [order EXCEPT !.refundPendingCents = n]
  PROVE  order' \in OrderType
<1>1. order'.refundPendingCents = n
  BY DEF TypeOK
<1>. QED
  BY <1>1, TypesAre, PendingWritten DEF CountersAreNat

LEMMA StatusType ==
  ASSUME TypeOK, NEW r \in Refunds, NEW status \in RefundStatuses,
         refund' = [refund EXCEPT ![r].status = status]
  PROVE  refund' \in [Refunds -> RowType]
<1>1. refund \in [Refunds -> RowType]
  BY TypesAre
<1>2. [refund[r] EXCEPT !.status = status] \in RowType
  BY <1>1, StatusWritten
<1>. QED
  BY <1>1, <1>2, RowWritten

LEMMA RowsType ==
  ASSUME TypeOK, NEW r \in Refunds, NEW row \in RowType, refund' = [refund EXCEPT ![r] = row]
  PROVE  refund' \in [Refunds -> RowType]
BY TypesAre, RowWritten

LEMMA SettleType ==
  ASSUME TypeOK, CountersAreNat', NEW r \in Refunds, SettleRefund(r)
  PROVE  order' \in OrderType /\ tickets' \in TicketType /\ refund' \in [Refunds -> RowType]
<1>. DEFINE q == refund[r].quantity
            more == IF refund[r].owed THEN tickets.withdrawn ELSE 0
            stood == Lesser(q, tickets.standing)
<1>1. q \in Nat /\ tickets.standing \in Nat /\ more \in 0 .. tickets.withdrawn
  BY DEF TypeOK
<1>2. SettledTickets(r) = Lesser(q, tickets.standing + more)
  BY DEF SettledTickets
<1>3. /\ SettledTickets(r) \in Nat /\ stood \in Nat /\ tickets.standing - stood \in Nat
      /\ tickets.withdrawn - (SettledTickets(r) - stood) \in Nat
  <2>1. tickets.withdrawn \in Nat
    BY DEF TypeOK
  <2>. HIDE DEF q, more
  <2>. QED
    BY <1>1, <1>2, <2>1 DEF Lesser
<1>4. refund' \in [Refunds -> RowType]
  <2>1. "SUCCEEDED" \in RefundStatuses
    BY DEF RefundStatuses
  <2>2. refund' = [refund EXCEPT ![r].status = "SUCCEEDED"]
    BY DEF SettleRefund
  <2>. QED
    BY <2>1, <2>2, StatusType
<1>. HIDE DEF q, more
<1>5. tickets' = [tickets EXCEPT !.standing = tickets.standing - stood,
                                 !.withdrawn = tickets.withdrawn - (SettledTickets(r) - stood)]
  BY DEF SettleRefund, TypeOK, q
<1>. HIDE DEF stood
<1>6. tickets' \in TicketType
  BY <1>3, <1>5 DEF TypeOK, TicketType
<1>7. PICK status \in {order.status, "REFUNDED"} :
        order' = [order EXCEPT !.refundedCents = order.refundedCents + refund[r].amount,
                               !.refundPendingCents = order.refundPendingCents - refund[r].amount,
                               !.refundedQuantity = order.refundedQuantity + SettledTickets(r),
                               !.status = status]
  BY DEF SettleRefund, TypeOK
<1>8. order' = [status |-> status, refundedCents |-> order'.refundedCents,
                refundPendingCents |-> order'.refundPendingCents,
                refundedQuantity |-> order.refundedQuantity + SettledTickets(r)]
  BY <1>7 DEF TypeOK
<1>9. order.refundedQuantity + SettledTickets(r) \in Nat /\ status \in {"PAID", "REFUNDED"}
  BY <1>3, <1>7 DEF TypeOK
<1>. QED
  BY <1>4, <1>6, <1>8, <1>9 DEF OrderType, CountersAreNat

LEMMA ReplacedType ==
  ASSUME TypeOK, NEW r \in Refunds, NEW n \in Refunds, NEW status \in {"REQUESTED", "APPROVED"},
         Replaced(r, n, status)
  PROVE  order' \in OrderType /\ refund' \in [Refunds -> RowType]
<1>1. CASE RefundableCents = 0
  <2>1. refund' = [refund EXCEPT ![r].status = "CANCELLED"] /\ UNCHANGED order
    BY <1>1 DEF Replaced
  <2>. QED
    BY <2>1, StatusType DEF RefundStatuses, TypeOK, OrderType
<1>2. CASE RefundableCents # 0
  <2>1. PICK row \in Asked(status, TRUE) :
          Reserve(row) /\ refund' = [refund EXCEPT ![r].status = "CANCELLED", ![n] = row]
    BY <1>2, Zenon DEF Replaced
  <2>2. row \in RowType
    BY AskedType
  <2>3. refund' = [[refund EXCEPT ![r].status = "CANCELLED"] EXCEPT ![n] = row]
    BY <2>1
  <2>. DEFINE let == [refund EXCEPT ![r].status = "CANCELLED"]
  <2>4. let \in [Refunds -> RowType]
    <3>1. refund \in [Refunds -> RowType] /\ "CANCELLED" \in RefundStatuses
      BY TypesAre DEF RefundStatuses
    <3>2. [refund[r] EXCEPT !.status = "CANCELLED"] \in RowType
      BY <3>1, StatusWritten
    <3>. QED
      BY <3>1, <3>2, RowWritten
  <2>5. refund' = [let EXCEPT ![n] = row]
    BY <2>3
  <2>. HIDE DEF let
  <2>6. refund' \in [Refunds -> RowType]
    BY <2>2, <2>4, <2>5, RowWritten
  <2>. QED
    BY <2>1, <2>6, ReserveType
<1>. QED
  BY <1>1, <1>2

LEMMA CallTyped ==
  ASSUME TypeOK, NEW r \in Refunds, NEW n, NEW b \in BOOLEAN,
         \/ call' = [call EXCEPT ![r][n].out = b]
         \/ call' = [call EXCEPT ![r][n].paid = b]
  PROVE  call' \in [Refunds -> [Sends -> CallType]]
<1>1. call \in [Refunds -> [Sends -> CallType]]
  BY TypesAre
<1>2. PICK c : (n \in Sends => c \in CallType) /\ call' = [call EXCEPT ![r][n] = c]
  <2>1. n \in Sends => call[r][n] \in CallType
    BY <1>1
  <2>2. n \in Sends => /\ [call[r][n] EXCEPT !.out = b] \in CallType
                       /\ [call[r][n] EXCEPT !.paid = b] \in CallType
    BY <2>1 DEF CallType
  <2>. QED
    BY <2>2, Zenon
<1>. QED
  BY <1>1, <1>2, CallWritten

LEMMA TaskTyped ==
  ASSUME TypeOK, NEW r \in Refunds, NEW n, NEW state \in TaskStates,
         task' = [task EXCEPT ![r][n] = state]
  PROVE  task' \in [Refunds -> [Sends -> TaskStates]]
BY TaskWritten, TypesAre

LEMMA DisturbType == ASSUME TypeOK, NEW op, Disturb(op) PROVE disturbed' \in BOOLEAN
BY Zenon DEF TypeOK, Disturb

LEMMA FailureType ==
  ASSUME TypeOK, CountersAreNat', NEW r \in Refunds, NEW status \in {"DECLINED", "FAILED"},
         RecordRefundFailure(r, status)
  PROVE  order' \in OrderType /\ tickets' \in TicketType /\ refund' \in [Refunds -> RowType]
<1>1. status \in RefundStatuses
  BY DEF RefundStatuses
<1>. QED
  BY <1>1, LetGoType, StatusType, TypesAre DEF RecordRefundFailure

LEMMA AskingType ==
  ASSUME TypeOK, CountersAreNat', NEW r \in Refunds,
         RequestRefund(r) \/ DeleteEvent(r) \/ ApproveRefund(r) \/ CancelRefund(r)
  PROVE  TypeOK'
<1>1. CASE RequestRefund(r)
  <2>1. PICK row \in Asked("REQUESTED", FALSE) : Reserve(row) /\ refund' = [refund EXCEPT ![r] = row]
    BY <1>1 DEF RequestRefund
  <2>2. row \in RowType
    BY AskedType
  <2>3. UNCHANGED <<tickets, call, task, decision, disturbed>>
    BY <1>1 DEF RequestRefund
  <2>. QED
    BY <2>1, <2>2, <2>3, ReserveType, RowsType, TypesAre, TypedFrom
<1>2. CASE DeleteEvent(r)
  <2>1. UNCHANGED <<call, task, decision, disturbed>>
    BY <1>2 DEF DeleteEvent
  <2>2. tickets' \in TicketType
    BY <1>2 DEF DeleteEvent, TypeOK, TicketType
  <2>3. order' \in OrderType /\ refund' \in [Refunds -> RowType]
    <3>1. CASE UNCHANGED <<order, refund>>
      BY <3>1, TypesAre
    <3>2. CASE ~UNCHANGED <<order, refund>>
      <4>1. PICK row \in Asked("REQUESTED", TRUE) : Reserve(row) /\ refund' = [refund EXCEPT ![r] = row]
        BY <1>2, <3>2, Zenon DEF DeleteEvent
      <4>2. row \in RowType
        BY AskedType
      <4>. QED
        BY <4>1, <4>2, ReserveType, RowsType
    <3>. QED
      BY <3>1, <3>2
  <2>. QED
    BY <2>1, <2>2, <2>3, TypesAre, TypedFrom
<1>3. CASE ApproveRefund(r)
  <2>1. \/ UNCHANGED order
        \/ order' = [order EXCEPT !.refundPendingCents = @ + refund[r].amount]
    BY <1>3 DEF ApproveRefund
  <2>2. order' \in OrderType
    BY <2>1, LetGoType, TypesAre
  <2>3. refund' = [refund EXCEPT ![r].status = "APPROVED"]
    BY <1>3 DEF ApproveRefund
  <2>4. UNCHANGED <<tickets, call, task, decision, disturbed>>
    BY <1>3 DEF ApproveRefund
  <2>5. "APPROVED" \in RefundStatuses
    BY DEF RefundStatuses
  <2>. QED
    BY <2>2, <2>3, <2>4, <2>5, StatusType, TypesAre, TypedFrom
<1>4. CASE CancelRefund(r)
  <2>1. \/ UNCHANGED order
        \/ order' = [order EXCEPT !.refundPendingCents = @ - refund[r].amount]
    BY <1>4, Zenon DEF CancelRefund
  <2>2. order' \in OrderType
    BY <2>1, LetGoType, TypesAre
  <2>3. refund' = [refund EXCEPT ![r].status = "CANCELLED"]
    BY <1>4 DEF CancelRefund
  <2>4. UNCHANGED <<tickets, call, task, decision, disturbed>>
    BY <1>4 DEF CancelRefund
  <2>5. "CANCELLED" \in RefundStatuses
    BY DEF RefundStatuses
  <2>. QED
    BY <2>2, <2>3, <2>4, <2>5, StatusType, TypesAre, TypedFrom
<1>. QED
  BY <1>1, <1>2, <1>3, <1>4

LEMMA RepairType ==
  ASSUME TypeOK, NEW r \in Refunds, NEW n \in Refunds,
         \/ RepairReserved(r)
         \/ \E status \in {"REQUESTED", "APPROVED"} : RepairReplaced(r, n, status)
         \/ ApproveOwed(r, n)
  PROVE  TypeOK'
<1>1. CASE RepairReserved(r)
  <2>. DEFINE base == [refund[r] EXCEPT !.reserved = TRUE]
              others == Refunds \ {r}
  <2>1. base \in RowType /\ base.amount \in Nat /\ others \in SUBSET Refunds
    <3>1. refund[r] \in RowType
      BY TypesAre
    <3>. QED
      BY <3>1 DEF RowType
  <2>2. PICK row \in {OnWhole(base, base.amount, others), OnAmount(base, base.amount, others)} :
          Reserve(row) /\ refund' = [refund EXCEPT ![r] = row]
    BY <1>1, Zenon DEF RepairReserved
  <2>. HIDE DEF base, others
  <2>3. row \in RowType
    BY <2>1, OnType
  <2>4. UNCHANGED <<tickets, call, task, decision, disturbed>>
    BY <1>1 DEF RepairReserved
  <2>. QED
    BY <2>2, <2>3, <2>4, ReserveType, RowsType, TypesAre, TypedFrom
<1>2. ASSUME NEW status \in {"REQUESTED", "APPROVED"}, Replaced(r, n, status),
             UNCHANGED <<tickets, call, task, decision, disturbed>>
      PROVE  TypeOK'
  BY <1>2, ReplacedType, TypesAre, TypedFrom
<1>. QED
  BY <1>1, <1>2 DEF RepairReplaced, ApproveOwed

LEMMA SendingType ==
  ASSUME TypeOK, CountersAreNat', NEW r \in Refunds,
         \/ SubmitRefund(r)
         \/ \E n \in Sends :
              \/ ProviderPays(r, n) \/ CallLost(r, n)
              \/ \E outcome \in Outcomes : Record(r, n, outcome)
  PROVE  TypeOK'
<1>1. CASE SubmitRefund(r)
  <2>1. refund' \in [Refunds -> RowType]
    <3>. DEFINE sent == [refund[r] EXCEPT !.status = "SUBMITTED"]
    <3>1. refund \in [Refunds -> RowType] /\ "SUBMITTED" \in RefundStatuses
      BY TypesAre DEF RefundStatuses
    <3>2. sent \in RowType
      BY <3>1, StatusWritten
    <3>3. refund' = [refund EXCEPT ![r] = [sent EXCEPT !.attempts = @ + 1]]
      BY <1>1, <3>1 DEF SubmitRefund
    <3>. HIDE DEF sent
    <3>4. [sent EXCEPT !.attempts = @ + 1] \in RowType
      BY <3>2, AttemptsWritten
    <3>. QED
      BY <3>1, <3>3, <3>4, RowWritten
  <2>2. call' \in [Refunds -> [Sends -> CallType]]
    BY <1>1, CallTyped DEF SubmitRefund
  <2>3. UNCHANGED <<order, tickets, task, decision>> /\ Disturb(NoOperator)
    BY <1>1 DEF SubmitRefund
  <2>. QED
    BY <2>1, <2>2, <2>3, DisturbType, TypesAre, TypedFrom
<1>2. ASSUME NEW n \in Sends, ProviderPays(r, n) \/ CallLost(r, n) PROVE TypeOK'
  <2>1. call' \in [Refunds -> [Sends -> CallType]]
    <3>1. \/ call' = [call EXCEPT ![r][n].paid = TRUE]
          \/ call' = [call EXCEPT ![r][n].out = FALSE]
      BY <1>2 DEF ProviderPays, CallLost
    <3>. QED
      BY <3>1, CallTyped
  <2>2. UNCHANGED <<order, tickets, refund, task, decision, disturbed>>
    BY <1>2 DEF ProviderPays, CallLost
  <2>. QED
    BY <2>1, <2>2, TypesAre, TypedFrom
<1>3. ASSUME NEW n \in Sends, NEW outcome \in Outcomes, Record(r, n, outcome) PROVE TypeOK'
  <2>1. call' \in [Refunds -> [Sends -> CallType]]
    BY <1>3, CallTyped DEF Record
  <2>2. UNCHANGED <<decision, disturbed>>
    BY <1>3 DEF Record
  <2>3. CASE UNCHANGED <<order, tickets, refund, task>>
    BY <2>1, <2>2, <2>3, TypesAre, TypedFrom
  <2>4. CASE SettleRefund(r) /\ UNCHANGED task
    BY <2>1, <2>2, <2>4, SettleType, TypesAre, TypedFrom
  <2>5. CASE RecordRefundTimeout(r, n)
    <3>1. task' = task \/ task' = [task EXCEPT ![r][n] = "OPEN"]
      BY <2>5, Zenon DEF RecordRefundTimeout
    <3>2. task' \in [Refunds -> [Sends -> TaskStates]]
      <4>1. "OPEN" \in TaskStates
        BY DEF TaskStates
      <4>. QED
        BY <3>1, <4>1, TaskTyped, TypesAre
    <3>3. "TIMEOUT" \in RefundStatuses
      BY DEF RefundStatuses
    <3>4. refund' = [refund EXCEPT ![r].status = "TIMEOUT"] /\ UNCHANGED <<order, tickets>>
      BY <2>5 DEF RecordRefundTimeout
    <3>. QED
      BY <2>1, <2>2, <3>2, <3>3, <3>4, StatusType, TypesAre, TypedFrom
  <2>6. CASE outcome \in {"DECLINED", "FAILED"} /\ RecordRefundFailure(r, outcome) /\ UNCHANGED task
    BY <2>1, <2>2, <2>6, FailureType, TypesAre, TypedFrom
  <2>. QED
    BY <1>3, <2>3, <2>4, <2>5, <2>6, Zenon DEF Record
<1>. QED
  BY <1>1, <1>2, <1>3

LEMMA TaskType ==
  ASSUME TypeOK, NEW r \in Refunds, NEW n \in Sends, ClaimTask(r, n) \/ EscalateTask(r, n)
  PROVE  TypeOK'
<1>1. PICK to \in {"IN_PROGRESS", "ESCALATED"} :
        /\ task' = [task EXCEPT ![r][n] = to]
        /\ UNCHANGED <<order, tickets, refund, call, decision>> /\ Disturb(NoOperator)
  BY Zenon DEF ClaimTask, EscalateTask, MoveTask
<1>2. to \in TaskStates
  BY DEF TaskStates
<1>3. task' \in [Refunds -> [Sends -> TaskStates]]
  BY <1>1, <1>2, TaskTyped
<1>. QED
  BY <1>1, <1>3, DisturbType, TypesAre, TypedFrom

LEMMA DecidingType ==
  ASSUME TypeOK, NEW op \in Operators,
         Requery(op) \/ \E r \in Refunds, n \in Sends : LoadTask(op, r, n)
  PROVE  TypeOK'
<1>1. NoDecision \in DecisionType
  BY DEF NoDecision, DecisionType, TaskStates, RefundStatuses
<1>2. CASE Requery(op)
  <2>. DEFINE d == decision[op]
  <2>1. PICK verdict \in {"ALREADY_DONE", "SETTLE", "RELEASE", "CONFLICT"} :
          decision' = [decision EXCEPT ![op] =
            IF verdict = "CONFLICT" THEN NoDecision ELSE [d EXCEPT !.verdict = verdict]]
    <3>1. CompareRefundEvidence(d) \in {"SETTLE", "RELEASE", "CONFLICT"}
      BY Zenon DEF CompareRefundEvidence
    <3>. QED
      BY <1>2, <3>1, Zenon DEF Requery
  <2>2. \A v \in {"ALREADY_DONE", "SETTLE", "RELEASE"} : [d EXCEPT !.verdict = v] \in DecisionType
    BY TypesAre DEF DecisionType
  <2>. HIDE DEF d
  <2>3. decision' \in [Operators -> DecisionType]
    BY <1>1, <2>1, <2>2, TypesAre
  <2>4. UNCHANGED <<order, tickets, refund, call, task, disturbed>>
    BY <1>2 DEF Requery
  <2>. QED
    BY <2>3, <2>4, TypesAre, TypedFrom
<1>3. ASSUME NEW r \in Refunds, NEW n \in Sends, LoadTask(op, r, n) PROVE TypeOK'
  <2>. DEFINE d == [refund |-> r, send |-> n, state |-> task[r][n], status |-> Status(r),
                    settled |-> AmountsOf(Succeeded \ {r}), flying |-> Flying(Refunds \ {r}),
                    verdict |-> "NONE"]
  <2>1. Succeeded \ {r} \in SUBSET Refunds /\ Flying(Refunds \ {r}) \in SUBSET Refunds
    BY DEF Succeeded, Flying
  <2>2. AmountsOf(Succeeded \ {r}) \in Nat
    BY <2>1, AmountsAreNat
  <2>3. task[r][n] \in TaskStates /\ Status(r) \in RefundStatuses
    BY DEF TypeOK, Status
  <2>4. d \in DecisionType
    BY <2>1, <2>2, <2>3 DEF DecisionType
  <2>5. decision' = [decision EXCEPT ![op] = d]
    BY <1>3 DEF LoadTask
  <2>. HIDE DEF d
  <2>6. decision' \in [Operators -> DecisionType]
    BY <2>4, <2>5, TypesAre
  <2>7. UNCHANGED <<order, tickets, refund, call, task, disturbed>>
    BY <1>3 DEF LoadTask
  <2>. QED
    BY <2>6, <2>7, TypesAre, TypedFrom
<1>. QED
  BY <1>2, <1>3

LEMMA ResolveType ==
  ASSUME TypeOK, CountersAreNat', Decisions, NEW op \in Operators, Resolve(op)
  PROVE  TypeOK'
<1>. DEFINE d == decision[op]
<1>1. d.refund \in Refunds /\ d.send \in Sends \cup {0} /\ d \in DecisionType
  BY TypesAre DEF Resolve, Decisions, IsDecision, NoDecision, DecisionType
<1>2. \/ UNCHANGED <<order, tickets, refund>>
      \/ SettleRefund(d.refund)
      \/ RecordRefundFailure(d.refund, "FAILED")
  BY Zenon DEF Resolve
<1>3. order' \in OrderType /\ tickets' \in TicketType /\ refund' \in [Refunds -> RowType]
  BY <1>1, <1>2, SettleType, FailureType, TypesAre
<1>4. task' = task \/ task' = [task EXCEPT ![d.refund][d.send] = "RESOLVED"]
  BY Zenon DEF Resolve
<1>5. task' \in [Refunds -> [Sends -> TaskStates]]
  <2>1. "RESOLVED" \in TaskStates
    BY DEF TaskStates
  <2>. HIDE DEF d
  <2>. QED
    BY <1>1, <1>4, <2>1, TaskTyped, TypesAre
<1>6. decision' = [decision EXCEPT ![op] = NoDecision] /\ UNCHANGED call /\ Disturb(op)
  BY DEF Resolve
<1>7. NoDecision \in DecisionType
  BY DEF NoDecision, DecisionType, TaskStates, RefundStatuses
<1>. HIDE DEF d
<1>8. decision' \in [Operators -> DecisionType]
  BY <1>6, <1>7, TypesAre
<1>. QED
  BY <1>3, <1>5, <1>6, <1>8, DisturbType, TypesAre, TypedFrom

LEMMA TypeStep == ASSUME IInv, Balanced, TypeOK, [Next]_vars PROVE TypeOK'
<1>1. CountersAreNat' /\ Decisions
  BY StepSafe, BalancedStep, CountersWillBeNat DEF Safe, IInv
<1>2. CASE CheckIn
  BY <1>2 DEF CheckIn, TypeOK
<1>3. CASE UNCHANGED vars
  BY <1>3, TypesAre, TypedFrom DEF vars
<1>. QED
  BY <1>1, <1>2, <1>3, AskingType, RepairType, SendingType, TaskType, DecidingType, ResolveType
  DEF Next

LEMMA InitTyped == Init => TypeOK
<1>1. NoDecision \in DecisionType
  BY DEF NoDecision, DecisionType, TaskStates, RefundStatuses
<1>2. Total \in Nat
  BY TotalIsNat
<1>3. NoRow \in RowType /\ LegacyRow("REQUESTED") \in RowType /\ LegacyRow("APPROVED") \in RowType
  <2>. HIDE DEF Total
  <2>. QED
    BY <1>2 DEF NoRow, LegacyRow, RowType, RefundStatuses
<1>4. ASSUME Init PROVE refund \in [Refunds -> RowType] /\ decision \in [Operators -> DecisionType]
  <2>1. /\ refund \in [Refunds -> {NoRow, LegacyRow("REQUESTED"), LegacyRow("APPROVED")}]
        /\ decision = [op \in Operators |-> NoDecision]
    BY <1>4 DEF Init
  <2>. QED
    BY <1>1, <1>3, <2>1
<1>5. ASSUME Init
      PROVE  /\ order \in [status : {"PAID", "REFUNDED"}, refundedCents : Nat,
                            refundPendingCents : Nat, refundedQuantity : Nat]
             /\ tickets \in [standing : Nat, withdrawn : Nat, deleted : BOOLEAN]
             /\ call \in [Refunds -> [Sends -> [out : BOOLEAN, paid : BOOLEAN]]]
             /\ task \in [Refunds -> [Sends -> TaskStates]]
             /\ disturbed \in BOOLEAN
  BY <1>5, RefundsAssumption DEF Init, TaskStates
<1>. QED
  BY <1>4, <1>5 DEF TypeOK, RowType, DecisionType

LEMMA TypedAlways == Spec => [](IInv /\ Balanced /\ TypeOK)
<1>1. IInv /\ Balanced /\ TypeOK /\ [Next]_vars => TypeOK'
  BY TypeStep
<1>. QED
  BY <1>1, InitTyped, Balances, PTL DEF Spec

(* Every row keeps its type; above all, neither counter of the order nor    *)
(* its count of tickets ever runs below zero, although the code subtracts  *)
(* from them without looking.                                              *)
THEOREM Typed == Spec => []TypeOK
BY TypedAlways, PTL

----------------------------------------------------------------------------
(* The tickets.                                                            *)

(* None succeeds now, and those that did are not written again. *)
NoneSucceeds ==
  \A r \in Refunds :
    /\ Status(r)' = "SUCCEEDED" <=> Status(r) = "SUCCEEDED"
    /\ Status(r) = "SUCCEEDED" => refund'[r].quantity = refund[r].quantity

(* The states of a refund that was sent and not refused. *)
Away == {"SUBMITTED", "TIMEOUT", "SUCCEEDED"}

(* Only rows are written that are not away, and none goes away. *)
OnlyAsked ==
  \A q \in Refunds :
    refund'[q] = refund[q] \/ (Status(q) \notin Away /\ Status(q)' \notin Away)

LEMMA RowIs ==
  ASSUME TypeOK, NEW r \in Refunds, NEW row, refund' = [refund EXCEPT ![r] = row]
  PROVE  \A q \in Refunds : refund'[q] = IF q = r THEN row ELSE refund[q]
BY TypesAre

LEMMA StatusIs ==
  ASSUME TypeOK, NEW r \in Refunds, NEW status, refund' = [refund EXCEPT ![r].status = status]
  PROVE  /\ \A q \in Refunds \ {r} : refund'[q] = refund[q]
         /\ Status(r)' = status
         /\ refund'[r].quantity = refund[r].quantity /\ refund'[r].amount = refund[r].amount
         /\ refund'[r].attempts = refund[r].attempts
<1>. DEFINE row == [refund[r] EXCEPT !.status = status]
<1>1. refund[r] \in RowType
  BY TypesAre
<1>2. /\ row.status = status /\ row.quantity = refund[r].quantity
      /\ row.amount = refund[r].amount /\ row.attempts = refund[r].attempts
  BY <1>1 DEF RowType
<1>3. refund' = [refund EXCEPT ![r] = row]
  OBVIOUS
<1>. HIDE DEF row
<1>4. \A q \in Refunds : refund'[q] = IF q = r THEN row ELSE refund[q]
  BY <1>3, RowIs
<1>. QED
  BY <1>2, <1>4 DEF Status

LEMMA SentIs ==
  ASSUME IInv, TypeOK, NEW r \in Refunds, SubmitRefund(r)
  PROVE  /\ \A q \in Refunds \ {r} : refund'[q] = refund[q]
         /\ Status(r) = "APPROVED" /\ Status(r)' = "SUBMITTED"
         /\ refund'[r].quantity = refund[r].quantity /\ refund'[r].amount = refund[r].amount
         /\ refund'[r].attempts = refund[r].attempts + 1
<1>. DEFINE k == refund[r].attempts + 1
            row == [refund[r] EXCEPT !.status = "SUBMITTED", !.attempts = k]
<1>1. refund' = [refund EXCEPT ![r] = row] /\ Status(r) = "APPROVED"
  BY TypesAre DEF SubmitRefund
<1>2. IsRow(refund[r])
  BY DEF IInv
<1>. HIDE DEF k
<1>3. row = [status |-> "SUBMITTED", owed |-> refund[r].owed, reserved |-> refund[r].reserved,
             amount |-> refund[r].amount, quantity |-> refund[r].quantity, attempts |-> k]
  BY <1>2, SentRow
<1>4. /\ row.status = "SUBMITTED" /\ row.quantity = refund[r].quantity
      /\ row.amount = refund[r].amount /\ row.attempts = k
  BY <1>3
<1>. HIDE DEF row
<1>5. \A q \in Refunds : refund'[q] = IF q = r THEN row ELSE refund[q]
  BY <1>1, RowIs
<1>. QED
  BY <1>1, <1>4, <1>5 DEF Status, k

LEMMA AskedIs ==
  ASSUME NEW status \in {"REQUESTED", "APPROVED"}, NEW owed \in BOOLEAN,
         NEW row \in Asked(status, owed)
  PROVE  row.status = status
<1>1. PICK amount, quantity :
        row = [[NoRow EXCEPT !.status = status, !.owed = owed, !.reserved = TRUE]
                EXCEPT !.amount = amount, !.quantity = quantity]
  BY Zenon DEF Asked, OnWhole, OnAmount
<1>. QED
  BY <1>1 DEF NoRow

LEMMA ReplacedIs ==
  ASSUME TypeOK, NEW r \in Refunds, NEW n \in Refunds, NEW status \in {"REQUESTED", "APPROVED"},
         Status(r) \notin Away, Replaced(r, n, status)
  PROVE  OnlyAsked
<1>1. CASE RefundableCents = 0
  <2>1. refund' = [refund EXCEPT ![r].status = "CANCELLED"]
    BY <1>1 DEF Replaced
  <2>2. (\A q \in Refunds \ {r} : refund'[q] = refund[q]) /\ Status(r)' = "CANCELLED"
    BY <2>1, StatusIs
  <2>. QED
    BY <2>2 DEF OnlyAsked, Away
<1>2. CASE RefundableCents # 0
  <2>1. n # r /\ Status(n) = "NONE"
    BY <1>2, Zenon DEF Replaced
  <2>2. PICK row \in Asked(status, TRUE) :
          refund' = [refund EXCEPT ![r].status = "CANCELLED", ![n] = row]
    BY <1>2, Zenon DEF Replaced
  <2>3. row.status = status
    BY AskedIs
  <2>. DEFINE gone == [refund[r] EXCEPT !.status = "CANCELLED"]
  <2>4. \A q \in Refunds : refund'[q] = IF q = n THEN row ELSE IF q = r THEN gone ELSE refund[q]
    BY <2>1, <2>2, TypesAre
  <2>5. refund[r] \in RowType
    BY TypesAre
  <2>6. gone.status = "CANCELLED"
    BY <2>5 DEF RowType
  <2>. HIDE DEF gone
  <2>. QED
    BY <2>1, <2>3, <2>4, <2>6 DEF OnlyAsked, Status, Away
<1>. QED
  BY <1>1, <1>2

(* What is asked for, approved, withdrawn, repaired or asked for anew. *)
Asking ==
  \E r, n \in Refunds :
    \/ RequestRefund(r) \/ DeleteEvent(r) \/ ApproveRefund(r) \/ CancelRefund(r)
    \/ RepairReserved(r) \/ ApproveOwed(r, n)
    \/ \E status \in {"REQUESTED", "APPROVED"} : RepairReplaced(r, n, status)

LEMMA AskingIs ==
  ASSUME TypeOK, Asking
  PROVE  /\ OnlyAsked /\ tickets'.standing <= tickets.standing
         /\ UNCHANGED <<call, task, decision, disturbed>>
<1>0. tickets \in TicketType /\ tickets.standing \in Nat
  BY TypesAre DEF TicketType
<1>1. UNCHANGED <<call, task, decision, disturbed>>
  BY Zenon DEF Asking, RequestRefund, DeleteEvent, ApproveRefund, CancelRefund, RepairReserved,
               ApproveOwed, RepairReplaced
<1>2. tickets'.standing <= tickets.standing
  <2>1. UNCHANGED tickets \/ tickets' = [tickets EXCEPT !.standing = 0, !.withdrawn = tickets.standing,
                                                       !.deleted = TRUE]
    BY Zenon DEF Asking, RequestRefund, DeleteEvent, ApproveRefund, CancelRefund, RepairReserved,
                 ApproveOwed, RepairReplaced
  <2>2. [tickets EXCEPT !.standing = 0, !.withdrawn = tickets.standing, !.deleted = TRUE].standing = 0
    BY <1>0 DEF TicketType
  <2>3. tickets'.standing = tickets.standing \/ tickets'.standing = 0
    BY <2>1, <2>2, Zenon
  <2>. QED
    BY <1>0, <2>3
<1>3. ASSUME NEW r \in Refunds, RequestRefund(r) PROVE OnlyAsked
  <2>1. PICK row \in Asked("REQUESTED", FALSE) : refund' = [refund EXCEPT ![r] = row]
    BY <1>3 DEF RequestRefund
  <2>2. row.status = "REQUESTED" /\ Status(r) = "NONE"
    BY <1>3, AskedIs DEF RequestRefund
  <2>. QED
    BY <2>1, <2>2, RowIs DEF OnlyAsked, Status, Away
<1>4. ASSUME NEW r \in Refunds, DeleteEvent(r) PROVE OnlyAsked
  <2>1. CASE UNCHANGED refund
    BY <2>1 DEF OnlyAsked
  <2>2. CASE ~UNCHANGED refund
    <3>1. PICK row \in Asked("REQUESTED", TRUE) : refund' = [refund EXCEPT ![r] = row]
      BY <1>4, <2>2, Zenon DEF DeleteEvent
    <3>2. Status(r) = "NONE"
      BY <1>4, <2>2, Zenon DEF DeleteEvent
    <3>3. row.status = "REQUESTED"
      BY AskedIs
    <3>. QED
      BY <3>1, <3>2, <3>3, RowIs DEF OnlyAsked, Status, Away
  <2>. QED
    BY <2>1, <2>2
<1>5. ASSUME NEW r \in Refunds, ApproveRefund(r) \/ CancelRefund(r) PROVE OnlyAsked
  <2>1. PICK status \in {"APPROVED", "CANCELLED"} : refund' = [refund EXCEPT ![r].status = status]
    BY <1>5 DEF ApproveRefund, CancelRefund
  <2>2. Status(r) \notin Away
    BY <1>5 DEF ApproveRefund, CancelRefund, Away
  <2>. QED
    BY <2>1, <2>2, StatusIs DEF OnlyAsked, Away
<1>6. ASSUME NEW r \in Refunds, RepairReserved(r) PROVE OnlyAsked
  <2>. DEFINE row == [refund[r] EXCEPT !.reserved = TRUE]
  <2>1. refund[r] \in RowType
    BY TypesAre
  <2>2. row \in RowType /\ row.status = Status(r)
    BY <2>1 DEF RowType, Status
  <2>3. Status(r) \notin Away
    BY <1>6 DEF RepairReserved, IsUnreservedLegacyRefund, Away
  <2>4. PICK written : /\ \/ written = OnWhole(row, row.amount, Refunds \ {r})
                           \/ written = OnAmount(row, row.amount, Refunds \ {r})
                        /\ refund' = [refund EXCEPT ![r] = written]
    BY <1>6, Zenon DEF RepairReserved
  <2>. HIDE DEF row
  <2>5. \A a, q : [row EXCEPT !.amount = a, !.quantity = q].status = row.status
    BY <2>2 DEF RowType
  <2>6. written.status = row.status
    <3>1. PICK a, q : written = [row EXCEPT !.amount = a, !.quantity = q]
      BY <2>4, Zenon DEF OnWhole, OnAmount
    <3>. QED
      BY <2>5, <3>1, Zenon
  <2>. QED
    BY <2>2, <2>3, <2>4, <2>6, RowIs DEF OnlyAsked, Status
<1>7. ASSUME NEW r \in Refunds, NEW n \in Refunds,
             \/ \E status \in {"REQUESTED", "APPROVED"} : RepairReplaced(r, n, status)
             \/ ApproveOwed(r, n)
      PROVE  OnlyAsked
  <2>1. PICK status \in {"REQUESTED", "APPROVED"} : Replaced(r, n, status)
    BY <1>7 DEF RepairReplaced, ApproveOwed
  <2>2. Status(r) \notin Away
    BY <1>7 DEF RepairReplaced, ApproveOwed, IsUnreservedLegacyRefund, Away
  <2>. QED
    BY <2>1, <2>2, ReplacedIs
<1>. QED
  BY <1>1, <1>2, <1>3, <1>4, <1>5, <1>6, <1>7 DEF Asking

LEMMA Kinds ==
  ASSUME [Next]_vars
  PROVE  \/ Asking
         \/ \E r \in Refunds : SubmitRefund(r)
         \/ \E r \in Refunds, n \in Sends, outcome \in Outcomes : Record(r, n, outcome)
         \/ \E r \in Refunds, n \in Sends : ProviderPays(r, n) \/ CallLost(r, n)
         \/ \E r \in Refunds, n \in Sends : ClaimTask(r, n) \/ EscalateTask(r, n)
         \/ \E r \in Refunds, n \in Sends, op \in Operators : LoadTask(op, r, n)
         \/ \E op \in Operators : Requery(op)
         \/ \E op \in Operators : Resolve(op)
         \/ CheckIn
         \/ UNCHANGED vars
BY Zenon DEF Next, Asking

(* A step lets one refund that is with the provider succeed, or none; and  *)
(* in the second case no ticket that did not stand stands.                 *)
LEMMA SucceedsOrNot ==
  ASSUME IInv, TypeOK, [Next]_vars
  PROVE  \/ \E r \in Refunds : Status(r) \in IN_FLIGHT_STATES /\ SettleRefund(r)
         \/ NoneSucceeds /\ tickets'.standing <= tickets.standing
<1>. DEFINE Kept == NoneSucceeds /\ tickets'.standing <= tickets.standing
<1>0. tickets \in TicketType /\ tickets.standing \in Nat
  BY TypesAre DEF TicketType
<1>1. ASSUME UNCHANGED tickets PROVE tickets'.standing <= tickets.standing
  BY <1>0, <1>1
<1>2. ASSUME UNCHANGED <<refund, tickets>> PROVE Kept
  BY <1>1, <1>2 DEF NoneSucceeds, Status
<1>3. ASSUME Asking PROVE Kept
  <2>1. OnlyAsked /\ tickets'.standing <= tickets.standing
    BY <1>3, AskingIs
  <2>. QED
    BY <2>1 DEF OnlyAsked, NoneSucceeds, Status, Away
<1>4. ASSUME NEW r \in Refunds, SubmitRefund(r) PROVE Kept
  BY <1>1, <1>4, SentIs DEF NoneSucceeds, Status, SubmitRefund
<1>5. ASSUME NEW r \in Refunds, NEW n \in Sends, NEW outcome \in Outcomes, Record(r, n, outcome)
      PROVE  Kept \/ (Status(r) \in IN_FLIGHT_STATES /\ SettleRefund(r))
  <2>1. CASE UNCHANGED <<refund, tickets>>
    BY <1>2, <2>1
  <2>2. CASE ~UNCHANGED <<refund, tickets>>
    <3>1. Status(r) = "SUBMITTED"
      BY <1>5, <2>2, Zenon DEF Record
    <3>2. \/ SettleRefund(r)
          \/ \E status \in {"TIMEOUT", "DECLINED", "FAILED"} :
               refund' = [refund EXCEPT ![r].status = status] /\ UNCHANGED tickets
      BY <1>5, <3>1, Zenon DEF Record, RecordRefundTimeout, RecordRefundFailure
    <3>. QED
      BY <1>1, <3>1, <3>2, StatusIs DEF IN_FLIGHT_STATES, NoneSucceeds, Status
  <2>. QED
    BY <2>1, <2>2
<1>6. ASSUME CheckIn PROVE Kept
  <2>1. tickets'.standing <= tickets.standing
    BY <1>0, <1>6 DEF CheckIn, TicketType
  <2>. QED
    BY <1>6, <2>1 DEF CheckIn, NoneSucceeds, Status
<1>7. ASSUME NEW op \in Operators, Resolve(op)
      PROVE  Kept \/ \E r \in Refunds : Status(r) \in IN_FLIGHT_STATES /\ SettleRefund(r)
  <2>. DEFINE r == decision[op].refund
  <2>1. CASE UNCHANGED <<refund, tickets>>
    BY <1>2, <2>1
  <2>2. CASE ~UNCHANGED <<refund, tickets>>
    <3>1. /\ Status(r) \in IN_FLIGHT_STATES
          /\ SettleRefund(r) \/ RecordRefundFailure(r, "FAILED")
      BY <1>7, <2>2, Zenon DEF Resolve
    <3>2. r \in Refunds
      BY <1>7 DEF Resolve, IInv, Decisions, IsDecision, NoDecision
    <3>. HIDE DEF r
    <3>3. CASE RecordRefundFailure(r, "FAILED")
      BY <1>1, <3>1, <3>2, <3>3, StatusIs
      DEF RecordRefundFailure, IN_FLIGHT_STATES, NoneSucceeds, Status
    <3>. QED
      BY <3>1, <3>2, <3>3
  <2>. QED
    BY <2>1, <2>2
<1>8. ASSUME NEW r \in Refunds, NEW n \in Sends,
             ProviderPays(r, n) \/ CallLost(r, n) \/ ClaimTask(r, n) \/ EscalateTask(r, n)
      PROVE  Kept
  BY <1>2, <1>8, Zenon DEF ProviderPays, CallLost, ClaimTask, EscalateTask, MoveTask
<1>9. ASSUME NEW op \in Operators,
             Requery(op) \/ \E r \in Refunds, n \in Sends : LoadTask(op, r, n)
      PROVE  Kept
  BY <1>2, <1>9, Zenon DEF Requery, LoadTask
<1>10. ASSUME UNCHANGED vars PROVE Kept
  BY <1>2, <1>10 DEF vars
<1>. HIDE DEF Kept
<1>11. Kept \/ \E r \in Refunds : Status(r) \in IN_FLIGHT_STATES /\ SettleRefund(r)
  BY <1>3, <1>4, <1>5, <1>6, <1>7, <1>8, <1>9, <1>10, Kinds
<1>. QED
  BY <1>11 DEF Kept

LEMMA TicketsStep ==
  ASSUME IInv, TypeOK, TypeOK', RefundedTicketsDoNotAdmit, [Next]_vars
  PROVE  RefundedTicketsDoNotAdmit'
<1>. DEFINE had == QuantitiesOf(Succeeded)
            has == QuantitiesOf(Succeeded)'
            q == [r \in Refunds |-> refund[r].quantity]
<1>0. /\ tickets.standing \in Nat /\ tickets'.standing \in Nat /\ Quantity \in Nat
      /\ Succeeded \in SUBSET Refunds /\ had \in Nat
  <2>1. Succeeded \in SUBSET Refunds
    BY DEF Succeeded
  <2>2. had \in Nat
    BY <2>1, AmountsAreNat
  <2>3. tickets.standing \in Nat /\ tickets'.standing \in Nat
    BY DEF TypeOK
  <2>. QED
    BY <2>1, <2>2, <2>3, RefundsAssumption
<1>00. has = SumOf(q', Succeeded')
  BY DEF QuantitiesOf
<1>1. CASE NoneSucceeds /\ tickets'.standing <= tickets.standing
  <2>1. Succeeded' = Succeeded
    BY <1>1 DEF NoneSucceeds, Succeeded
  <2>2. \A r \in Succeeded : q'[r] = q[r]
    BY <1>1 DEF NoneSucceeds, Succeeded
  <2>3. has = had
    BY <1>00, <2>1, <2>2, SumSame DEF QuantitiesOf
  <2>. HIDE DEF had, has
  <2>4. tickets.standing <= Positive(Quantity - had)
    BY DEF RefundedTicketsDoNotAdmit, had
  <2>5. tickets'.standing <= Positive(Quantity - has)
    BY <1>0, <1>1, <2>3, <2>4 DEF Positive
  <2>. QED
    BY <2>5 DEF RefundedTicketsDoNotAdmit, Positive, has
<1>2. ASSUME NEW r \in Refunds, Status(r) \in IN_FLIGHT_STATES, SettleRefund(r)
      PROVE  RefundedTicketsDoNotAdmit'
  <2>. DEFINE n == refund[r].quantity
              stood == Lesser(n, tickets.standing)
  <2>1. /\ refund \in [Refunds -> RowType] /\ refund[r] \in RowType
        /\ refund' = [refund EXCEPT ![r].status = "SUCCEEDED"]
    BY <1>2, TypesAre DEF SettleRefund
  <2>2. /\ \A p \in Refunds : refund'[p].quantity = refund[p].quantity
        /\ \A p \in Refunds : Status(p)' = "SUCCEEDED" <=> p = r \/ Status(p) = "SUCCEEDED"
    <3>. DEFINE row == [refund[r] EXCEPT !.status = "SUCCEEDED"]
    <3>1. \A p \in Refunds : refund'[p] = IF p = r THEN row ELSE refund[p]
      BY <2>1
    <3>2. row.status = "SUCCEEDED" /\ row.quantity = refund[r].quantity
      BY <2>1 DEF RowType
    <3>. HIDE DEF row
    <3>. QED
      BY <3>1, <3>2 DEF Status
  <2>3. Succeeded' = Succeeded \cup {r} /\ Succeeded \cap {r} = {}
    BY <1>2, <2>2 DEF Succeeded, IN_FLIGHT_STATES
  <2>4. n \in Nat /\ q[r] = n
    BY <2>1 DEF RowType
  <2>5. IsCount(q, Succeeded) /\ IsCount(q, {r})
    <3>1. IsFiniteSet(Succeeded) /\ IsFiniteSet({r})
      BY <1>0, FS_Subset, FS_Singleton, RefundsAssumption
    <3>2. \A p \in Refunds : q[p] \in Nat
      BY <2>1 DEF RowType
    <3>. QED
      BY <1>0, <3>1, <3>2 DEF IsCount
  <2>6. SumOf(q, Succeeded \cup {r}) = SumOf(q, Succeeded) + SumOf(q, {r})
    BY <2>3, <2>5, SumOfBoth
  <2>7. SumOf(q, {r}) = n
    BY <2>4, SumOfOne
  <2>8. \A p \in Succeeded \cup {r} : q'[p] = q[p]
    BY <1>0, <2>2
  <2>9. SumOf(q', Succeeded \cup {r}) = SumOf(q, Succeeded \cup {r})
    BY <2>8, SumSame
  <2>10. had = SumOf(q, Succeeded)
    BY DEF QuantitiesOf
  <2>. HIDE DEF q
  <2>11. has = had + n
    BY <1>00, <2>3, <2>6, <2>7, <2>9, <2>10
  <2>12. tickets'.standing = tickets.standing - stood
    BY <1>2, TypesAre DEF SettleRefund, TicketType
  <2>. HIDE DEF had, has, n
  <2>13. tickets.standing <= Positive(Quantity - had)
    BY DEF RefundedTicketsDoNotAdmit, had
  <2>14. tickets'.standing <= Positive(Quantity - has)
    BY <1>0, <2>4, <2>11, <2>12, <2>13 DEF Positive, Lesser
  <2>. QED
    BY <2>14 DEF RefundedTicketsDoNotAdmit, Positive, has
<1>. QED
  BY <1>1, <1>2, SucceedsOrNot

(* Money that went back took its tickets with it: however requests,        *)
(* deletions, answers and verdicts interleave, no more tickets of the line  *)
(* still admit than were not paid back in full.                            *)
THEOREM RefundedTicketsStop == Spec => []RefundedTicketsDoNotAdmit
<1>1. Init => RefundedTicketsDoNotAdmit
  <2>1. SUFFICES ASSUME Init PROVE RefundedTicketsDoNotAdmit
    OBVIOUS
  <2>2. \A r \in Refunds : refund[r] \in {NoRow, LegacyRow("REQUESTED"), LegacyRow("APPROVED")}
    BY <2>1 DEF Init
  <2>3. Succeeded = {}
    BY <2>2 DEF Succeeded, Status, NoRow, LegacyRow
  <2>4. QuantitiesOf(Succeeded) = 0
    BY <2>3, SumOfNone DEF QuantitiesOf
  <2>5. tickets.standing = Quantity /\ Quantity \in Nat
    BY <2>1, RefundsAssumption DEF Init
  <2>. HIDE DEF QuantitiesOf, Succeeded
  <2>. QED
    BY <2>4, <2>5 DEF RefundedTicketsDoNotAdmit, Positive
<1>2. IInv /\ TypeOK /\ TypeOK' /\ RefundedTicketsDoNotAdmit /\ [Next]_vars => RefundedTicketsDoNotAdmit'
  BY TicketsStep
<1>. QED
  BY <1>1, <1>2, TypedAlways, PTL DEF Spec

----------------------------------------------------------------------------
(* The truth of what is recorded.  As long as nothing was sent and no task *)
(* moved behind an operator's back: a call that is out is its refund's     *)
(* last, of a refund that waits for it; one that was paid is its refund's  *)
(* last, of a refund that is away; what succeeded was paid; an active task *)
(* is the only one of a refund that timed out; and an operator knows what  *)
(* was paid of everything that may still be with the provider.             *)

PaidRefunds == {r \in Refunds : \E n \in Sends : call[r][n].paid}

CallsFit ==
  \A r \in Refunds, n \in Sends :
    /\ call[r][n].out => n = refund[r].attempts /\ Status(r) = "SUBMITTED"
    /\ call[r][n].paid => n = refund[r].attempts /\ Status(r) \in Away

SucceededPaid == \A r \in Refunds : Status(r) = "SUCCEEDED" => r \in PaidRefunds

TasksFit ==
  \A r \in Refunds, n, m \in Sends :
    task[r][n] \in ACTIVE_STATES =>
      Status(r) = "TIMEOUT" /\ (task[r][m] \in ACTIVE_STATES => n = m)

(* Those whose payment the provider's total may still surprise with. *)
Suspects(d) == d.flying \cup {d.refund}

Informed(d) ==
  /\ d.refund \in Refunds /\ d.send \in Sends /\ d.flying \in SUBSET Refunds
  /\ d.status = "TIMEOUT" /\ Status(d.refund) = "TIMEOUT"
  /\ d.state \in ACTIVE_STATES /\ task[d.refund][d.send] = d.state
  /\ Flying(Refunds) \subseteq Suspects(d)
  /\ d.settled = SumOf(Amounts, PaidRefunds \ Suspects(d))
  /\ d.verdict = "SETTLE" => d.refund \in PaidRefunds
  /\ d.verdict = "RELEASE" => d.refund \notin PaidRefunds
  /\ d.verdict # "ALREADY_DONE"

DecisionsFit == \A op \in Operators : decision[op] # NoDecision => Informed(decision[op])

Candid == CallsFit /\ SucceededPaid /\ TasksFit /\ DecisionsFit

LEMMA CallIs ==
  ASSUME TypeOK, NEW r \in Refunds, NEW k, NEW b \in BOOLEAN
  PROVE  /\ call' = [call EXCEPT ![r][k].out = b] =>
              \A q \in Refunds, n \in Sends :
                /\ (call'[q][n].paid <=> call[q][n].paid)
                /\ (call'[q][n].out <=> IF q = r /\ n = k THEN b ELSE call[q][n].out)
         /\ call' = [call EXCEPT ![r][k].paid = b] =>
              \A q \in Refunds, n \in Sends :
                /\ (call'[q][n].out <=> call[q][n].out)
                /\ (call'[q][n].paid <=> IF q = r /\ n = k THEN b ELSE call[q][n].paid)
<1>1. call \in [Refunds -> [Sends -> CallType]]
  BY TypesAre
<1>2. \A c \in CallType : /\ [c EXCEPT !.out = b].out = b /\ [c EXCEPT !.out = b].paid = c.paid
                          /\ [c EXCEPT !.paid = b].paid = b /\ [c EXCEPT !.paid = b].out = c.out
  BY DEF CallType
<1>3. ASSUME NEW c, call' = [call EXCEPT ![r][k] = c], NEW q \in Refunds, NEW n \in Sends
      PROVE  call'[q][n] = IF q = r /\ n = k THEN c ELSE call[q][n]
  BY <1>1, <1>3
<1>4. ASSUME NEW q \in Refunds, NEW n \in Sends PROVE call[q][n] \in CallType
  BY <1>1
<1>5. ASSUME call' = [call EXCEPT ![r][k].out = b], NEW q \in Refunds, NEW n \in Sends
      PROVE  /\ (call'[q][n].paid <=> call[q][n].paid)
             /\ (call'[q][n].out <=> IF q = r /\ n = k THEN b ELSE call[q][n].out)
  <2>. DEFINE c == [call[r][k] EXCEPT !.out = b]
  <2>1. call'[q][n] = IF q = r /\ n = k THEN c ELSE call[q][n]
    BY <1>3, <1>5
  <2>2. q = r /\ n = k => c.out = b /\ c.paid = call[q][n].paid
    BY <1>2, <1>4
  <2>. HIDE DEF c
  <2>. QED
    BY <2>1, <2>2
<1>6. ASSUME call' = [call EXCEPT ![r][k].paid = b], NEW q \in Refunds, NEW n \in Sends
      PROVE  /\ (call'[q][n].out <=> call[q][n].out)
             /\ (call'[q][n].paid <=> IF q = r /\ n = k THEN b ELSE call[q][n].paid)
  <2>. DEFINE c == [call[r][k] EXCEPT !.paid = b]
  <2>1. call'[q][n] = IF q = r /\ n = k THEN c ELSE call[q][n]
    BY <1>3, <1>6
  <2>2. q = r /\ n = k => c.paid = b /\ c.out = call[q][n].out
    BY <1>2, <1>4
  <2>. HIDE DEF c
  <2>. QED
    BY <2>1, <2>2
<1>. QED
  BY <1>5, <1>6

LEMMA TaskIs ==
  ASSUME TypeOK, NEW r \in Refunds, NEW k, NEW state, task' = [task EXCEPT ![r][k] = state]
  PROVE  \A q \in Refunds, n \in Sends :
           /\ q = r /\ n = k => task'[q][n] = state
           /\ ~(q = r /\ n = k) => task'[q][n] = task[q][n]
<1>1. task \in [Refunds -> [Sends -> TaskStates]]
  BY TypesAre
<1>. QED
  BY <1>1

(* Amounts that stay, of a set of refunds. *)
LEMMA AmountsStay ==
  ASSUME NEW S \in SUBSET Refunds, \A q \in S : refund'[q].amount = refund[q].amount
  PROVE  SumOf(Amounts', S) = SumOf(Amounts, S)
<1>1. \A q \in S : Amounts'[q] = Amounts[q]
  BY DEF Amounts
<1>. QED
  BY <1>1, SumSame

(* An operator stays informed while those that were not paid are paid only *)
(* if they were out, and no refund that timed out moves.                   *)
LEMMA DecisionsStay ==
  ASSUME DecisionsFit, UNCHANGED decision,
         \A q \in Refunds : Status(q) = "TIMEOUT" => Status(q)' = "TIMEOUT" /\ task'[q] = task[q],
         Flying(Refunds)' \subseteq Flying(Refunds),
         \A q \in PaidRefunds : refund'[q].amount = refund[q].amount,
         PaidRefunds \subseteq PaidRefunds',
         \A q \in PaidRefunds' : q \in PaidRefunds \/ Status(q) = "SUBMITTED"
  PROVE  DecisionsFit'
<1>. SUFFICES ASSUME NEW op \in Operators, decision[op] # NoDecision
              PROVE  Informed(decision[op])'
  BY DEF DecisionsFit
<1>. DEFINE d == decision[op]
<1>1. Informed(d)
  BY DEF DecisionsFit
<1>2. UNCHANGED d
  OBVIOUS
<1>3. \A q \in Refunds : Status(q) = "SUBMITTED" => q \in Suspects(d)
  BY <1>1 DEF Informed, Flying, IN_FLIGHT_STATES
<1>4. PaidRefunds' \ Suspects(d) = PaidRefunds \ Suspects(d)
  <2>1. PaidRefunds' \subseteq Refunds
    BY DEF PaidRefunds
  <2>. QED
    BY <1>3, <2>1
<1>5. d.refund \in PaidRefunds' <=> d.refund \in PaidRefunds
  BY <1>1 DEF Informed
<1>6. SumOf(Amounts', PaidRefunds' \ Suspects(d)) = SumOf(Amounts, PaidRefunds \ Suspects(d))
  <2>1. PaidRefunds \ Suspects(d) \in SUBSET Refunds
    BY DEF PaidRefunds
  <2>. QED
    BY <1>4, <2>1, AmountsStay
<1>7. Status(d.refund)' = "TIMEOUT" /\ task'[d.refund][d.send] = d.state
  BY <1>1 DEF Informed, Status
<1>8. Flying(Refunds)' \subseteq Suspects(d)
  BY <1>1 DEF Informed
<1>. HIDE DEF d
<1>9. /\ d'.refund \in Refunds /\ d'.send \in Sends /\ d'.flying \in SUBSET Refunds
      /\ d'.status = "TIMEOUT" /\ Status(d.refund)' = "TIMEOUT"
      /\ d'.state \in ACTIVE_STATES /\ task'[d'.refund][d'.send] = d'.state
      /\ Flying(Refunds)' \subseteq Suspects(d')
      /\ d'.settled = SumOf(Amounts', PaidRefunds' \ Suspects(d'))
      /\ d'.verdict = "SETTLE" => d'.refund \in PaidRefunds'
      /\ d'.verdict = "RELEASE" => d'.refund \notin PaidRefunds'
      /\ d'.verdict # "ALREADY_DONE"
  BY <1>1, <1>2, <1>5, <1>6, <1>7, <1>8 DEF Informed
<1>. QED
  BY <1>2, <1>9 DEF Informed, Suspects, Status, d

LEMMA TasksStay ==
  ASSUME TasksFit, UNCHANGED task, \A q \in Refunds : Status(q) = "TIMEOUT" => Status(q)' = "TIMEOUT"
  PROVE  TasksFit'
BY DEF TasksFit

LEMMA PaidStay ==
  ASSUME \A q \in Refunds, n \in Sends : (call'[q][n].paid <=> call[q][n].paid)
  PROVE  PaidRefunds' = PaidRefunds
BY DEF PaidRefunds

LEMMA PaidAreAway == ASSUME CallsFit, NEW r \in PaidRefunds PROVE r \in Refunds /\ Status(r) \in Away
BY DEF CallsFit, PaidRefunds

LEMMA AskingCandid ==
  ASSUME Candid, OnlyAsked, UNCHANGED <<call, task, decision>>
  PROVE  Candid'
<1>1. \A q \in Refunds : Status(q) \in Away \/ Status(q)' \in Away => refund'[q] = refund[q]
  BY DEF OnlyAsked
<1>2. PaidRefunds' = PaidRefunds
  BY DEF PaidRefunds
<1>3. CallsFit'
  BY <1>1 DEF Candid, CallsFit, Away, Status
<1>4. SucceededPaid'
  BY <1>1, <1>2 DEF Candid, SucceededPaid, Away, Status
<1>5. \A q \in Refunds : Status(q) = "TIMEOUT" => Status(q)' = "TIMEOUT"
  BY <1>1 DEF Away, Status
<1>6. TasksFit'
  BY <1>5, TasksStay DEF Candid
<1>7. Flying(Refunds)' \subseteq Flying(Refunds)
  BY <1>1 DEF Flying, Away, Status, IN_FLIGHT_STATES
<1>8. \A q \in PaidRefunds : refund'[q].amount = refund[q].amount
  BY <1>1, PaidAreAway DEF Candid
<1>9. DecisionsFit'
  BY <1>2, <1>5, <1>7, <1>8, DecisionsStay DEF Candid
<1>. QED
  BY <1>3, <1>4, <1>6, <1>9 DEF Candid

(* When nobody but op was deciding, nobody is left who was misled. *)
LEMMA NobodyElse ==
  ASSUME NEW op, Disturb(op), ~disturbed'
  PROVE  ~disturbed /\ \A other \in Operators \ {op} : decision[other] = NoDecision
BY DEF Disturb, Deciding

LEMMA SubmitCandid ==
  ASSUME IInv, TypeOK, ~disturbed => Candid, ~disturbed', NEW r \in Refunds, SubmitRefund(r)
  PROVE  Candid'
<1>. DEFINE k == refund[r].attempts + 1
<1>1. /\ call' = [call EXCEPT ![r][k].out = TRUE]
      /\ UNCHANGED <<task, decision>> /\ Disturb(NoOperator)
  BY DEF SubmitRefund
<1>2. Candid /\ \A op \in Operators : decision[op] = NoDecision
  BY <1>1, NobodyElse, SentinelAssumption
<1>3. /\ \A q \in Refunds \ {r} : refund'[q] = refund[q]
      /\ Status(r) = "APPROVED" /\ Status(r)' = "SUBMITTED" /\ refund'[r].attempts = k
  BY SentIs
<1>. HIDE DEF k
<1>4. \A q \in Refunds, n \in Sends :
        /\ (call'[q][n].paid <=> call[q][n].paid)
        /\ (call'[q][n].out <=> IF q = r /\ n = k THEN TRUE ELSE call[q][n].out)
  BY <1>1, CallIs
<1>5. PaidRefunds' = PaidRefunds
  BY <1>4, PaidStay
<1>6. CallsFit'
  <2>1. \A n \in Sends : ~call[r][n].out /\ ~call[r][n].paid
    BY <1>2, <1>3 DEF Candid, CallsFit, Away
  <2>2. refund'[r].status = "SUBMITTED"
    BY <1>3 DEF Status
  <2>3. ASSUME NEW q \in Refunds, NEW n \in Sends
        PROVE  /\ call'[q][n].out => n = refund'[q].attempts /\ refund'[q].status = "SUBMITTED"
               /\ call'[q][n].paid => n = refund'[q].attempts /\ refund'[q].status \in Away
    <3>1. CASE q = r
      BY <1>3, <1>4, <2>1, <2>2, <3>1
    <3>2. CASE q # r
      BY <1>2, <1>3, <1>4, <3>2 DEF Candid, CallsFit, Status
    <3>. QED
      BY <3>1, <3>2
  <2>. QED
    BY <2>3 DEF CallsFit, Status
<1>7. SucceededPaid'
  BY <1>2, <1>3, <1>5 DEF Candid, SucceededPaid, Status
<1>8. TasksFit'
  BY <1>1, <1>2, <1>3, TasksStay DEF Candid, Status
<1>9. DecisionsFit'
  BY <1>1, <1>2 DEF DecisionsFit
<1>. QED
  BY <1>6, <1>7, <1>8, <1>9 DEF Candid

LEMMA CallsCandid ==
  ASSUME TypeOK, Candid, NEW r \in Refunds, NEW n \in Sends, ProviderPays(r, n) \/ CallLost(r, n)
  PROVE  Candid'
<1>1. UNCHANGED <<refund, task, decision>> /\ call[r][n].out
  BY DEF ProviderPays, CallLost
<1>2. Status(r) = "SUBMITTED" /\ n = refund[r].attempts
  BY <1>1 DEF Candid, CallsFit
<1>3. \A q \in Refunds, m \in Sends :
        /\ call'[q][m].out => call[q][m].out
        /\ call'[q][m].paid => call[q][m].paid \/ (q = r /\ m = n)
        /\ call[q][m].paid => call'[q][m].paid
  <2>1. CASE call' = [call EXCEPT ![r][n].out = FALSE]
    BY <2>1, CallIs
  <2>2. CASE call' = [call EXCEPT ![r][n].paid = TRUE]
    BY <2>2, CallIs
  <2>. QED
    BY <2>1, <2>2 DEF ProviderPays, CallLost
<1>4. PaidRefunds \subseteq PaidRefunds' /\ PaidRefunds' \subseteq PaidRefunds \cup {r}
  BY <1>3 DEF PaidRefunds
<1>5. CallsFit'
  BY <1>1, <1>2, <1>3 DEF Candid, CallsFit, Away, Status
<1>6. SucceededPaid'
  BY <1>1, <1>4 DEF Candid, SucceededPaid, Status
<1>7. TasksFit'
  BY <1>1, TasksStay DEF Candid, Status
<1>8. DecisionsFit'
  <2>1. Flying(Refunds)' \subseteq Flying(Refunds)
    BY <1>1 DEF Flying, Status
  <2>2. \A q \in Refunds : Status(q) = "TIMEOUT" => Status(q)' = "TIMEOUT" /\ task'[q] = task[q]
    BY <1>1 DEF Status
  <2>3. \A q \in PaidRefunds : refund'[q].amount = refund[q].amount
    BY <1>1
  <2>4. \A q \in PaidRefunds' : q \in PaidRefunds \/ Status(q) = "SUBMITTED"
    BY <1>2, <1>4
  <2>. QED
    BY <1>1, <1>4, <2>1, <2>2, <2>3, <2>4, DecisionsStay DEF Candid
<1>. QED
  BY <1>5, <1>6, <1>7, <1>8 DEF Candid

LEMMA RecordCandid ==
  ASSUME TypeOK, Candid, NEW r \in Refunds, NEW n \in Sends, NEW outcome \in Outcomes,
         Record(r, n, outcome)
  PROVE  Candid'
<1>1. /\ call' = [call EXCEPT ![r][n].out = FALSE] /\ call[r][n].out
      /\ UNCHANGED decision
  BY DEF Record
<1>2. Status(r) = "SUBMITTED" /\ n = refund[r].attempts
  BY <1>1 DEF Candid, CallsFit
<1>3. \A q \in Refunds, m \in Sends :
        /\ (call'[q][m].paid <=> call[q][m].paid)
        /\ (call'[q][m].out <=> IF q = r /\ m = n THEN FALSE ELSE call[q][m].out)
  BY <1>1, CallIs
<1>4. PaidRefunds' = PaidRefunds
  BY <1>3, PaidStay
<1>5. PICK status \in {"SUCCEEDED", "TIMEOUT", "DECLINED", "FAILED"} :
        /\ refund' = [refund EXCEPT ![r].status = status]
        /\ status = "SUCCEEDED" => call[r][n].paid
        /\ status \in {"DECLINED", "FAILED"} => ~call[r][n].paid
        /\ IF status = "TIMEOUT" THEN RecordRefundTimeout(r, n) ELSE UNCHANGED task
  BY <1>2, Zenon DEF Record, SettleRefund, RecordRefundTimeout, RecordRefundFailure
<1>6. /\ \A q \in Refunds \ {r} : refund'[q] = refund[q]
      /\ refund'[r].status = status /\ refund'[r].attempts = n /\ refund'[r].amount = refund[r].amount
  BY <1>2, <1>5, StatusIs DEF Status
<1>7. CallsFit'
  <2>1. ASSUME NEW q \in Refunds, NEW m \in Sends
        PROVE  /\ call'[q][m].out => m = refund'[q].attempts /\ refund'[q].status = "SUBMITTED"
               /\ call'[q][m].paid => m = refund'[q].attempts /\ refund'[q].status \in Away
    <3>0. /\ call[q][m].out => m = refund[q].attempts /\ Status(q) = "SUBMITTED"
          /\ call[q][m].paid => m = refund[q].attempts
      BY DEF Candid, CallsFit
    <3>1. CASE q = r
      <4>1. ~call'[q][m].out
        BY <1>2, <1>3, <3>0, <3>1
      <4>2. call'[q][m].paid => m = n /\ call[r][n].paid
        BY <1>2, <1>3, <3>0, <3>1
      <4>3. call'[q][m].paid => status \in Away
        BY <1>5, <4>2 DEF Away
      <4>. QED
        BY <1>6, <3>1, <4>1, <4>2, <4>3
    <3>2. CASE q # r
      BY <1>3, <1>6, <3>2 DEF Candid, CallsFit, Status
    <3>. QED
      BY <3>1, <3>2
  <2>. QED
    BY <2>1 DEF CallsFit, Status
<1>8. SucceededPaid'
  <2>1. ASSUME NEW q \in Refunds, refund'[q].status = "SUCCEEDED" PROVE q \in PaidRefunds
    <3>1. CASE q = r
      BY <1>5, <1>6, <2>1, <3>1 DEF PaidRefunds
    <3>2. CASE q # r
      BY <1>6, <2>1, <3>2 DEF Candid, SucceededPaid, Status
    <3>. QED
      BY <3>1, <3>2
  <2>. QED
    BY <1>4, <2>1 DEF SucceededPaid, Status
<1>9. /\ \A q \in Refunds : Status(q) = "TIMEOUT" => refund'[q].status = "TIMEOUT" /\ q # r
      /\ \A m \in Sends : task[r][m] \notin ACTIVE_STATES
  BY <1>2, <1>6 DEF Candid, TasksFit, Status
<1>10. \/ UNCHANGED task
       \/ status = "TIMEOUT" /\ task' = [task EXCEPT ![r][n] = "OPEN"]
  BY <1>5, Zenon DEF RecordRefundTimeout
<1>11. TasksFit'
  <2>1. CASE UNCHANGED task
    BY <1>9, <2>1, TasksStay DEF Candid, Status
  <2>2. CASE status = "TIMEOUT" /\ task' = [task EXCEPT ![r][n] = "OPEN"]
    <3>0. PICK state : task' = [task EXCEPT ![r][n] = state]
      BY <2>2, Zenon
    <3>1. \A q \in Refunds, m \in Sends : ~(q = r /\ m = n) => task'[q][m] = task[q][m]
      BY <3>0, TaskIs
    <3>2. ASSUME NEW q \in Refunds, NEW m \in Sends, NEW k \in Sends, task'[q][m] \in ACTIVE_STATES
          PROVE  refund'[q].status = "TIMEOUT" /\ (task'[q][k] \in ACTIVE_STATES => m = k)
      <4>1. CASE q = r
        BY <1>6, <1>9, <2>2, <3>1, <3>2, <4>1
      <4>2. CASE q # r
        BY <1>9, <3>1, <3>2, <4>2 DEF Candid, TasksFit
      <4>. QED
        BY <4>1, <4>2
    <3>. QED
      BY <3>2 DEF TasksFit, Status
  <2>. QED
    BY <1>10, <2>1, <2>2
<1>12. DecisionsFit'
  <2>1. \A q \in Refunds : Status(q) = "TIMEOUT" => Status(q)' = "TIMEOUT" /\ task'[q] = task[q]
    <3>1. \A q \in Refunds \ {r} : task'[q] = task[q]
      BY <1>10, TypesAre
    <3>. QED
      BY <1>9, <3>1 DEF Status
  <2>2. Flying(Refunds)' \subseteq Flying(Refunds)
    BY <1>2, <1>6 DEF Flying, Status, IN_FLIGHT_STATES
  <2>3. \A q \in PaidRefunds : refund'[q].amount = refund[q].amount
    BY <1>6 DEF PaidRefunds
  <2>. QED
    BY <1>1, <1>4, <2>1, <2>2, <2>3, DecisionsStay DEF Candid
<1>. QED
  BY <1>7, <1>8, <1>11, <1>12 DEF Candid

LEMMA MoveCandid ==
  ASSUME TypeOK, ~disturbed => Candid, ~disturbed', NEW r \in Refunds, NEW n \in Sends,
         ClaimTask(r, n) \/ EscalateTask(r, n)
  PROVE  Candid'
<1>1. PICK to \in ACTIVE_STATES :
        /\ task[r][n] \in ACTIVE_STATES /\ task' = [task EXCEPT ![r][n] = to]
        /\ UNCHANGED <<refund, call, decision>> /\ Disturb(NoOperator)
  BY DEF ClaimTask, EscalateTask, MoveTask, ACTIVE_STATES
<1>2. Candid /\ \A op \in Operators : decision[op] = NoDecision
  BY <1>1, NobodyElse, SentinelAssumption
<1>3. PaidRefunds' = PaidRefunds
  BY <1>1, PaidStay
<1>4. CallsFit' /\ SucceededPaid'
  BY <1>1, <1>2, <1>3 DEF Candid, CallsFit, SucceededPaid, Status
<1>5. \A q \in Refunds, m \in Sends :
        task'[q][m] \in ACTIVE_STATES => task[q][m] \in ACTIVE_STATES
  BY <1>1, TaskIs
<1>6. TasksFit'
  BY <1>1, <1>2, <1>5 DEF Candid, TasksFit, Status
<1>7. DecisionsFit'
  BY <1>1, <1>2 DEF DecisionsFit
<1>. QED
  BY <1>4, <1>6, <1>7 DEF Candid

(* A step of op that writes its own decision only. *)
LEMMA Decides ==
  ASSUME TypeOK, Candid, NEW op \in Operators, NEW d, decision' = [decision EXCEPT ![op] = d],
         UNCHANGED <<refund, call, task>>, d # NoDecision => Informed(d)
  PROVE  Candid'
<1>1. PaidRefunds' = PaidRefunds /\ Flying(Refunds)' = Flying(Refunds) /\ Amounts' = Amounts
  BY DEF PaidRefunds, Flying, Status, Amounts
<1>2. CallsFit' /\ SucceededPaid' /\ TasksFit'
  BY <1>1 DEF Candid, CallsFit, SucceededPaid, TasksFit, Status
<1>3. \A other \in Operators : decision'[other] = IF other = op THEN d ELSE decision[other]
  BY TypesAre
<1>4. ASSUME NEW other \in Operators, decision'[other] # NoDecision
      PROVE  Informed(decision'[other])
  BY <1>3, <1>4 DEF Candid, DecisionsFit
<1>5. ASSUME NEW other \in Operators, decision'[other] # NoDecision
      PROVE  Informed(decision[other])'
  <2>1. Informed(decision'[other])
    BY <1>4, <1>5
  <2>. QED
    BY <1>1, <2>1 DEF Informed, Suspects, Status
<1>6. DecisionsFit'
  BY <1>5 DEF DecisionsFit
<1>. QED
  BY <1>2, <1>6 DEF Candid

LEMMA LoadCandid ==
  ASSUME TypeOK, Candid, NEW op \in Operators, NEW r \in Refunds, NEW n \in Sends,
         LoadTask(op, r, n)
  PROVE  Candid'
<1>. DEFINE others == Refunds \ {r}
            d == [refund |-> r, send |-> n, state |-> task[r][n], status |-> Status(r),
                  settled |-> AmountsOf(Succeeded \ {r}), flying |-> Flying(others),
                  verdict |-> "NONE"]
<1>1. /\ decision' = [decision EXCEPT ![op] = d] /\ task[r][n] \in ACTIVE_STATES
      /\ UNCHANGED <<refund, call, task>>
  BY DEF LoadTask
<1>2. Status(r) = "TIMEOUT"
  BY <1>1 DEF Candid, TasksFit
<1>3. Suspects(d) = Flying(others) \cup {r} /\ d.settled = AmountsOf(Succeeded \ {r})
  BY DEF Suspects
<1>4. Flying(Refunds) \subseteq Flying(others) \cup {r} /\ Flying(others) \in SUBSET Refunds
  BY DEF Flying
<1>5. PaidRefunds \ (Flying(others) \cup {r}) = Succeeded \ {r}
  <2>1. ASSUME NEW q \in PaidRefunds PROVE q \in Refunds /\ (q \in Succeeded \/ q \in Flying(Refunds))
    BY PaidAreAway DEF Candid, Succeeded, Flying, Away, IN_FLIGHT_STATES
  <2>2. \A q \in Succeeded : q \in PaidRefunds /\ q \notin Flying(others)
    BY DEF Candid, SucceededPaid, Succeeded, Flying, IN_FLIGHT_STATES
  <2>. QED
    BY <1>4, <2>1, <2>2
<1>6. AmountsOf(Succeeded \ {r}) = SumOf(Amounts, Succeeded \ {r})
  BY DEF AmountsOf, Amounts
<1>7. Informed(d)
  BY <1>1, <1>2, <1>3, <1>4, <1>5, <1>6 DEF Informed
<1>. HIDE DEF d
<1>. QED
  BY <1>1, <1>7, Decides

(* Sums over sets that correspond. *)
LEMMA SumThrough ==
  ASSUME NEW S, NEW T, NEW f, NEW g, IsCount(f, S), NEW h \in Bijection(S, T),
         \A x \in S : f[x] = g[h[x]]
  PROVE  SumOf(f, S) = SumOf(g, T)
<1>1. /\ h \in [S -> T] /\ \A x, y \in S : h[x] = h[y] => x = y
      /\ \A z \in T : \E x \in S : h[x] = z
  BY DEF Bijection, Injection, Surjection, IsInjective
<1>. DEFINE m == [u \in Units(f, S) |-> <<h[u[1]], u[2]>>]
<1>2. ASSUME NEW u \in Units(f, S)
      PROVE  u[1] \in S /\ u[2] \in 1 .. f[u[1]] /\ u = <<u[1], u[2]>>
  BY UnitsAre
<1>3. ASSUME NEW u \in Units(f, S) PROVE m[u] \in Units(g, T)
  <2>1. h[u[1]] \in T /\ u[2] \in 1 .. g[h[u[1]]]
    BY <1>1, <1>2
  <2>. QED
    BY <2>1, UnitsAre
<1>4. ASSUME NEW u \in Units(f, S), NEW v \in Units(f, S), m[u] = m[v] PROVE u = v
  <2>1. h[u[1]] = h[v[1]] /\ u[2] = v[2]
    BY <1>4
  <2>2. u[1] = v[1]
    BY <1>1, <1>2, <2>1
  <2>. QED
    BY <1>2, <2>1, <2>2, Zenon
<1>5. ASSUME NEW w \in Units(g, T) PROVE \E u \in Units(f, S) : m[u] = w
  <2>1. PICK z \in T : \E k \in 1 .. g[z] : w = <<z, k>>
    BY UnitsAre
  <2>2. PICK k \in 1 .. g[z] : w = <<z, k>>
    BY <2>1
  <2>3. PICK x \in S : h[x] = z
    BY <1>1
  <2>4. <<x, k>> \in Units(f, S)
    BY <2>2, <2>3, UnitsAre
  <2>5. m[<<x, k>>] = w
    BY <2>2, <2>3, <2>4
  <2>. QED
    BY <2>4, <2>5
<1>6. m \in Bijection(Units(f, S), Units(g, T))
  <2>1. m \in [Units(f, S) -> Units(g, T)]
    BY <1>3
  <2>. HIDE DEF m
  <2>. QED
    BY <1>4, <1>5, <2>1 DEF Bijection, Injection, Surjection, IsInjective
<1>7. IsFiniteSet(Units(f, S))
  BY SumIsNat
<1>8. ExistsBijection(Units(f, S), Units(g, T))
  BY <1>6 DEF ExistsBijection
<1>. QED
  BY <1>7, <1>8, FS_Bijection DEF SumOf

(* What the provider gave back is the amounts of the refunds it paid, each  *)
(* counted once.                                                           *)
LEMMA GivenBackIs == ASSUME TypeOK, CallsFit PROVE GivenBack = SumOf(Amounts, PaidRefunds)
<1>. DEFINE f == [c \in Refunds \X Sends |-> refund[c[1]].amount]
            h == [c \in Paid |-> c[1]]
<1>1. IsFiniteSet(Paid) /\ Paid \subseteq Refunds \X Sends
  <2>1. IsFiniteSet(Sends)
    BY FS_Interval, RefundsAssumption DEF Sends
  <2>2. IsFiniteSet(Refunds \X Sends)
    BY <2>1, FS_Product, RefundsAssumption
  <2>. QED
    BY <2>2, FS_Subset DEF Paid
<1>2. IsCount(f, Paid)
  <2>1. \A r \in Refunds : refund[r].amount \in Nat
    BY DEF TypeOK
  <2>. QED
    BY <1>1, <2>1 DEF IsCount
<1>3. \A c \in Paid : /\ c[1] \in Refunds /\ c[2] \in Sends /\ c = <<c[1], c[2]>>
                      /\ call[c[1]][c[2]].paid
  BY DEF Paid
<1>4. h \in [Paid -> PaidRefunds]
  BY <1>3 DEF PaidRefunds
<1>5. \A b, c \in Paid : h[b] = h[c] => b = c
  BY <1>3 DEF CallsFit
<1>6. \A r \in PaidRefunds : \E c \in Paid : h[c] = r
  <2>1. ASSUME NEW r \in PaidRefunds PROVE \E c \in Paid : h[c] = r
    <3>1. PICK n \in Sends : r \in Refunds /\ call[r][n].paid
      BY DEF PaidRefunds
    <3>2. <<r, n>> \in Paid
      BY <3>1 DEF Paid
    <3>. QED
      BY <3>2
  <2>. QED
    BY <2>1
<1>7. \A c \in Paid : f[c] = Amounts[h[c]]
  BY <1>1, <1>3 DEF Amounts
<1>. HIDE DEF h, f
<1>8. h \in Bijection(Paid, PaidRefunds)
  BY <1>4, <1>5, <1>6 DEF Bijection, Injection, Surjection, IsInjective
<1>9. SumOf(f, Paid) = SumOf(Amounts, PaidRefunds)
  BY <1>2, <1>7, <1>8, SumThrough
<1>. QED
  BY <1>9 DEF GivenBack, f

(* The verdict says of the refund what is true of it: what was paid among  *)
(* those that may be unanswered is one of the sets that explain the total. *)
LEMMA VerdictIsTrue ==
  ASSUME TypeOK, CallsFit, NEW d, Informed(d)
  PROVE  /\ CompareRefundEvidence(d) = "SETTLE" => d.refund \in PaidRefunds
         /\ CompareRefundEvidence(d) = "RELEASE" => d.refund \notin PaidRefunds
<1>. DEFINE all == d.flying \cup {d.refund}
            known == PaidRefunds \ all
            unanswered == PaidRefunds \cap all
            beyond == GivenBack - d.settled
<1>1. /\ PaidRefunds \in SUBSET Refunds /\ all \in SUBSET Refunds
      /\ known \in SUBSET Refunds /\ unanswered \in SUBSET all
  BY DEF PaidRefunds, Informed
<1>2. IsCount(Amounts, Refunds)
  <2>1. \A r \in Refunds : refund[r].amount \in Nat
    BY DEF TypeOK
  <2>. QED
    BY <2>1, RefundsAssumption DEF IsCount, Amounts
<1>3. IsCount(Amounts, known) /\ IsCount(Amounts, all)
  BY <1>1, <1>2, SumOfPart
<1>4. IsCount(Amounts, unanswered) /\ SumOf(Amounts, unanswered) <= SumOf(Amounts, all)
  BY <1>1, <1>3, SumOfPart
<1>5. known \cap unanswered = {} /\ PaidRefunds = known \cup unanswered
  OBVIOUS
<1>6. SumOf(Amounts, known \cup unanswered) = SumOf(Amounts, known) + SumOf(Amounts, unanswered)
  BY <1>3, <1>4, <1>5, SumOfBoth
<1>7. d.settled = SumOf(Amounts, known)
  BY DEF Informed, Suspects
<1>8. /\ SumOf(Amounts, known) \in Nat /\ SumOf(Amounts, unanswered) \in Nat
      /\ SumOf(Amounts, all) \in Nat
  BY <1>3, <1>4, SumIsNat
<1>9. GivenBack = SumOf(Amounts, known \cup unanswered)
  BY <1>5, GivenBackIs, Zenon
<1>. HIDE DEF all, known
<1>10. beyond = SumOf(Amounts, unanswered)
  <2>. HIDE DEF unanswered
  <2>. QED
    BY <1>6, <1>7, <1>8, <1>9
<1>. DEFINE explaining == {S \in SUBSET all : AmountsOf(S) = beyond}
            withThis == {S \in explaining : d.refund \in S}
            withoutThis == explaining \ withThis
<1>11. AmountsOf(unanswered) = beyond /\ AmountsOf(all) = SumOf(Amounts, all)
  BY <1>10 DEF AmountsOf, Amounts
<1>12. unanswered \in explaining /\ d.refund \in all
  BY <1>1, <1>11 DEF all
<1>13. ~(beyond > AmountsOf(all))
  <2>. HIDE DEF beyond
  <2>. QED
    BY <1>4, <1>8, <1>10, <1>11
<1>14. d.refund \in PaidRefunds <=> d.refund \in unanswered
  BY <1>12
<1>. HIDE DEF unanswered, beyond, explaining
<1>15. d.refund \in PaidRefunds => withThis # {}
  BY <1>12, <1>14
<1>16. d.refund \notin PaidRefunds => withoutThis # {}
  BY <1>12, <1>14
<1>. HIDE DEF withThis, withoutThis
<1>17. CompareRefundEvidence(d) =
         CASE withThis # {} /\ withoutThis = {} -> "SETTLE"
           [] beyond > AmountsOf(all) -> "SETTLE"
           [] withThis = {} /\ withoutThis # {} /\ GivenBack < Total -> "RELEASE"
           [] OTHER -> "CONFLICT"
  BY Zenon DEF CompareRefundEvidence, withThis, withoutThis, explaining, beyond, all
<1>. QED
  BY <1>13, <1>15, <1>16, <1>17, Zenon

LEMMA RequeryCandid ==
  ASSUME TypeOK, Candid, NEW op \in Operators, Requery(op)
  PROVE  Candid'
<1>. DEFINE d == decision[op]
            truth == CompareRefundEvidence(d)
            said == [d EXCEPT !.verdict = truth]
<1>1. Informed(d)
  BY DEF Requery, Candid, DecisionsFit
<1>2. d.status # "SUCCEEDED" /\ d \in DecisionType
  BY <1>1, TypesAre DEF Informed
<1>3. /\ decision' = [decision EXCEPT ![op] = IF truth = "CONFLICT" THEN NoDecision ELSE said]
      /\ UNCHANGED <<refund, call, task>>
  BY <1>2, Zenon DEF Requery
<1>4. /\ truth = "SETTLE" => d.refund \in PaidRefunds
      /\ truth = "RELEASE" => d.refund \notin PaidRefunds
  BY <1>1, VerdictIsTrue DEF Candid
<1>5. truth # "ALREADY_DONE"
  BY Zenon DEF CompareRefundEvidence
<1>. HIDE DEF d, truth
<1>6. /\ said.verdict = truth /\ said.refund = d.refund /\ said.send = d.send
      /\ said.status = d.status /\ said.state = d.state /\ said.flying = d.flying
      /\ said.settled = d.settled
  BY <1>2 DEF DecisionType
<1>. HIDE DEF said
<1>7. Suspects(said) = Suspects(d)
  BY <1>6 DEF Suspects
<1>8. Informed(said)
  BY <1>1, <1>4, <1>5, <1>6, <1>7 DEF Informed
<1>. QED
  BY <1>3, <1>8, Decides

LEMMA ResolveCandid ==
  ASSUME TypeOK, ~disturbed => Candid, ~disturbed', NEW op \in Operators, Resolve(op)
  PROVE  Candid'
<1>. DEFINE d == decision[op]
            r == d.refund
<1>1. Disturb(op) /\ decision' = [decision EXCEPT ![op] = NoDecision] /\ UNCHANGED call
      /\ d.verdict # "NONE"
  BY DEF Resolve
<1>2. Candid /\ \A other \in Operators \ {op} : decision[other] = NoDecision
  BY <1>1, NobodyElse
<1>3. Informed(d) /\ d \in DecisionType
  BY <1>1, <1>2, TypesAre DEF Candid, DecisionsFit, NoDecision
<1>4. /\ r \in Refunds /\ Status(r) = "TIMEOUT" /\ d.status = "TIMEOUT" /\ d.verdict # "ALREADY_DONE"
      /\ task[r][d.send] = d.state /\ d.send \in Sends /\ d.state \in ACTIVE_STATES
  BY <1>3 DEF Informed
<1>5. task' = [task EXCEPT ![r][d.send] = "RESOLVED"]
  BY <1>4, Zenon DEF Resolve, IN_FLIGHT_STATES
<1>6. PICK status \in {"SUCCEEDED", "FAILED"} :
        /\ refund' = [refund EXCEPT ![r].status = status]
        /\ status = "SUCCEEDED" => d.verdict = "SETTLE"
        /\ status = "FAILED" => d.verdict # "SETTLE"
  <2>1. "TIMEOUT" \in IN_FLIGHT_STATES
    BY DEF IN_FLIGHT_STATES
  <2>2. IF d.verdict = "SETTLE" THEN SettleRefund(r) ELSE RecordRefundFailure(r, "FAILED")
    BY <1>4, <2>1, Zenon DEF Resolve
  <2>. QED
    BY <2>2 DEF SettleRefund, RecordRefundFailure
<1>7. /\ status = "SUCCEEDED" => r \in PaidRefunds
      /\ status = "FAILED" => r \notin PaidRefunds
  <2>1. d.verdict \in {"SETTLE", "RELEASE"}
    BY <1>1, <1>3, <1>4 DEF DecisionType
  <2>. QED
    BY <1>3, <1>6, <2>1 DEF Informed
<1>. HIDE DEF r
<1>8. /\ \A q \in Refunds \ {r} : refund'[q] = refund[q]
      /\ refund'[r].status = status /\ refund'[r].attempts = refund[r].attempts
  BY <1>4, <1>6, StatusIs DEF Status
<1>9. PaidRefunds' = PaidRefunds
  BY <1>1, PaidStay
<1>10. CallsFit'
  <2>1. ASSUME NEW q \in Refunds, NEW m \in Sends
        PROVE  /\ call[q][m].out => m = refund'[q].attempts /\ refund'[q].status = "SUBMITTED"
               /\ call[q][m].paid => m = refund'[q].attempts /\ refund'[q].status \in Away
    <3>1. CASE q = r
      <4>1. ~call[q][m].out /\ (call[q][m].paid => m = refund[q].attempts)
        BY <1>2, <1>4, <3>1 DEF Candid, CallsFit
      <4>2. call[q][m].paid => status \in Away
        BY <1>7, <3>1 DEF PaidRefunds, Away
      <4>. QED
        BY <1>8, <3>1, <4>1, <4>2
    <3>2. CASE q # r
      BY <1>2, <1>8, <3>2 DEF Candid, CallsFit, Status
    <3>. QED
      BY <3>1, <3>2
  <2>. QED
    BY <1>1, <2>1 DEF CallsFit, Status
<1>11. SucceededPaid'
  <2>1. \A q \in Refunds : refund'[q].status = "SUCCEEDED" => q \in PaidRefunds
    BY <1>2, <1>7, <1>8 DEF Candid, SucceededPaid, Status
  <2>. QED
    BY <1>9, <2>1 DEF SucceededPaid, Status
<1>12. TasksFit'
  <2>0. PICK k, state : /\ state = "RESOLVED" /\ k = d.send
                        /\ task' = [task EXCEPT ![r][k] = state]
    BY <1>5, Zenon
  <2>. HIDE DEF d
  <2>1. \A q \in Refunds, m \in Sends :
          /\ q = r /\ m = k => task'[q][m] = state
          /\ ~(q = r /\ m = k) => task'[q][m] = task[q][m]
    <3>1. task \in [Refunds -> [Sends -> TaskStates]] /\ r \in Refunds
      BY <1>4, TypesAre
    <3>. QED
      BY <2>0, <3>1
  <2>2. ASSUME NEW q \in Refunds, NEW m \in Sends, NEW l \in Sends, task'[q][m] \in ACTIVE_STATES
        PROVE  refund'[q].status = "TIMEOUT" /\ (task'[q][l] \in ACTIVE_STATES => m = l)
    <3>1. CASE q = r
      <4>1. m # d.send
        BY <2>0, <2>1, <2>2, <3>1 DEF ACTIVE_STATES
      <4>2. task[r][m] \in ACTIVE_STATES /\ task[r][d.send] \in ACTIVE_STATES
        <5>1. task'[q][m] = task[q][m]
          BY <2>0, <2>1, <4>1
        <5>. QED
          BY <1>4, <2>2, <3>1, <5>1
      <4>. QED
        BY <1>2, <1>4, <4>1, <4>2 DEF Candid, TasksFit
    <3>2. CASE q # r
      BY <1>2, <1>8, <2>1, <2>2, <3>2 DEF Candid, TasksFit, Status
    <3>. QED
      BY <3>1, <3>2
  <2>. QED
    BY <2>2 DEF TasksFit, Status
<1>13. DecisionsFit'
  <2>1. \A other \in Operators : decision'[other] = NoDecision
    BY <1>1, <1>2, TypesAre
  <2>. QED
    BY <2>1 DEF DecisionsFit
<1>. QED
  BY <1>10, <1>11, <1>12, <1>13 DEF Candid

LEMMA CandidStep ==
  ASSUME IInv, TypeOK, ~disturbed => Candid, [Next]_vars
  PROVE  ~disturbed' => Candid'
<1>. SUFFICES ASSUME ~disturbed' PROVE Candid'
  OBVIOUS
<1>1. ASSUME UNCHANGED disturbed PROVE Candid
  BY <1>1
<1>2. CASE Asking
  BY <1>1, <1>2, AskingIs, AskingCandid
<1>3. ASSUME UNCHANGED <<refund, call, task, decision, disturbed>> PROVE Candid'
  <2>1. OnlyAsked
    BY <1>3 DEF OnlyAsked
  <2>. QED
    BY <1>1, <1>3, <2>1, AskingCandid
<1>4. ASSUME NEW r \in Refunds, SubmitRefund(r) PROVE Candid'
  BY <1>4, SubmitCandid
<1>5. ASSUME NEW r \in Refunds, NEW n \in Sends, NEW outcome \in Outcomes, Record(r, n, outcome)
      PROVE  Candid'
  <2>1. UNCHANGED disturbed
    BY <1>5 DEF Record
  <2>. QED
    BY <1>1, <1>5, <2>1, RecordCandid
<1>6. ASSUME NEW r \in Refunds, NEW n \in Sends, ProviderPays(r, n) \/ CallLost(r, n) PROVE Candid'
  <2>1. UNCHANGED disturbed
    BY <1>6 DEF ProviderPays, CallLost
  <2>. QED
    BY <1>1, <1>6, <2>1, CallsCandid
<1>7. ASSUME NEW r \in Refunds, NEW n \in Sends, ClaimTask(r, n) \/ EscalateTask(r, n) PROVE Candid'
  BY <1>7, MoveCandid
<1>8. ASSUME NEW r \in Refunds, NEW n \in Sends, NEW op \in Operators, LoadTask(op, r, n)
      PROVE  Candid'
  <2>1. UNCHANGED disturbed
    BY <1>8 DEF LoadTask
  <2>. QED
    BY <1>1, <1>8, <2>1, LoadCandid
<1>9. ASSUME NEW op \in Operators, Requery(op) PROVE Candid'
  <2>1. UNCHANGED disturbed
    BY <1>9, Zenon DEF Requery
  <2>. QED
    BY <1>1, <1>9, <2>1, RequeryCandid
<1>10. ASSUME NEW op \in Operators, Resolve(op) PROVE Candid'
  BY <1>10, ResolveCandid
<1>11. CASE CheckIn
  BY <1>3, <1>11 DEF CheckIn
<1>12. CASE UNCHANGED vars
  BY <1>3, <1>12 DEF vars
<1>. QED
  BY <1>2, <1>4, <1>5, <1>6, <1>7, <1>8, <1>9, <1>10, <1>11, <1>12, Kinds

LEMMA InitCandid == Init => Candid
<1>. SUFFICES ASSUME Init PROVE Candid
  OBVIOUS
<1>1. \A r \in Refunds, n \in Sends :
        ~call[r][n].out /\ ~call[r][n].paid /\ task[r][n] = "NONE"
  BY DEF Init
<1>2. \A r \in Refunds : refund[r] \in {NoRow, LegacyRow("REQUESTED"), LegacyRow("APPROVED")}
  BY DEF Init
<1>3. \A r \in Refunds : Status(r) # "SUCCEEDED"
  BY <1>2 DEF Status, NoRow, LegacyRow
<1>4. \A op \in Operators : decision[op] = NoDecision
  BY DEF Init
<1>. QED
  BY <1>1, <1>3, <1>4 DEF Candid, CallsFit, SucceededPaid, TasksFit, DecisionsFit, ACTIVE_STATES

LEMMA CandidIsTruth == ASSUME Candid, NEW r \in Refunds PROVE
  LET times == Cardinality({n \in Sends : call[r][n].paid})
  IN  /\ times <= 1
      /\ Status(r) = "SUCCEEDED" => times = 1
      /\ Status(r) \notin IN_FLIGHT_STATES \cup {"SUCCEEDED"} => times = 0
<1>. DEFINE paid == {n \in Sends : call[r][n].paid}
            times == Cardinality(paid)
<1>1. \A n \in paid : n = refund[r].attempts /\ Status(r) \in Away
  BY DEF Candid, CallsFit
<1>2. paid = {} \/ paid = {refund[r].attempts}
  BY <1>1
<1>3. Status(r) = "SUCCEEDED" => paid # {}
  BY DEF Candid, SucceededPaid, PaidRefunds
<1>4. paid # {} => Status(r) \in IN_FLIGHT_STATES \cup {"SUCCEEDED"}
  BY <1>1 DEF Away, IN_FLIGHT_STATES
<1>. HIDE DEF paid
<1>5. (paid = {} => times = 0) /\ (paid = {refund[r].attempts} => times = 1)
  BY FS_EmptySet, FS_Singleton
<1>. HIDE DEF times
<1>6. /\ times <= 1
      /\ Status(r) = "SUCCEEDED" => times = 1
      /\ Status(r) \notin IN_FLIGHT_STATES \cup {"SUCCEEDED"} => times = 0
  BY <1>2, <1>3, <1>4, <1>5
<1>. QED
  BY <1>6, Zenon DEF times, paid

(* A refund is recorded as given back only if the provider paid it, once,  *)
(* and as refused, failed, withdrawn or still to be sent only if it did    *)
(* not, whatever answers are lost, as long as nothing was sent and no task *)
(* moved while an operator was deciding.                                   *)
THEOREM OutcomesAreTrue == Spec => []TruthfulOutcomes
<1>1. Init => (~disturbed => Candid)
  BY InitCandid
<1>2. IInv /\ TypeOK /\ (~disturbed => Candid) /\ [Next]_vars => (~disturbed => Candid)'
  BY CandidStep
<1>3. (~disturbed => Candid) => TruthfulOutcomes
  BY CandidIsTruth, Zenon DEF TruthfulOutcomes
<1>. QED
  BY <1>1, <1>2, <1>3, TypedAlways, PTL DEF Spec

=============================================================================
