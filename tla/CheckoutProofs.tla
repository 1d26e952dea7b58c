--------------------------- MODULE CheckoutProofs ---------------------------
(* Theorems about module Checkout, for every number of orders, holds and   *)
(* operators and every value of its bounds.                                *)
EXTENDS CheckoutHistory, FiniteSetTheorems, TLAPS

----------------------------------------------------------------------------
(* The types.  A command shared by several actions has a lemma of its own. *)

LEMMA PromoReturnedIsNat ==
  ASSUME TypeOK, NEW S \in SUBSET Orders
  PROVE  PromoReturned(S) \in Nat
<1> DEFINE users == {o \in S : order[o].promo}
<1>1. IsFiniteSet(users)
  BY FS_Subset, CheckoutAssumption DEF CheckoutAssumption
<1>2. Cardinality(users) \in Nat
  BY <1>1, FS_CardinalityType
<1>. QED
  BY <1>2 DEF PromoReturned, TypeOK

LEMMA PaymentType ==
  ASSUME TypeOK, NEW o \in Orders, NEW status \in PaymentStatuses
  PROVE  /\ [payment EXCEPT ![o].status = status] \in [Orders -> PaymentRow]
         /\ [payment EXCEPT ![o].ref = TRUE] \in [Orders -> PaymentRow]
         /\ [payment EXCEPT ![o] = [status |-> status, ref |-> TRUE]] \in [Orders -> PaymentRow]
BY DEF TypeOK, PaymentRow

LEMMA CancelOrdersType ==
  ASSUME TypeOK, NEW S \in SUBSET Orders, CancelOrders(S)
  PROVE  order' \in [Orders -> OrderRow] /\ redemptions' \in Nat
<1>1. redemptions' \in Nat
  BY PromoReturnedIsNat DEF CancelOrders
<1>2. order' \in [Orders -> OrderRow]
  BY DEF CancelOrders, TypeOK, OrderRow, OrderStatuses
<1>. QED
  BY <1>1, <1>2

LEMMA SettleCheckoutType ==
  ASSUME TypeOK, NEW o \in Orders, SettleCheckout(o)
  PROVE  /\ order' \in [Orders -> OrderRow] /\ tickets' \in [Orders -> Nat]
         /\ sold' \in Nat /\ hold' \in [Holds -> HoldRow]
         /\ payment' \in [Orders -> PaymentRow] /\ ledger' \in [Orders -> SUBSET Batches]
<1>1. CASE order[o].status # "PENDING"
  BY <1>1 DEF SettleCheckout, TypeOK
<1>2. CASE order[o].status = "PENDING"
  <2>1. order' \in [Orders -> OrderRow]
    BY <1>2 DEF SettleCheckout, TypeOK, OrderRow, OrderStatuses
  <2>2. order[o].qty \in Nat
    BY CheckoutAssumption DEF CheckoutAssumption, TypeOK, OrderRow, Quantities
  <2>3. tickets' \in [Orders -> Nat] /\ sold' \in Nat
    BY <1>2, <2>2 DEF SettleCheckout, TypeOK
  <2>4. hold' \in [Holds -> HoldRow]
    <3>1. hold' = [h \in Holds |->
                     IF Active(h) /\ hold[h].order = o
                       THEN [hold[h] EXCEPT !.status = "CONVERTED"] ELSE hold[h]]
      BY <1>2 DEF SettleCheckout
    <3>. QED
      BY <3>1 DEF TypeOK, HoldRow, HoldStatuses
  <2>5. payment' \in [Orders -> PaymentRow]
    <3>1. \/ UNCHANGED payment
          \/ payment' = [payment EXCEPT ![o] = [status |-> "SUCCEEDED", ref |-> TRUE]]
      BY <1>2 DEF SettleCheckout
    <3>2. "SUCCEEDED" \in PaymentStatuses
      BY DEF PaymentStatuses
    <3>3. [payment EXCEPT ![o] = [status |-> "SUCCEEDED", ref |-> TRUE]] \in [Orders -> PaymentRow]
      BY <3>2, PaymentType
    <3>4. payment \in [Orders -> PaymentRow]
      BY DEF TypeOK
    <3>. QED
      BY <3>1, <3>3, <3>4
  <2>6. ledger' \in [Orders -> SUBSET Batches]
    <3>1. UNCHANGED ledger \/ ledger' = [ledger EXCEPT ![o] = @ \cup {"ORDER_PAID"}]
      BY <1>2 DEF SettleCheckout
    <3>. QED
      BY <3>1 DEF TypeOK, Batches
  <2>. QED
    BY <2>1, <2>3, <2>4, <2>5, <2>6
<1>. QED
  BY <1>1, <1>2

LEMMA CompensateCheckoutType ==
  ASSUME TypeOK, NEW o \in Orders, CompensateCheckout(o)
  PROVE  /\ order' \in [Orders -> OrderRow] /\ redemptions' \in Nat
         /\ payment' \in [Orders -> PaymentRow]
<1>1. CASE order[o].status # "PENDING"
  BY <1>1 DEF CompensateCheckout, TypeOK
<1>2. CASE order[o].status = "PENDING"
  <2>1. CancelOrders({o}) /\ payment' = [payment EXCEPT ![o].status = "FAILED"]
    BY <1>2 DEF CompensateCheckout
  <2>2. order' \in [Orders -> OrderRow] /\ redemptions' \in Nat
    BY <2>1, CancelOrdersType
  <2>3. payment' \in [Orders -> PaymentRow]
    BY <2>1 DEF TypeOK, PaymentRow, PaymentStatuses
  <2>. QED
    BY <2>2, <2>3
<1>. QED
  BY <1>1, <1>2

LEMMA OpenTaskType ==
  ASSUME TypeOK, NEW o \in Orders, NEW kind \in TaskKinds, OpenTask(o, kind)
  PROVE  tasks' \in [Orders -> SUBSET TaskKinds]
BY DEF TypeOK, OpenTask

LEMMA FreshHoldType ==
  ASSUME NEW o \in Orders \cup {NoOrder}, NEW q \in Quantities, NEW t \in Instants
  PROVE  FreshHold(o, q, t) \in HoldRow
BY CheckoutAssumption DEF CheckoutAssumption, FreshHold, HoldRow, HoldStatuses, Instants, Quantities

LEMMA BuyerType == ASSUME TypeOK, Buyer PROVE TypeOK'
<1> PICK t \in RequestInstants :
      \/ \E h \in Holds : (\E q \in Quantities : CreateHold(h, q, t)) \/ ReleaseHold(h, t)
      \/ \E o \in Orders, named \in SUBSET Holds, q \in Quantities, promo, free \in BOOLEAN :
           Begin(o, named, q, promo, free, t)
  BY DEF Buyer
<1>0. t \in Instants
  BY DEF RequestInstants
<1>1. ASSUME NEW h \in Holds, NEW q \in Quantities, CreateHold(h, q, t) PROVE TypeOK'
  <2>1. FreshHold(NoOrder, q, t) \in HoldRow
    BY <1>0, FreshHoldType
  <2>. QED
    BY <1>1, <2>1 DEF CreateHold, TypeOK
<1>2. ASSUME NEW h \in Holds, ReleaseHold(h, t) PROVE TypeOK'
  BY <1>2 DEF ReleaseHold, TypeOK, HoldRow, HoldStatuses
<1>3. ASSUME NEW o \in Orders, NEW named \in SUBSET Holds, NEW q \in Quantities,
             NEW promo \in BOOLEAN, NEW free \in BOOLEAN, Begin(o, named, q, promo, free, t)
      PROVE  TypeOK'
  <2>1. PICK topUp \in SUBSET {h \in Holds : hold[h].status = "NONE"}, unheld \in 0 .. MaxQty :
          /\ Cardinality(topUp) = IF unheld > 0 THEN 1 ELSE 0
          /\ hold' = [h \in Holds |->
                        IF h \in named THEN [hold[h] EXCEPT !.order = o]
                        ELSE IF h \in topUp THEN FreshHold(o, unheld, t)
                        ELSE hold[h]]
    BY <1>3 DEF Begin
  <2>2. ASSUME NEW h \in topUp PROVE FreshHold(o, unheld, t) \in HoldRow
    <3>1. topUp # {} /\ IsFiniteSet(topUp)
      BY FS_Subset, CheckoutAssumption DEF CheckoutAssumption
    <3>2. Cardinality(topUp) # 0
      BY <3>1, FS_EmptySet
    <3>3. unheld \in Quantities
      BY <2>1, <3>2, CheckoutAssumption DEF CheckoutAssumption, Quantities
    <3>. QED
      BY <1>0, <3>3, FreshHoldType
  <2>3. ASSUME NEW h \in Holds PROVE [hold[h] EXCEPT !.order = o] \in HoldRow
    BY DEF TypeOK, HoldRow
  <2>4. hold' \in [Holds -> HoldRow]
    BY <2>1, <2>2, <2>3 DEF TypeOK
  <2>5. order' \in [Orders -> OrderRow]
    BY <1>3 DEF Begin, TypeOK, OrderRow, OrderStatuses
  <2>6. redemptions' \in Nat
    BY <1>3 DEF Begin, TypeOK
  <2>7. payment' \in [Orders -> PaymentRow]
    <3>1. UNCHANGED payment \/ payment' = [payment EXCEPT ![o].status = "INITIATED"]
      BY <1>3 DEF Begin
    <3>2. "INITIATED" \in PaymentStatuses
      BY DEF PaymentStatuses
    <3>3. [payment EXCEPT ![o].status = "INITIATED"] \in [Orders -> PaymentRow]
      BY <3>2, PaymentType
    <3>4. payment \in [Orders -> PaymentRow]
      BY DEF TypeOK
    <3>. QED
      BY <3>1, <3>3, <3>4
  <2>8. request' \in [Orders -> {"IDLE", "LOST"} \cup Running \cup Answers]
    BY <1>3 DEF Begin, TypeOK, Running
  <2>. QED
    BY <1>3, <2>4, <2>5, <2>6, <2>7, <2>8 DEF Begin, TypeOK
<1>. QED
  BY <1>1, <1>2, <1>3

LEMMA RequestType == ASSUME TypeOK, NEW o \in Orders, Request(o) PROVE TypeOK'
<1>1. CASE CreateIntent(o)
  BY <1>1 DEF CreateIntent, TypeOK, rows
<1>2. ASSUME NEW answer \in {"CAPTURED", "DECLINED", "TIMED_OUT"}, CaptureAnswered(o, answer)
      PROVE  TypeOK'
  BY <1>2 DEF CaptureAnswered, TypeOK, rows, Running
<1>3. CASE Settle(o)
  BY <1>3, SettleCheckoutType DEF Settle, TypeOK, Answers
<1>4. CASE SettleRefused(o)
  BY <1>4 DEF SettleRefused, TypeOK, rows, Running
<1>5. CASE Compensate(o)
  BY <1>5, CompensateCheckoutType DEF Compensate, TypeOK, Answers
<1>6. ASSUME NEW known \in RefKnown, RecordTimeout(o, known) PROVE TypeOK'
  <2>1. tasks' \in [Orders -> SUBSET TaskKinds]
    BY <1>6, OpenTaskType DEF RecordTimeout, TaskKinds
  <2>2. payment' \in [Orders -> PaymentRow]
    BY <1>6, CheckoutAssumption DEF CheckoutAssumption, RecordTimeout, TypeOK, PaymentRow, PaymentStatuses
  <2>. QED
    BY <1>6, <2>1, <2>2 DEF RecordTimeout, TypeOK, Answers
<1>7. CASE RecordUnsettled(o)
  <2>1. request' \in [Orders -> {"IDLE", "LOST"} \cup Running \cup Answers]
    BY <1>7 DEF RecordUnsettled, TypeOK, Answers
  <2>2. order' \in [Orders -> OrderRow] /\ redemptions' \in Nat
    BY <1>7, CancelOrdersType DEF RecordUnsettled, TypeOK
  <2>3. /\ UNCHANGED payment \/ payment' = [payment EXCEPT ![o].ref = TRUE]
        /\ (OpenTask(o, "PROVIDER_MISMATCH") \/ UNCHANGED tasks)
    BY <1>7 DEF RecordUnsettled
  <2>4. payment' \in [Orders -> PaymentRow] /\ tasks' \in [Orders -> SUBSET TaskKinds]
    <3>1. "INITIATED" \in PaymentStatuses /\ "PROVIDER_MISMATCH" \in TaskKinds
      BY DEF PaymentStatuses, TaskKinds
    <3>. QED
      BY <2>3, <3>1, PaymentType, OpenTaskType DEF TypeOK
  <2>. QED
    BY <1>7, <2>1, <2>2, <2>4 DEF RecordUnsettled, TypeOK
<1>. QED
  BY <1>1, <1>2, <1>3, <1>4, <1>5, <1>6, <1>7 DEF Request

LEMMA ProviderType == ASSUME TypeOK, NEW o \in Orders, Provider(o) PROVE TypeOK'
<1>1. ASSUME NEW outcome \in {"SUCCEEDED", "FAILED"}, NEW news, ProviderDecides(o, outcome, news)
      PROVE  TypeOK'
  BY <1>1 DEF ProviderDecides, TypeOK, rows
<1>2. ASSUME NEW news, ProviderReports(o, news) PROVE TypeOK'
  BY <1>2 DEF ProviderReports, TypeOK, rows
<1>. QED
  BY <1>1, <1>2 DEF Provider

LEMMA WebhookType ==
  ASSUME TypeOK, NEW o \in Orders, NEW type \in EventTypes, Webhook(o, type)
  PROVE  TypeOK'
<1>2. /\ order' \in [Orders -> OrderRow] /\ payment' \in [Orders -> PaymentRow]
      /\ ledger' \in [Orders -> SUBSET Batches] /\ tasks' \in [Orders -> SUBSET TaskKinds]
  <2>1. CASE ~payment[o].ref
    BY <2>1, OpenTaskType DEF Webhook, TypeOK, TaskKinds
  <2>0. CASE OpenTask(o, "PROVIDER_MISMATCH") /\ UNCHANGED <<order, payment, ledger>>
    BY <2>0, OpenTaskType DEF TypeOK, TaskKinds
  <2>2. CASE type = "succeeded" /\ ApplyPaymentSucceeded(o)
    <3>1. ApplyPaymentSucceeded(o)
      BY <2>2
    <3>2. payment' \in [Orders -> PaymentRow]
      BY <3>1 DEF ApplyPaymentSucceeded, TypeOK, PaymentRow, PaymentStatuses
    <3>3. CASE order[o].status = "PENDING"
      BY <3>1, <3>2, <3>3 DEF ApplyPaymentSucceeded, TypeOK, OrderRow, OrderStatuses
    <3>4. CASE order[o].status # "PENDING"
      BY <3>1, <3>2, <3>4, OpenTaskType DEF ApplyPaymentSucceeded, TypeOK, TaskKinds, Batches
    <3>. QED
      BY <3>3, <3>4
  <2>3. CASE type = "failed" /\ ApplyPaymentFailed(o)
    <3>1. ApplyPaymentFailed(o)
      BY <2>3
    <3>. QED
      BY <3>1, PaymentType DEF ApplyPaymentFailed, TypeOK, PaymentStatuses
  <2>4. CASE type = "canceled" /\ ApplyPaymentCancelled(o)
    <3>1. ApplyPaymentCancelled(o)
      BY <2>4
    <3>. QED
      BY <3>1, PaymentType DEF ApplyPaymentCancelled, TypeOK, PaymentStatuses
  <2>5. CASE type = "processing" /\ ApplyPaymentPending(o)
    <3>1. ApplyPaymentPending(o)
      BY <2>5
    <3>. QED
      BY <3>1, PaymentType DEF ApplyPaymentPending, TypeOK, PaymentStatuses
  <2>. QED
    BY <2>0, <2>1, <2>2, <2>3, <2>4, <2>5 DEF Webhook
<1>. QED
  BY <1>2 DEF Webhook, TypeOK

LEMMA CallbackType == ASSUME TypeOK, NEW o \in Orders, Callback(o) PROVE TypeOK'
BY SettleCheckoutType, CompensateCheckoutType DEF Callback, TypeOK

LEMMA OperatorType == ASSUME TypeOK, NEW op \in Operators, Operator(op) PROVE TypeOK'
<1>1. ASSUME NEW o \in Orders, NEW kind \in TaskKinds, Requery(op, o, kind) PROVE TypeOK'
  BY <1>1 DEF Requery, TypeOK, rows, Decision, CompareEvidence, Verdicts
<1>2. CASE Resolve(op)
  <2> DEFINE d == decision[op]
  <2>1. d \in Decision
    BY <1>2 DEF Resolve, TypeOK
  <2>2. d.order \in Orders /\ d.verdict \in Verdicts
    BY <2>1 DEF Decision
  <2>3. decision' \in [Operators -> Decision \cup {NoDecision}]
    BY <1>2 DEF Resolve, TypeOK
  <2>4. tasks' \in [Orders -> SUBSET TaskKinds]
    BY <1>2, <2>2 DEF Resolve, TypeOK
  <2>5. CASE d.verdict = "SETTLE"
    <3>1. SettleCheckout(d.order) /\ UNCHANGED redemptions
      BY <1>2, <2>5 DEF Resolve
    <3>. QED
      BY <1>2, <2>2, <2>3, <2>4, <3>1, SettleCheckoutType DEF Resolve, TypeOK
  <2>6. CASE d.verdict = "RELEASE"
    <3>1. CompensateCheckout(d.order) /\ UNCHANGED <<hold, tickets, sold, ledger>>
      BY <1>2, <2>6 DEF Resolve
    <3>. QED
      BY <1>2, <2>2, <2>3, <2>4, <3>1, CompensateCheckoutType DEF Resolve, TypeOK
  <2>7. CASE d.verdict = "ALREADY_DONE"
    <3>1. UNCHANGED <<hold, order, payment, tickets, sold, redemptions, ledger>>
      BY <1>2, <2>7 DEF Resolve
    <3>. QED
      BY <1>2, <2>3, <2>4, <3>1 DEF Resolve, TypeOK
  <2>. QED
    BY <2>2, <2>5, <2>6, <2>7 DEF Verdicts
<1>. QED
  BY <1>1, <1>2 DEF Operator

LEMMA WorkerType == ASSUME TypeOK, Worker PROVE TypeOK'
<1>1. CASE SweepRead
  BY <1>1 DEF SweepRead, TypeOK, rows
<1>2. CASE SweepWrite
  BY <1>2 DEF SweepWrite, TypeOK, HoldRow, HoldStatuses
<1>3. ASSUME NEW o \in Orders, IssueTickets(o) PROVE TypeOK'
  <2>1. order[o].qty \in Nat
    BY CheckoutAssumption DEF CheckoutAssumption, TypeOK, OrderRow, Quantities
  <2>. QED
    BY <1>3, <2>1 DEF IssueTickets, TypeOK
<1>. QED
  BY <1>1, <1>2, <1>3 DEF Worker

LEMMA DeletionType == ASSUME TypeOK, DecideDeletion \/ DeleteEvent PROVE TypeOK'
<1>1. CASE DecideDeletion
  BY <1>1 DEF DecideDeletion, TypeOK, EventStates
<1>2. CASE DeleteEvent
  <2>1. order' \in [Orders -> OrderRow] /\ redemptions' \in Nat
    BY <1>2, CancelOrdersType DEF DeleteEvent, Unpaid
  <2>2. hold' \in [Holds -> HoldRow]
    BY <1>2 DEF DeleteEvent, TypeOK, HoldRow, HoldStatuses
  <2>. QED
    BY <1>2, <2>1, <2>2 DEF DeleteEvent, TypeOK, EventStates
<1>. QED
  BY <1>1, <1>2

LEMMA TypeStep == ASSUME TypeOK, [Next]_vars PROVE TypeOK'
<1>1. ASSUME NEW o \in Orders, RequestLost(o) PROVE TypeOK'
  BY <1>1 DEF RequestLost, TypeOK, rows
<1>2. CASE Tick
  BY <1>2, CheckoutAssumption DEF CheckoutAssumption, Tick, TypeOK, rows, Instants
<1>3. CASE UNCHANGED vars
  BY <1>3 DEF vars, rows, TypeOK
<1>. QED
  BY <1>1, <1>2, <1>3, BuyerType, RequestType, ProviderType, WebhookType, CallbackType,
     OperatorType, WorkerType, DeletionType DEF Next

LEMMA InitTyped == Init => TypeOK
BY CheckoutAssumption DEF CheckoutAssumption, Init, TypeOK, HoldRow, HoldStatuses, OrderRow,
   OrderStatuses, PaymentRow, PaymentStatuses, Quantities, Instants, EventStates

(* Every variable keeps its type: in particular the counts that are given   *)
(* back (a promo code's uses) never go below zero.                         *)
THEOREM Typed == Spec => []TypeOK
<1>1. Init => TypeOK
  BY InitTyped
<1>2. TypeOK /\ [Next]_vars => TypeOK'
  BY TypeStep
<1>. QED
  BY <1>1, <1>2, PTL DEF Spec

----------------------------------------------------------------------------
(* One order against its payment, its books, its tickets and its request.  *)
(* The request is what makes the invariant inductive: until it has         *)
(* answered, nobody who could move an open order's payment knows of it but *)
(* the callback, and that closes the order.                                *)

(* No webhook finds the payment. *)
Unknown(o) == payment[o].status \in {"NONE", "INITIATED"} /\ ~payment[o].ref

RequestFits(o) ==
  /\ order[o].status = "NONE" <=> request[o] = "IDLE"
  /\ request[o] \in Running \cup {"IDLE"} /\ order[o].status \in {"NONE", "PENDING"} => Unknown(o)
  /\ request[o] = "TIMED_OUT" => HasPayment(o)

UnsettledFits(o) ==
  /\ payment[o].ref => HasPayment(o)
  /\ order[o].status = "NONE" => payment[o].status = "NONE"
  /\ order[o].status \in {"NONE", "PENDING"} =>
       tickets[o] = 0 /\ ledger[o] = {} /\ ~Settled(o)

PaidFits(o) ==
  order[o].status = "PAID" =>
    /\ tickets[o] <= order[o].qty
    /\ Fulfilled(o) => tickets[o] = order[o].qty
    /\ "ORDER_PAID" \in ledger[o] => HasPayment(o)

CancelledFits(o) ==
  order[o].status = "CANCELLED" => tickets[o] = 0 /\ "ORDER_PAID" \notin ledger[o]

BooksFit(o) == UnsettledFits(o) /\ PaidFits(o) /\ CancelledFits(o)

IInv == TypeOK /\ \A o \in Orders : RequestFits(o) /\ BooksFit(o)

(* What no step touches stays as it was. *)
LEMMA BooksUntouched ==
  ASSUME NEW o \in Orders, BooksFit(o),
         order'[o] = order[o], payment'[o] = payment[o],
         tickets'[o] = tickets[o], ledger'[o] = ledger[o]
  PROVE  BooksFit(o)'
BY DEF BooksFit, UnsettledFits, PaidFits, CancelledFits, HasPayment, Settled, Fulfilled

LEMMA RequestUntouched ==
  ASSUME NEW o \in Orders, RequestFits(o),
         order'[o].status = order[o].status, payment'[o] = payment[o], request'[o] = request[o]
  PROVE  RequestFits(o)'
BY DEF RequestFits, Unknown, HasPayment

LEMMA AnsweredFits ==
  ASSUME NEW o \in Orders, request'[o] \notin Running \cup {"IDLE"}, order'[o].status # "NONE"
  PROVE  RequestFits(o)'
BY DEF RequestFits, Running

LEMMA Settles ==
  ASSUME TypeOK, NEW o \in Orders, order[o].status = "PENDING", SettleCheckout(o)
  PROVE  /\ order'[o].status = "PAID"
         /\ HasPayment(o) => /\ payment'[o] = [status |-> "SUCCEEDED", ref |-> TRUE]
                             /\ ledger'[o] = ledger[o] \cup {"ORDER_PAID"}
         /\ ~HasPayment(o) => payment'[o] = payment[o] /\ ledger'[o] = ledger[o]
         /\ \A p \in Orders \ {o} :
              order'[p] = order[p] /\ payment'[p] = payment[p] /\ ledger'[p] = ledger[p]
<1>1. order' = [order EXCEPT ![o].status = "PAID"]
  BY DEF SettleCheckout
<1>2. IF HasPayment(o)
        THEN /\ payment' = [payment EXCEPT ![o] = [status |-> "SUCCEEDED", ref |-> TRUE]]
             /\ ledger' = [ledger EXCEPT ![o] = @ \cup {"ORDER_PAID"}]
        ELSE UNCHANGED <<payment, ledger>>
  BY DEF SettleCheckout
<1>3. order'[o].status = "PAID" /\ \A p \in Orders \ {o} : order'[p] = order[p]
  BY <1>1 DEF TypeOK, OrderRow
<1>. QED
  BY <1>2, <1>3 DEF TypeOK

LEMMA Compensates ==
  ASSUME TypeOK, NEW o \in Orders, order[o].status = "PENDING", CompensateCheckout(o)
  PROVE  /\ order'[o].status = "CANCELLED"
         /\ payment'[o].status = "FAILED" /\ payment'[o].ref = payment[o].ref
         /\ \A p \in Orders \ {o} : order'[p] = order[p] /\ payment'[p] = payment[p]
<1>1. CancelOrders({o}) /\ payment' = [payment EXCEPT ![o].status = "FAILED"]
  BY DEF CompensateCheckout
<1>2. order' = [q \in Orders |->
                  IF q \in {o} THEN [order[q] EXCEPT !.status = "CANCELLED"] ELSE order[q]]
  BY <1>1 DEF CancelOrders
<1>3. order'[o].status = "CANCELLED" /\ \A p \in Orders \ {o} : order'[p] = order[p]
  BY <1>2 DEF TypeOK, OrderRow
<1>. QED
  BY <1>1, <1>3 DEF TypeOK, PaymentRow

(* Whoever closes an order, it is closed, and a payment stays a payment. *)
LEMMA Closes ==
  ASSUME TypeOK, NEW o \in Orders, order[o].status = "PENDING",
         SettleCheckout(o) \/ CompensateCheckout(o)
  PROVE  order'[o].status \in {"PAID", "CANCELLED"} /\ (HasPayment(o) => HasPayment(o)')
BY Settles, Compensates DEF HasPayment

LEMMA SettleCheckoutFits ==
  ASSUME IInv, NEW o \in Orders, SettleCheckout(o), NEW p \in Orders
  PROVE  /\ BooksFit(p)'
         /\ order'[p].status = "NONE" <=> order[p].status = "NONE"
         /\ p # o => order'[p] = order[p] /\ payment'[p] = payment[p]
<1>. USE DEF IInv
<1>1. CASE order[o].status # "PENDING"
  BY <1>1, BooksUntouched DEF SettleCheckout
<1>2. CASE order[o].status = "PENDING"
  <2>1. /\ order' = [order EXCEPT ![o].status = "PAID"]
        /\ tickets' = [tickets EXCEPT ![o] = @ + order[o].qty]
    BY <1>2 DEF SettleCheckout
  <2>2. IF HasPayment(o)
          THEN /\ payment' = [payment EXCEPT ![o] = [status |-> "SUCCEEDED", ref |-> TRUE]]
               /\ ledger' = [ledger EXCEPT ![o] = @ \cup {"ORDER_PAID"}]
          ELSE UNCHANGED <<payment, ledger>>
    BY <1>2 DEF SettleCheckout
  <2>3. CASE p # o
    <3>1. order'[p] = order[p] /\ tickets'[p] = tickets[p]
      BY <2>1, <2>3 DEF TypeOK
    <3>2. payment'[p] = payment[p] /\ ledger'[p] = ledger[p]
      BY <2>2, <2>3 DEF TypeOK
    <3>. QED
      BY <2>3, <3>1, <3>2, BooksUntouched
  <2>4. CASE p = o
    <3>1. BooksFit(o) /\ order[o].qty \in Nat
      BY CheckoutAssumption DEF CheckoutAssumption, TypeOK, OrderRow, Quantities
    <3>2. /\ order'[o].status = "PAID" /\ order'[o].qty = order[o].qty
          /\ tickets'[o] = order[o].qty
      BY <1>2, <2>1, <3>1 DEF TypeOK, OrderRow, BooksFit, UnsettledFits
    <3>3. CASE HasPayment(o)
      <4>1. /\ payment'[o] = [status |-> "SUCCEEDED", ref |-> TRUE]
            /\ ledger'[o] = {"ORDER_PAID"}
        BY <1>2, <2>2, <3>1, <3>3 DEF TypeOK, BooksFit, UnsettledFits
      <4>. QED
        BY <1>2, <2>4, <3>1, <3>2, <4>1
        DEF BooksFit, UnsettledFits, PaidFits, CancelledFits, HasPayment, Settled, Fulfilled
    <3>4. CASE ~HasPayment(o)
      <4>1. payment'[o] = payment[o] /\ ledger'[o] = {}
        BY <1>2, <2>2, <3>1, <3>4 DEF BooksFit, UnsettledFits
      <4>. QED
        BY <1>2, <2>4, <3>1, <3>2, <3>4, <4>1
        DEF BooksFit, UnsettledFits, PaidFits, CancelledFits, HasPayment, Settled, Fulfilled
    <3>. QED
      BY <3>3, <3>4
  <2>. QED
    BY <2>3, <2>4
<1>. QED
  BY <1>1, <1>2

LEMMA CancelOrdersFits ==
  ASSUME IInv, NEW S \in SUBSET {o \in Orders : order[o].status = "PENDING"}, CancelOrders(S),
         UNCHANGED <<tickets, ledger>>, NEW p \in Orders,
         p \notin S => payment'[p] = payment[p],
         p \in S => payment'[p].status # "SUCCEEDED" /\ payment'[p].ref = payment[p].ref
                    /\ (HasPayment(p) => payment'[p].status # "NONE")
  PROVE  /\ BooksFit(p)'
         /\ order'[p].status = IF p \in S THEN "CANCELLED" ELSE order[p].status
<1>. USE DEF IInv
<1>1. order' = [o \in Orders |->
                  IF o \in S THEN [order[o] EXCEPT !.status = "CANCELLED"] ELSE order[o]]
  BY DEF CancelOrders
<1>2. CASE p \notin S
  <2>1. order'[p] = order[p]
    BY <1>1, <1>2
  <2>. QED
    BY <1>2, <2>1, BooksUntouched
<1>3. CASE p \in S
  <2>1. order'[p].status = "CANCELLED"
    BY <1>1, <1>3 DEF TypeOK, OrderRow
  <2>2. order[p].status = "PENDING" /\ tickets'[p] = 0 /\ ledger'[p] = {} /\ BooksFit(p)
    BY <1>3 DEF BooksFit, UnsettledFits
  <2>. QED
    BY <1>3, <2>1, <2>2
    DEF BooksFit, UnsettledFits, PaidFits, CancelledFits, HasPayment, Settled, Fulfilled
<1>. QED
  BY <1>2, <1>3

LEMMA CompensateCheckoutFits ==
  ASSUME IInv, NEW o \in Orders, CompensateCheckout(o), UNCHANGED <<tickets, ledger>>,
         NEW p \in Orders
  PROVE  /\ BooksFit(p)'
         /\ order'[p].status = "NONE" <=> order[p].status = "NONE"
         /\ p # o => order'[p].status = order[p].status /\ payment'[p] = payment[p]
<1>. USE DEF IInv
<1>1. CASE order[o].status # "PENDING"
  BY <1>1, BooksUntouched DEF CompensateCheckout
<1>2. CASE order[o].status = "PENDING"
  <2>1. CancelOrders({o}) /\ payment' = [payment EXCEPT ![o].status = "FAILED"]
    BY <1>2 DEF CompensateCheckout
  <2>2. /\ p # o => payment'[p] = payment[p]
        /\ payment'[o].status = "FAILED" /\ payment'[o].ref = payment[o].ref
    BY <2>1 DEF TypeOK, PaymentRow
  <2>3. /\ BooksFit(p)'
        /\ order'[p].status = IF p \in {o} THEN "CANCELLED" ELSE order[p].status
    BY <1>2, <2>1, <2>2, CancelOrdersFits
  <2>. QED
    BY <1>2, <2>2, <2>3
<1>. QED
  BY <1>1, <1>2

Fit == \A o \in Orders : RequestFits(o) /\ BooksFit(o)

LEMMA BuyerFits == ASSUME IInv, Buyer PROVE Fit'
<1>. USE DEF IInv
<1>1. PICK t \in RequestInstants :
        \/ \E h \in Holds : (\E q \in Quantities : CreateHold(h, q, t)) \/ ReleaseHold(h, t)
        \/ \E o \in Orders, named \in SUBSET Holds, q \in Quantities, promo, free \in BOOLEAN :
             Begin(o, named, q, promo, free, t)
  BY DEF Buyer
<1>2. ASSUME NEW h \in Holds, NEW q \in Quantities, CreateHold(h, q, t) PROVE Fit'
  BY <1>2, BooksUntouched, RequestUntouched DEF CreateHold, Fit
<1>3. ASSUME NEW h \in Holds, ReleaseHold(h, t) PROVE Fit'
  BY <1>3, BooksUntouched, RequestUntouched DEF ReleaseHold, Fit
<1>4. ASSUME NEW o \in Orders, NEW named \in SUBSET Holds, NEW q \in Quantities,
             NEW promo \in BOOLEAN, NEW free \in BOOLEAN, Begin(o, named, q, promo, free, t),
             NEW p \in Orders
      PROVE  RequestFits(p)' /\ BooksFit(p)'
  <2>1. /\ order' = [order EXCEPT ![o] = [status |-> "PENDING", qty |-> q, promo |-> promo]]
        /\ request' = [request EXCEPT ![o] = "BEGUN"]
        /\ UNCHANGED <<tickets, ledger, tasks, decision>>
        /\ order[o].status = "NONE" /\ request[o] = "IDLE"
    BY <1>4 DEF Begin
  <2>2. UNCHANGED payment \/ payment' = [payment EXCEPT ![o].status = "INITIATED"]
    BY <1>4 DEF Begin
  <2>3. CASE p # o
    <3>1. order'[p] = order[p] /\ request'[p] = request[p] /\ payment'[p] = payment[p]
      BY <2>1, <2>2, <2>3 DEF TypeOK
    <3>. QED
      BY <2>1, <3>1, BooksUntouched, RequestUntouched
  <2>4. CASE p = o
    <3>1. RequestFits(o) /\ BooksFit(o)
      OBVIOUS
    <3>2. order'[o].status = "PENDING" /\ request'[o] = "BEGUN"
      BY <2>1 DEF TypeOK
    <3>3. payment'[o].status \in {"NONE", "INITIATED"} /\ payment'[o].ref = payment[o].ref
      BY <2>1, <2>2, <3>1 DEF TypeOK, PaymentRow, BooksFit, UnsettledFits
    <3>4. RequestFits(o)'
      BY <2>1, <3>1, <3>2, <3>3 DEF RequestFits, Unknown, Running, HasPayment
    <3>5. BooksFit(o)'
      BY <2>1, <3>1, <3>2, <3>3
      DEF RequestFits, Unknown, BooksFit, UnsettledFits, PaidFits, CancelledFits, HasPayment, Settled
    <3>. QED
      BY <2>4, <3>4, <3>5
  <2>. QED
    BY <2>3, <2>4
<1>. QED
  BY <1>1, <1>2, <1>3, <1>4 DEF Fit

LEMMA RequestStepFits ==
  ASSUME IInv, NEW o \in Orders, Request(o) \/ RequestLost(o)
  PROVE  Fit'
<1>. USE DEF IInv
<1>0. RequestFits(o) /\ BooksFit(o)
  OBVIOUS
<1> DEFINE Others(p) == /\ request'[p] = request[p]
                        /\ order'[p].status = order[p].status /\ payment'[p] = payment[p]
<1>1. ASSUME RequestFits(o)',
             NEW p \in Orders, p # o => Others(p), BooksFit(p)'
      PROVE  RequestFits(p)' /\ BooksFit(p)'
  BY <1>1, RequestUntouched
<1>2. CASE CreateIntent(o)
  BY <1>2, BooksUntouched, RequestUntouched DEF CreateIntent, rows, Fit
<1>3. ASSUME NEW answer \in {"CAPTURED", "DECLINED", "TIMED_OUT"}, CaptureAnswered(o, answer),
             NEW p \in Orders
      PROVE  RequestFits(p)' /\ BooksFit(p)'
  <2>1. BooksFit(p)'
    BY <1>3, BooksUntouched DEF CaptureAnswered, rows
  <2>2. p # o => Others(p)
    BY <1>3 DEF CaptureAnswered, rows, TypeOK
  <2>3. request'[o] = answer
    BY <1>3 DEF CaptureAnswered, TypeOK
  <2>4. RequestFits(o)'
    BY <1>0, <1>3, <2>3 DEF CaptureAnswered, rows, RequestFits, Unknown, HasPayment, Running
  <2>. QED
    BY <1>1, <1>3, <2>1, <2>2, <2>4 DEF CaptureAnswered
<1>4. ASSUME Settle(o), NEW p \in Orders PROVE RequestFits(p)' /\ BooksFit(p)'
  <2>1. /\ BooksFit(p)'
        /\ order'[o].status = "NONE" <=> order[o].status = "NONE"
        /\ p # o => order'[p] = order[p] /\ payment'[p] = payment[p]
    BY <1>4, SettleCheckoutFits DEF Settle
  <2>2. p # o => Others(p)
    BY <1>4, <2>1 DEF Settle, TypeOK
  <2>3. request[o] = "CAPTURED" /\ request'[o] = "201"
    BY <1>4 DEF Settle, TypeOK
  <2>4. RequestFits(o)'
    BY <1>0, <2>1, <2>3 DEF RequestFits, Running
  <2>. QED
    BY <1>1, <1>4, <2>1, <2>2, <2>4 DEF Settle
<1>5. ASSUME SettleRefused(o) \/ RequestLost(o), NEW p \in Orders
      PROVE  RequestFits(p)' /\ BooksFit(p)'
  <2>1. BooksFit(p)'
    BY <1>5, BooksUntouched DEF SettleRefused, RequestLost, rows
  <2>2. p # o => Others(p)
    BY <1>5 DEF SettleRefused, RequestLost, rows, TypeOK
  <2>3. request[o] \in Running /\ request'[o] \in {"REFUSED", "LOST"}
    BY <1>5 DEF SettleRefused, RequestLost, TypeOK, Running
  <2>4. RequestFits(o)'
    BY <1>0, <1>5, <2>3 DEF SettleRefused, RequestLost, rows, RequestFits, Unknown, HasPayment, Running
  <2>. QED
    BY <1>1, <1>5, <2>1, <2>2, <2>4 DEF SettleRefused, RequestLost
<1>6. ASSUME Compensate(o), NEW p \in Orders PROVE RequestFits(p)' /\ BooksFit(p)'
  <2>1. /\ BooksFit(p)'
        /\ order'[o].status = "NONE" <=> order[o].status = "NONE"
        /\ p # o => order'[p].status = order[p].status /\ payment'[p] = payment[p]
    BY <1>6, CompensateCheckoutFits DEF Compensate
  <2>2. p # o => Others(p)
    BY <1>6, <2>1 DEF Compensate, TypeOK
  <2>3. request[o] = "DECLINED" /\ request'[o] = "PAYMENT_DECLINED"
    BY <1>6 DEF Compensate, TypeOK
  <2>4. RequestFits(o)'
    BY <1>0, <2>1, <2>3 DEF RequestFits, Running
  <2>. QED
    BY <1>1, <1>6, <2>1, <2>2, <2>4 DEF Compensate
<1>7. ASSUME NEW known \in RefKnown, RecordTimeout(o, known), NEW p \in Orders
      PROVE  RequestFits(p)' /\ BooksFit(p)'
  <2>1. /\ request[o] = "TIMED_OUT" /\ request'[o] \in {"PAYMENT_TIMEOUT", "OVERTAKEN"}
        /\ payment'[o].status = "TIMEOUT" /\ HasPayment(o)
    BY <1>0, <1>7 DEF RecordTimeout, TypeOK, RequestFits
  <2>2. p # o => Others(p)
    BY <1>7 DEF RecordTimeout, TypeOK, OpenTask
  <2>3. RequestFits(o)'
    BY <1>0, <1>7, <2>1 DEF RecordTimeout, RequestFits, Running
  <2>4. BooksFit(o)'
    BY <1>0, <1>7, <2>1
    DEF RecordTimeout, RequestFits, Running, BooksFit, UnsettledFits, PaidFits, CancelledFits,
        HasPayment, Settled, Fulfilled
  <2>5. BooksFit(p)'
    BY <1>7, <2>2, <2>4, BooksUntouched DEF RecordTimeout
  <2>. QED
    BY <1>1, <1>7, <2>2, <2>3, <2>5 DEF RecordTimeout
<1>8. ASSUME RecordUnsettled(o), NEW p \in Orders PROVE RequestFits(p)' /\ BooksFit(p)'
  <2>1. /\ request[o] = "REFUSED" /\ request'[o] \in Answers
        /\ p # o => request'[p] = request[p]
        /\ UNCHANGED <<decision, tickets, ledger>>
    BY <1>8 DEF RecordUnsettled, TypeOK, Answers
  <2>2. CASE order[o].status = "PENDING" /\ ~HasPayment(o) /\ CancelOrders({o})
             /\ UNCHANGED <<payment, tasks>>
    <3>1. /\ BooksFit(p)'
          /\ order'[p].status = IF p \in {o} THEN "CANCELLED" ELSE order[p].status
          /\ order'[o].status = IF o \in {o} THEN "CANCELLED" ELSE order[o].status
      BY <1>0, <2>1, <2>2, CancelOrdersFits DEF HasPayment
    <3>2. RequestFits(o)'
      BY <1>0, <2>1, <3>1 DEF RequestFits, Running, Answers
    <3>. QED
      BY <1>1, <2>1, <2>2, <3>1, <3>2
  <2>3. CASE order[o].status = "PENDING" /\ payment[o].status = "INITIATED"
             /\ payment' = [payment EXCEPT ![o].ref = TRUE]
             /\ OpenTask(o, "PROVIDER_MISMATCH") /\ UNCHANGED order
    <3>1. p # o => Others(p)
      BY <2>1, <2>3 DEF OpenTask, TypeOK
    <3>2. payment'[o].status = "INITIATED"
      BY <2>3 DEF TypeOK, PaymentRow
    <3>3. RequestFits(o)'
      BY <1>0, <2>1, <2>3 DEF RequestFits, Running, Answers
    <3>4. BooksFit(o)'
      BY <1>0, <2>1, <2>3, <3>2
      DEF BooksFit, UnsettledFits, PaidFits, CancelledFits, HasPayment, Settled
    <3>5. BooksFit(p)'
      BY <2>1, <2>3, <3>1, <3>4, BooksUntouched
    <3>. QED
      BY <1>1, <2>1, <3>1, <3>3, <3>5
  <2>4. CASE UNCHANGED <<order, payment, tasks>>
    <3>1. BooksFit(p)'
      BY <2>1, <2>4, BooksUntouched
    <3>2. RequestFits(o)'
      BY <1>0, <2>1, <2>4 DEF RequestFits, Running, Answers
    <3>. QED
      BY <1>1, <2>1, <2>4, <3>1, <3>2
  <2>. QED
    BY <1>8, <2>2, <2>3, <2>4 DEF RecordUnsettled
<1>. QED
  BY <1>2, <1>3, <1>4, <1>5, <1>6, <1>7, <1>8 DEF Request, Fit

LEMMA ProviderFits == ASSUME IInv, NEW o \in Orders, Provider(o) PROVE Fit'
<1>1. UNCHANGED <<rows, request, decision>>
  BY DEF Provider, ProviderDecides, ProviderReports
<1>. QED
  BY <1>1, BooksUntouched, RequestUntouched DEF IInv, Fit, rows

LEMMA WebhookFits ==
  ASSUME IInv, NEW o \in Orders, NEW type \in EventTypes, Webhook(o, type)
  PROVE  Fit'
<1>. USE DEF IInv
<1>0. /\ RequestFits(o) /\ BooksFit(o)
      /\ UNCHANGED <<tickets, request>>
  BY DEF Webhook
<1>1. CASE UNCHANGED <<order, payment, ledger>>
  BY <1>0, <1>1, BooksUntouched, RequestUntouched DEF Fit
<1>2. CASE /\ payment[o].ref
           /\ \/ ApplyPaymentSucceeded(o) \/ ApplyPaymentFailed(o)
              \/ ApplyPaymentCancelled(o) \/ ApplyPaymentPending(o)
  <2>1. \/ ApplyPaymentSucceeded(o) \/ ApplyPaymentFailed(o)
        \/ ApplyPaymentCancelled(o) \/ ApplyPaymentPending(o)
    BY <1>2
  <2>2. HasPayment(o) /\ order[o].status # "NONE"
    BY <1>0, <1>2 DEF BooksFit, UnsettledFits, HasPayment
  <2>2a. \/ order[o].status # "PENDING"
         \/ request[o] \notin Running \cup {"IDLE"}
    BY <1>0, <1>2 DEF RequestFits, Unknown
  <2>3. ~Settled(o)
    BY <2>1 DEF ApplyPaymentSucceeded, ApplyPaymentFailed, ApplyPaymentCancelled,
            ApplyPaymentPending, Settled
  <2>5. CASE ApplyPaymentSucceeded(o)
    <3>1. /\ payment'[o].status = "SUCCEEDED"
          /\ \A p \in Orders \ {o} : payment'[p] = payment[p]
      BY <2>5 DEF ApplyPaymentSucceeded, TypeOK, PaymentRow
    <3>2. CASE order[o].status = "PENDING"
      <4>1. order' = [order EXCEPT ![o].status = "PAID"] /\ UNCHANGED <<ledger, tasks>>
        BY <2>5, <3>2 DEF ApplyPaymentSucceeded
      <4>2. /\ order'[o].status = "PAID" /\ order'[o].qty = order[o].qty /\ order[o].qty \in Nat
            /\ \A p \in Orders \ {o} : order'[p] = order[p]
        BY <4>1, CheckoutAssumption DEF CheckoutAssumption, TypeOK, OrderRow, Quantities
      <4>3. tickets'[o] = 0 /\ ledger'[o] = {}
        BY <1>0, <3>2, <4>1 DEF BooksFit, UnsettledFits
      <4>4. BooksFit(o)'
        BY <3>1, <4>2, <4>3
        DEF BooksFit, UnsettledFits, PaidFits, CancelledFits, HasPayment, Settled, Fulfilled
      <4>5. RequestFits(o)'
        BY <1>0, <2>2a, <3>2, <4>2, AnsweredFits
      <4>. QED
        BY <1>0, <3>1, <4>1, <4>2, <4>4, <4>5, BooksUntouched, RequestUntouched DEF Fit
    <3>3. CASE order[o].status # "PENDING"
      <4>1. /\ OpenTask(o, "PROVIDER_MISMATCH")
            /\ ledger' = [ledger EXCEPT ![o] = @ \cup {"LATE_CAPTURE"}]
            /\ UNCHANGED order
        BY <2>5, <3>3 DEF ApplyPaymentSucceeded
      <4>3. ledger'[o] = ledger[o] \cup {"LATE_CAPTURE"}
        BY <4>1 DEF TypeOK
      <4>4. \A p \in Orders \ {o} : ledger'[p] = ledger[p]
        BY <4>1 DEF TypeOK
      <4>5. BooksFit(o)'
        BY <1>0, <2>2, <3>1, <3>3, <4>1, <4>3
        DEF BooksFit, UnsettledFits, PaidFits, CancelledFits, HasPayment, Settled, Fulfilled
      <4>6. RequestFits(o)'
        BY <1>0, <2>2, <3>1, <3>3, <4>1 DEF RequestFits, HasPayment
      <4>. QED
        BY <1>0, <3>1, <4>1, <4>4, <4>5, <4>6, BooksUntouched, RequestUntouched DEF Fit
    <3>. QED
      BY <3>2, <3>3
  <2>6. CASE ApplyPaymentFailed(o) \/ ApplyPaymentCancelled(o) \/ ApplyPaymentPending(o)
    <3>1. /\ UNCHANGED <<order, ledger, tasks>>
          /\ payment'[o].status \in {"FAILED", "CANCELLED", "PENDING"}
          /\ \A p \in Orders \ {o} : payment'[p] = payment[p]
      BY <2>6 DEF ApplyPaymentFailed, ApplyPaymentCancelled, ApplyPaymentPending, TypeOK, PaymentRow
    <3>2. BooksFit(o)'
      BY <1>0, <2>2, <2>3, <3>1
      DEF BooksFit, UnsettledFits, PaidFits, CancelledFits, HasPayment, Settled, Fulfilled
    <3>3. RequestFits(o)'
      BY <1>0, <2>2, <2>2a, <3>1 DEF RequestFits, HasPayment
    <3>. QED
      BY <1>0, <3>1, <3>2, <3>3, BooksUntouched, RequestUntouched DEF Fit
  <2>. QED
    BY <2>1, <2>5, <2>6
<1>. QED
  BY <1>1, <1>2 DEF Webhook

LEMMA CallbackFits == ASSUME IInv, NEW o \in Orders, Callback(o) PROVE Fit'
<1>. USE DEF IInv
<1>1. order[o].status = "PENDING" /\ UNCHANGED request
  BY DEF Callback
<1>2. ASSUME NEW p \in Orders
      PROVE  /\ BooksFit(p)'
             /\ order'[p].status = "NONE" <=> order[p].status = "NONE"
             /\ p # o => order'[p].status = order[p].status /\ payment'[p] = payment[p]
  BY SettleCheckoutFits, CompensateCheckoutFits DEF Callback
<1>3. RequestFits(o)'
  <2>1. order'[o].status \in {"PAID", "CANCELLED"} /\ (HasPayment(o) => HasPayment(o)')
    BY <1>1, Closes DEF Callback
  <2>2. RequestFits(o)
    OBVIOUS
  <2>. QED
    BY <1>1, <2>1, <2>2 DEF RequestFits
<1>. QED
  BY <1>1, <1>2, <1>3, RequestUntouched DEF Fit

LEMMA OperatorFits == ASSUME IInv, NEW op \in Operators, Operator(op) PROVE Fit'
<1>. USE DEF IInv
<1>1. ASSUME NEW o \in Orders, NEW kind \in TaskKinds, Requery(op, o, kind) PROVE Fit'
  BY <1>1, BooksUntouched, RequestUntouched DEF Requery, rows, Fit
<1>2. CASE Resolve(op)
  <2>0. PICK d \in Decision : decision[op] = d
    BY <1>2 DEF Resolve, TypeOK
  <2>1. UNCHANGED request /\ d.order \in Orders
    BY <1>2, <2>0 DEF Resolve, Decision
  <2>2. PICK o \in Orders : d.order = o
    BY <2>1
  <2>3. \/ SettleCheckout(o)
        \/ CompensateCheckout(o) /\ UNCHANGED <<tickets, ledger>>
        \/ UNCHANGED <<order, payment, tickets, ledger>>
    BY <1>2, <2>0, <2>2 DEF Resolve, Decision, Verdicts
  <2>4. CASE \/ UNCHANGED <<order, payment, tickets, ledger>>
             \/ order[o].status # "PENDING"
    <3>1. UNCHANGED <<order, payment, tickets, ledger>>
      BY <2>3, <2>4 DEF SettleCheckout, CompensateCheckout
    <3>. QED
      BY <2>1, <3>1, BooksUntouched, RequestUntouched DEF Fit
  <2>5. CASE /\ order[o].status = "PENDING"
             /\ SettleCheckout(o) \/ (CompensateCheckout(o) /\ UNCHANGED <<tickets, ledger>>)
    <3>1. ASSUME NEW p \in Orders
          PROVE  /\ BooksFit(p)'
                 /\ order'[p].status = "NONE" <=> order[p].status = "NONE"
                 /\ p # o => order'[p].status = order[p].status /\ payment'[p] = payment[p]
      BY <2>5, SettleCheckoutFits, CompensateCheckoutFits
    <3>2. order'[o].status \in {"PAID", "CANCELLED"} /\ (HasPayment(o) => HasPayment(o)')
      BY <2>5, Closes
    <3>3. RequestFits(o)'
      <4>1. RequestFits(o)
        OBVIOUS
      <4>. QED
        BY <2>1, <2>5, <3>2, <4>1 DEF RequestFits
    <3>. QED
      BY <2>1, <3>1, <3>3, RequestUntouched DEF Fit
  <2>. QED
    BY <2>3, <2>4, <2>5
<1>. QED
  BY <1>1, <1>2 DEF Operator

LEMMA WorkerFits == ASSUME IInv, Worker PROVE Fit'
<1>. USE DEF IInv
<1>1. CASE SweepRead \/ SweepWrite
  BY <1>1, BooksUntouched, RequestUntouched DEF SweepRead, SweepWrite, rows, Fit
<1>2. ASSUME NEW o \in Orders, IssueTickets(o), NEW p \in Orders
      PROVE  RequestFits(p)' /\ BooksFit(p)'
  <2>1. /\ order[o].status = "PAID"
        /\ tickets' = [tickets EXCEPT ![o] = order[o].qty]
        /\ UNCHANGED <<order, payment, ledger, tasks, request, decision>>
    BY <1>2 DEF IssueTickets
  <2>2. RequestFits(p)'
    BY <2>1, RequestUntouched
  <2>3. CASE p # o
    BY <2>1, <2>2, <2>3, BooksUntouched DEF TypeOK
  <2>4. CASE p = o
    <3>1. BooksFit(o) /\ tickets'[o] = order[o].qty /\ order[o].qty \in Nat
      BY <2>1, CheckoutAssumption DEF CheckoutAssumption, TypeOK, OrderRow, Quantities
    <3>2. BooksFit(o)'
      BY <2>1, <3>1
      DEF BooksFit, UnsettledFits, PaidFits, CancelledFits, HasPayment, Settled, Fulfilled
    <3>. QED
      BY <2>2, <2>4, <3>2
  <2>. QED
    BY <2>3, <2>4
<1>. QED
  BY <1>1, <1>2 DEF Worker, Fit

LEMMA DeletionFits == ASSUME IInv, DecideDeletion \/ DeleteEvent PROVE Fit'
<1>. USE DEF IInv
<1>1. CASE DecideDeletion
  BY <1>1, BooksUntouched, RequestUntouched DEF DecideDeletion, Fit
<1>2. ASSUME DeleteEvent, NEW p \in Orders PROVE RequestFits(p)' /\ BooksFit(p)'
  <2>1. /\ CancelOrders(Unpaid)
        /\ UNCHANGED <<payment, tickets, ledger, tasks, request, decision>>
    BY <1>2 DEF DeleteEvent
  <2>2. Unpaid \in SUBSET {o \in Orders : order[o].status = "PENDING"}
    BY DEF Unpaid
  <2>3. p \in Unpaid => ~Settled(p)
    BY DEF Unpaid, Dead, IN_FLIGHT_PAYMENT_STATES, Settled
  <2>4. /\ BooksFit(p)'
        /\ order'[p].status = IF p \in Unpaid THEN "CANCELLED" ELSE order[p].status
    <3> HIDE DEF Unpaid
    <3>. QED
      BY <2>1, <2>2, <2>3, CancelOrdersFits DEF HasPayment, Settled
  <2>5. RequestFits(p)'
    <3>1. RequestFits(p) /\ (p \in Unpaid => order[p].status = "PENDING")
      BY DEF Unpaid
    <3>2. CASE p \notin Unpaid
      BY <2>1, <2>4, <3>1, <3>2, RequestUntouched
    <3>3. CASE p \in Unpaid
      <4>1. request[p] \in Running => ~HasPayment(p)
        BY <3>1, <3>3 DEF RequestFits, Unknown, Unpaid, Dead, IN_FLIGHT_PAYMENT_STATES, HasPayment
      <4>. QED
        BY <2>1, <2>4, <3>1, <3>3, <4>1 DEF RequestFits, HasPayment
    <3>. QED
      BY <3>2, <3>3
  <2>. QED
    BY <2>4, <2>5
<1>. QED
  BY <1>1, <1>2 DEF Fit

LEMMA IInvStep == ASSUME IInv, [Next]_vars PROVE IInv'
<1>1. TypeOK'
  BY TypeStep DEF IInv
<1>2. Fit'
  <2>1. CASE Tick \/ UNCHANGED vars
    <3>1. UNCHANGED <<order, payment, tickets, ledger, tasks, request, decision>>
      BY <2>1 DEF Tick, vars, rows
    <3>. QED
      BY <3>1, BooksUntouched, RequestUntouched DEF IInv, Fit
  <2>. QED
    BY <2>1, BuyerFits, RequestStepFits, ProviderFits, WebhookFits, CallbackFits, OperatorFits,
       WorkerFits, DeletionFits DEF Next
<1>. QED
  BY <1>1, <1>2 DEF IInv, Fit

LEMMA IInvInit == Init => IInv
<1>1. Init => TypeOK
  BY InitTyped
<1>2. Init => Fit
  BY DEF Init, Fit, RequestFits, Unknown, BooksFit, UnsettledFits, PaidFits, CancelledFits,
     HasPayment, Settled, Running
<1>. QED
  BY <1>1, <1>2 DEF IInv, Fit

LEMMA IInvAlways == Spec => []IInv
<1>1. IInv /\ [Next]_vars => IInv'
  BY IInvStep
<1>. QED
  BY <1>1, IInvInit, PTL DEF Spec

(* Settled or fulfilled once and never by halves, whoever comes to it: the  *)
(* request, a callback, an operator, a retried ticket job.                 *)
THEOREM FulfilledOnce == Spec => []OneFulfilment
<1>1. IInv => OneFulfilment
  <2> SUFFICES ASSUME IInv, NEW o \in Orders
               PROVE  /\ tickets[o] <= order[o].qty
                      /\ tickets[o] > 0 => order[o].status = "PAID"
                      /\ Fulfilled(o) => tickets[o] = order[o].qty
    BY DEF OneFulfilment
  <2>1. /\ BooksFit(o) /\ order[o].qty \in Nat
        /\ order[o].status \in OrderStatuses
    BY CheckoutAssumption DEF CheckoutAssumption, IInv, TypeOK, OrderRow, Quantities
  <2>. QED
    BY <2>1 DEF BooksFit, UnsettledFits, PaidFits, CancelledFits, OrderStatuses, Fulfilled
<1>. QED
  BY <1>1, IInvAlways, PTL

(* The books against the payment: one that was settled is settled          *)
(* still unless a time-out was written over it.                            *)
MoneyFits(o) ==
  /\ order[o].status = "PAID" =>
       /\ HasPayment(o) => Settled(o) \/ Overtaken(o)
       /\ "LATE_CAPTURE" \in ledger[o] => Settled(o) /\ Overtaken(o)
  /\ order[o].status = "CANCELLED" => (Settled(o) <=> "LATE_CAPTURE" \in ledger[o])
  /\ request[o] \in Running \cup {"IDLE"} =>
       ~Overtaken(o) /\ (order[o].status = "CANCELLED" => ~payment[o].ref /\ ~Settled(o))

MoneyInv == IInv /\ \A o \in Orders : MoneyFits(o)

(* A step that records no time-out over a closed order. *)
SameAnswer(o) == Overtaken(o)' <=> Overtaken(o)

LEMMA MoneyUntouched ==
  ASSUME NEW o \in Orders, MoneyFits(o),
         order'[o].status = order[o].status, payment'[o] = payment[o], ledger'[o] = ledger[o],
         request'[o] \in Running \cup {"IDLE"} => request[o] \in Running \cup {"IDLE"},
         SameAnswer(o)
  PROVE  MoneyFits(o)'
<1>1. Overtaken(o)' <=> Overtaken(o)
  BY DEF SameAnswer
<1>. QED
  BY <1>1 DEF MoneyFits, HasPayment, Settled

(* An open order that stays open, or that is closed by one of the commands. *)
LEMMA MoneyOfOpen ==
  ASSUME NEW o \in Orders, MoneyFits(o), RequestFits(o), BooksFit(o),
         order[o].status \in {"NONE", "PENDING"},
         request'[o] \in Running \cup {"IDLE"} => request[o] \in Running \cup {"IDLE"},
         SameAnswer(o),
         \/ order'[o].status \in {"NONE", "PENDING"}
         \/ /\ order'[o].status = "PAID" /\ "LATE_CAPTURE" \notin ledger'[o]
            /\ HasPayment(o)' => Settled(o)'
         \/ /\ order'[o].status = "CANCELLED" /\ ledger'[o] = ledger[o]
            /\ payment'[o].status # "SUCCEEDED" /\ payment'[o].ref = payment[o].ref
  PROVE  MoneyFits(o)'
<1>1. Overtaken(o)' <=> Overtaken(o)
  BY DEF SameAnswer
<1>2. ledger[o] = {}
  BY DEF BooksFit, UnsettledFits
<1>3. request'[o] \in Running \cup {"IDLE"} => ~Overtaken(o) /\ ~payment[o].ref
  BY DEF MoneyFits, RequestFits, Unknown
<1>. QED
  BY <1>1, <1>2, <1>3 DEF MoneyFits, HasPayment, Settled

LEMMA MoneyOfCommands ==
  ASSUME MoneyInv, NEW o \in Orders, NEW p \in Orders,
         SettleCheckout(o) \/ (CompensateCheckout(o) /\ UNCHANGED ledger),
         \A q \in Orders : request'[q] \in Running \cup {"IDLE"} =>
                            request[q] \in Running \cup {"IDLE"},
         \A q \in Orders : SameAnswer(q)
  PROVE  MoneyFits(p)'
<1>. USE DEF MoneyInv, IInv
<1>1. CASE order[o].status # "PENDING"
  <2>1. UNCHANGED <<order, payment, ledger>>
    BY <1>1 DEF SettleCheckout, CompensateCheckout
  <2>. QED
    BY <2>1, MoneyUntouched
<1>2. CASE order[o].status = "PENDING" /\ SettleCheckout(o)
  <2>1. CASE p # o
    BY <1>2, <2>1, Settles, MoneyUntouched
  <2>2. CASE p = o
    <3>1. ledger[o] = {}
      BY <1>2 DEF BooksFit, UnsettledFits
    <3>2. order'[o].status = "PAID" /\ "LATE_CAPTURE" \notin ledger'[o]
      BY <1>2, <3>1, Settles
    <3>3. HasPayment(o)' => Settled(o)'
      BY <1>2, Settles DEF HasPayment, Settled
    <3>. QED
      BY <1>2, <2>2, <3>2, <3>3, MoneyOfOpen
  <2>. QED
    BY <2>1, <2>2
<1>3. CASE order[o].status = "PENDING" /\ CompensateCheckout(o) /\ UNCHANGED ledger
  <2>1. CASE p # o
    BY <1>3, <2>1, Compensates, MoneyUntouched
  <2>2. CASE p = o
    BY <1>3, <2>2, Compensates, MoneyOfOpen
  <2>. QED
    BY <2>1, <2>2
<1>. QED
  BY <1>1, <1>2, <1>3

LEMMA MoneyOfRequest ==
  ASSUME MoneyInv, NEW o \in Orders, Request(o) \/ RequestLost(o), NEW p \in Orders
  PROVE  MoneyFits(p)'
<1>. USE DEF MoneyInv, IInv
<1>1. CASE \/ CreateIntent(o) \/ SettleRefused(o) \/ RequestLost(o)
           \/ \E answer \in {"CAPTURED", "DECLINED", "TIMED_OUT"} : CaptureAnswered(o, answer)
  <2>1. UNCHANGED <<order, payment, ledger>>
    BY <1>1 DEF CreateIntent, SettleRefused, RequestLost, CaptureAnswered, rows
  <2>3. SameAnswer(p)
    <3>1. CASE CreateIntent(o)
      BY <3>1 DEF CreateIntent, SameAnswer, Overtaken
    <3>2. CASE SettleRefused(o)
      BY <3>2 DEF SettleRefused, SameAnswer, Overtaken, TypeOK
    <3>3. CASE RequestLost(o)
      BY <3>3 DEF RequestLost, Running, SameAnswer, Overtaken, TypeOK
    <3>4. ASSUME NEW answer \in {"CAPTURED", "DECLINED", "TIMED_OUT"}, CaptureAnswered(o, answer)
          PROVE  SameAnswer(p)
      <4>1. request[o] = "BEGUN" /\ request' = [request EXCEPT ![o] = answer]
        BY <3>4 DEF CaptureAnswered
      <4>. QED
        BY <4>1 DEF SameAnswer, Overtaken, TypeOK
    <3>. QED
      BY <1>1, <3>1, <3>2, <3>3, <3>4
  <2>2. request'[p] \in Running \cup {"IDLE"} => request[p] \in Running \cup {"IDLE"}
    BY <1>1 DEF CreateIntent, SettleRefused, RequestLost, CaptureAnswered, Running, TypeOK
  <2>. QED
    BY <2>1, <2>2, <2>3, MoneyUntouched
<1>2. CASE Settle(o) \/ Compensate(o)
  <2>1. ASSUME NEW q \in Orders
        PROVE  /\ request'[q] \in Running \cup {"IDLE"} => request[q] \in Running \cup {"IDLE"}
               /\ SameAnswer(q)
    BY <1>2 DEF Settle, Compensate, SameAnswer, Overtaken, Running, TypeOK
  <2>. QED
    BY <1>2, <2>1, MoneyOfCommands DEF Settle, Compensate
<1>3. ASSUME NEW known \in RefKnown, RecordTimeout(o, known) PROVE MoneyFits(p)'
  <2>1. /\ request[o] = "TIMED_OUT"
        /\ request'[o] = IF order[o].status = "PENDING" THEN "PAYMENT_TIMEOUT" ELSE "OVERTAKEN"
        /\ payment'[o].status = "TIMEOUT" /\ UNCHANGED <<order, ledger>>
        /\ \A q \in Orders \ {o} : payment'[q] = payment[q] /\ request'[q] = request[q]
    BY <1>3 DEF RecordTimeout, TypeOK
  <2>2. CASE p # o
    <3>1. SameAnswer(p)
      BY <2>1, <2>2 DEF SameAnswer, Overtaken
    <3>. QED
      BY <2>1, <2>2, <3>1, MoneyUntouched
  <2>3. CASE p = o
    <3>1. /\ MoneyFits(o) /\ ~Overtaken(o) /\ request'[o] \notin Running \cup {"IDLE"}
          /\ order[o].status = "CANCELLED" => ~Settled(o)
      BY <2>1 DEF MoneyFits, Running
    <3>2. order[o].status # "PENDING" => Overtaken(o)'
      BY <2>1 DEF Overtaken
    <3>. QED
      BY <2>1, <2>3, <3>1, <3>2 DEF MoneyFits, Settled
  <2>. QED
    BY <2>2, <2>3
<1>4. CASE RecordUnsettled(o)
  <2>1. /\ request[o] = "REFUSED" /\ request'[o] \in {"ORDER_NOT_COMPLETED", "ORDER_CANCELLED"}
        /\ \A q \in Orders \ {o} : request'[q] = request[q]
        /\ UNCHANGED ledger
    BY <1>4 DEF RecordUnsettled, TypeOK
  <2>2. \A q \in Orders :
          /\ SameAnswer(q)
          /\ request'[q] \in Running \cup {"IDLE"} => request[q] \in Running \cup {"IDLE"}
    BY <2>1 DEF SameAnswer, Overtaken, Running
  <2>3. CASE order[o].status = "PENDING" /\ ~HasPayment(o) /\ CancelOrders({o}) /\ UNCHANGED payment
    <3>1. order' = [q \in Orders |->
                      IF q \in {o} THEN [order[q] EXCEPT !.status = "CANCELLED"] ELSE order[q]]
      BY <2>3 DEF CancelOrders
    <3>2. order'[o].status = "CANCELLED" /\ (p # o => order'[p] = order[p])
      BY <3>1 DEF TypeOK, OrderRow
    <3>3. CASE p # o
      BY <2>1, <2>2, <2>3, <3>2, <3>3, MoneyUntouched
    <3>4. CASE p = o
      BY <2>1, <2>2, <2>3, <3>2, <3>4, MoneyOfOpen DEF HasPayment
    <3>. QED
      BY <3>3, <3>4
  <2>4. CASE order[o].status = "PENDING" /\ payment' = [payment EXCEPT ![o].ref = TRUE]
             /\ UNCHANGED order
    <3>1. CASE p # o
      BY <2>1, <2>2, <2>4, <3>1, MoneyUntouched DEF TypeOK
    <3>2. CASE p = o
      BY <2>1, <2>2, <2>4, <3>2, MoneyOfOpen
    <3>. QED
      BY <3>1, <3>2
  <2>5. CASE UNCHANGED <<order, payment>>
    BY <2>1, <2>2, <2>5, MoneyUntouched
  <2>. QED
    BY <1>4, <2>3, <2>4, <2>5 DEF RecordUnsettled
<1>. QED
  BY <1>1, <1>2, <1>3, <1>4 DEF Request

LEMMA MoneyOfWebhook ==
  ASSUME MoneyInv, NEW o \in Orders, NEW type \in EventTypes, Webhook(o, type),
         NEW p \in Orders
  PROVE  MoneyFits(p)'
<1>. USE DEF MoneyInv, IInv
<1>0. UNCHANGED request /\ SameAnswer(p) /\ SameAnswer(o)
  BY DEF Webhook, SameAnswer, Overtaken
<1>1. CASE UNCHANGED <<order, payment, ledger>>
  BY <1>0, <1>1, MoneyUntouched
<1>2. CASE payment[o].ref /\ ApplyPaymentSucceeded(o)
  <2>1. /\ payment'[o].status = "SUCCEEDED"
        /\ \A q \in Orders \ {o} : payment'[q] = payment[q]
    BY <1>2 DEF ApplyPaymentSucceeded, TypeOK, PaymentRow
  <2>2. CASE order[o].status = "PENDING"
    <3>1. order' = [order EXCEPT ![o].status = "PAID"] /\ UNCHANGED ledger
      BY <1>2, <2>2 DEF ApplyPaymentSucceeded
    <3>2. order'[o].status = "PAID" /\ (p # o => order'[p] = order[p])
      BY <3>1 DEF TypeOK, OrderRow
    <3>3. CASE p # o
      BY <1>0, <2>1, <3>1, <3>2, <3>3, MoneyUntouched
    <3>4. CASE p = o
      <4>1. "LATE_CAPTURE" \notin ledger'[o]
        BY <2>2, <3>1 DEF BooksFit, UnsettledFits
      <4>. QED
        BY <1>0, <2>1, <2>2, <3>2, <3>4, <4>1, MoneyOfOpen DEF Settled
    <3>. QED
      BY <3>3, <3>4
  <2>3. CASE order[o].status # "PENDING"
    <3>1. ledger' = [ledger EXCEPT ![o] = @ \cup {"LATE_CAPTURE"}] /\ UNCHANGED order
      BY <1>2, <2>3 DEF ApplyPaymentSucceeded
    <3>2. "LATE_CAPTURE" \in ledger'[o] /\ (p # o => ledger'[p] = ledger[p])
      BY <3>1 DEF TypeOK
    <3>3. CASE p # o
      BY <1>0, <2>1, <3>1, <3>2, <3>3, MoneyUntouched
    <3>4. CASE p = o
      <4>1. MoneyFits(o) /\ ~Settled(o) /\ HasPayment(o)
        BY <1>2 DEF ApplyPaymentSucceeded, BooksFit, UnsettledFits
      <4>2. Overtaken(o)' <=> Overtaken(o)
        BY <1>0 DEF SameAnswer
      <4>. QED
        BY <1>0, <1>2, <2>1, <3>1, <3>2, <3>4, <4>1, <4>2 DEF MoneyFits, Settled, HasPayment
    <3>. QED
      BY <3>3, <3>4
  <2>. QED
    BY <2>2, <2>3
<1>3. CASE /\ payment[o].ref
           /\ ApplyPaymentFailed(o) \/ ApplyPaymentCancelled(o) \/ ApplyPaymentPending(o)
  <2>1. /\ UNCHANGED <<order, ledger>> /\ ~Settled(o)
        /\ payment'[o].status \in {"FAILED", "CANCELLED", "PENDING"}
        /\ payment'[o].ref = payment[o].ref
        /\ \A q \in Orders \ {o} : payment'[q] = payment[q]
    <3>1. /\ UNCHANGED <<order, ledger>> /\ ~Settled(o)
          /\ \E status \in {"FAILED", "CANCELLED", "PENDING"} :
               payment' = [payment EXCEPT ![o].status = status]
      BY <1>3 DEF ApplyPaymentFailed, ApplyPaymentCancelled, ApplyPaymentPending, Settled
    <3>2. PICK status \in {"FAILED", "CANCELLED", "PENDING"} :
            payment' = [payment EXCEPT ![o].status = status]
      BY <3>1
    <3>3. payment'[o].status = status /\ payment'[o].ref = payment[o].ref
      BY <3>2 DEF TypeOK, PaymentRow
    <3>4. \A q \in Orders \ {o} : payment'[q] = payment[q]
      BY <3>2 DEF TypeOK
    <3>. QED
      BY <3>1, <3>3, <3>4
  <2>2. CASE p # o
    BY <1>0, <2>1, <2>2, MoneyUntouched
  <2>3. CASE p = o
    <3>1. MoneyFits(o) /\ HasPayment(o)
      BY <1>3 DEF BooksFit, UnsettledFits
    <3>2. Overtaken(o)' <=> Overtaken(o)
      BY <1>0 DEF SameAnswer
    <3>. QED
      BY <1>0, <1>3, <2>1, <2>3, <3>1, <3>2 DEF MoneyFits, Settled, HasPayment
  <2>. QED
    BY <2>2, <2>3
<1>. QED
  BY <1>1, <1>2, <1>3 DEF Webhook

LEMMA MoneyOfDeletion ==
  ASSUME MoneyInv, DeleteEvent, NEW p \in Orders
  PROVE  MoneyFits(p)'
<1>. USE DEF MoneyInv, IInv
<1>1. /\ UNCHANGED <<payment, ledger, request>> /\ SameAnswer(p)
      /\ order' = [o \in Orders |->
                     IF o \in Unpaid THEN [order[o] EXCEPT !.status = "CANCELLED"] ELSE order[o]]
  BY DEF DeleteEvent, CancelOrders, SameAnswer, Overtaken
<1>2. CASE p \notin Unpaid
  BY <1>1, <1>2, MoneyUntouched
<1>3. CASE p \in Unpaid
  <2>1. order[p].status = "PENDING" /\ payment[p].status # "SUCCEEDED"
    BY <1>3 DEF Unpaid, Dead, IN_FLIGHT_PAYMENT_STATES
  <2>2. order'[p].status = "CANCELLED"
    BY <1>1, <1>3 DEF TypeOK, OrderRow
  <2>. QED
    BY <1>1, <2>1, <2>2, MoneyOfOpen
<1>. QED
  BY <1>2, <1>3

LEMMA MoneyOfBuyer ==
  ASSUME MoneyInv, Buyer, NEW p \in Orders PROVE MoneyFits(p)'
<1>. USE DEF MoneyInv, IInv
<1>1. PICK t \in RequestInstants :
        \/ \E h \in Holds : (\E q \in Quantities : CreateHold(h, q, t)) \/ ReleaseHold(h, t)
        \/ \E o \in Orders, named \in SUBSET Holds, q \in Quantities, promo, free \in BOOLEAN :
             Begin(o, named, q, promo, free, t)
  BY DEF Buyer
<1>2. CASE \E h \in Holds : (\E q \in Quantities : CreateHold(h, q, t)) \/ ReleaseHold(h, t)
  <2>1. UNCHANGED <<order, payment, ledger, request>> /\ SameAnswer(p)
    BY <1>2 DEF CreateHold, ReleaseHold, SameAnswer, Overtaken
  <2>. QED
    BY <2>1, MoneyUntouched
<1>3. ASSUME NEW o \in Orders, NEW named \in SUBSET Holds, NEW q \in Quantities,
             NEW promo \in BOOLEAN, NEW free \in BOOLEAN, Begin(o, named, q, promo, free, t)
      PROVE  MoneyFits(p)'
  <2>1. /\ order' = [order EXCEPT ![o] = [status |-> "PENDING", qty |-> q, promo |-> promo]]
        /\ request' = [request EXCEPT ![o] = "BEGUN"]
        /\ UNCHANGED ledger
        /\ UNCHANGED payment \/ payment' = [payment EXCEPT ![o].status = "INITIATED"]
        /\ order[o].status = "NONE" /\ request[o] = "IDLE"
    BY <1>3 DEF Begin
  <2>2. SameAnswer(p)
    BY <2>1 DEF SameAnswer, Overtaken, TypeOK
  <2>3. CASE p # o
    BY <2>1, <2>2, <2>3, MoneyUntouched DEF TypeOK
  <2>4. CASE p = o
    <3>1. order'[o].status = "PENDING" /\ request[o] \in Running \cup {"IDLE"}
      BY <2>1 DEF TypeOK
    <3>. QED
      BY <2>1, <2>2, <2>4, <3>1, MoneyOfOpen
  <2>. QED
    BY <2>3, <2>4
<1>. QED
  BY <1>1, <1>2, <1>3

LEMMA MoneyStep == ASSUME MoneyInv, [Next]_vars PROVE MoneyInv'
<1>. USE DEF MoneyInv
<1>1. IInv'
  <2>1. [Next]_vars
    OBVIOUS
  <2>. QED
    BY <2>1, IInvStep
<1>2. ASSUME UNCHANGED vars, NEW p \in Orders PROVE MoneyFits(p)'
  <2>1. UNCHANGED <<order, payment, ledger, request>>
    BY <1>2 DEF vars, rows
  <2>. QED
    BY <2>1 DEF MoneyFits, HasPayment, Settled, Overtaken
<1>3. ASSUME Next, NEW p \in Orders PROVE MoneyFits(p)'
  <2>1. CASE \/ \E o \in Orders : Provider(o)
             \/ Worker \/ DecideDeletion \/ Tick
    <3>1. UNCHANGED <<order, payment, ledger, request>> /\ SameAnswer(p)
      BY <2>1 DEF Provider, ProviderDecides, ProviderReports, Worker, SweepRead, SweepWrite,
              IssueTickets, DecideDeletion, Tick, rows, SameAnswer, Overtaken
    <3>. QED
      BY <1>3, <3>1, MoneyUntouched
  <2>2. ASSUME NEW o \in Orders, Callback(o) PROVE MoneyFits(p)'
    <3>1. UNCHANGED request /\ \A q \in Orders : SameAnswer(q)
      BY <2>2 DEF Callback, SameAnswer, Overtaken
    <3>2. SettleCheckout(o) \/ (CompensateCheckout(o) /\ UNCHANGED ledger)
      BY <2>2 DEF Callback
    <3>. QED
      BY <1>3, <3>1, <3>2, MoneyOfCommands
  <2>3. ASSUME NEW op \in Operators, Operator(op) PROVE MoneyFits(p)'
    <3>1. UNCHANGED request /\ \A q \in Orders : SameAnswer(q)
      BY <2>3 DEF Operator, Requery, Resolve, SameAnswer, Overtaken
    <3>2. CASE UNCHANGED <<order, payment, ledger>>
      BY <1>3, <3>1, <3>2, MoneyUntouched
    <3>3. ASSUME NEW o \in Orders, SettleCheckout(o) \/ (CompensateCheckout(o) /\ UNCHANGED ledger)
          PROVE  MoneyFits(p)'
      BY <1>3, <3>1, <3>3, MoneyOfCommands
    <3>4. CASE Resolve(op)
      <4>1. decision[op] \in Decision
        BY <3>4 DEF Resolve, IInv, TypeOK
      <4>2. decision[op].order \in Orders /\ decision[op].verdict \in Verdicts
        BY <4>1 DEF Decision
      <4>3. \/ SettleCheckout(decision[op].order)
            \/ CompensateCheckout(decision[op].order) /\ UNCHANGED ledger
            \/ UNCHANGED <<order, payment, ledger>>
        BY <3>4, <4>2 DEF Resolve, Verdicts
      <4>. QED
        BY <3>2, <3>3, <4>2, <4>3
    <3>. QED
      BY <2>3, <3>2, <3>4 DEF Operator, Requery, rows
  <2>. QED
    BY <1>3, <2>1, <2>2, <2>3, MoneyOfBuyer, MoneyOfRequest, MoneyOfWebhook, MoneyOfDeletion DEF Next
<1>. QED
  BY <1>1, <1>2, <1>3

(* Money is in the books once and under the batch that fits its order,     *)
(* except where a request's time-out was written over a settled payment.   *)
THEOREM BooksMatch == Spec => []BooksMatchOrders
<1>1. Init => MoneyInv
  <2> SUFFICES ASSUME Init PROVE MoneyInv
    OBVIOUS
  <2>1. IInv
    BY IInvInit
  <2>. QED
    BY <2>1 DEF Init, MoneyInv, MoneyFits, Overtaken
<1>2. MoneyInv /\ [Next]_vars => MoneyInv'
  BY MoneyStep
<1>3. MoneyInv => BooksMatchOrders
  <2> SUFFICES ASSUME MoneyInv, NEW o \in Orders
               PROVE  /\ "ORDER_PAID" \in ledger[o] =>
                           order[o].status = "PAID" /\ (Settled(o) \/ Overtaken(o))
                      /\ "LATE_CAPTURE" \in ledger[o] =>
                           Settled(o) /\ (order[o].status = "CANCELLED" \/ Overtaken(o))
                      /\ Settled(o) => order[o].status = "PAID" \/ "LATE_CAPTURE" \in ledger[o]
    BY DEF BooksMatchOrders
  <2>1. BooksFit(o) /\ MoneyFits(o) /\ order[o].status \in OrderStatuses
    BY DEF MoneyInv, IInv, TypeOK, OrderRow
  <2>. QED
    BY <2>1 DEF BooksFit, UnsettledFits, PaidFits, CancelledFits, OrderStatuses, MoneyFits
<1>. QED
  BY <1>1, <1>2, <1>3, PTL DEF Spec

LEMMA ClosedIsKeptStep == ASSUME IInv, [Next]_vars PROVE ClosedIsKept
<1>. USE DEF IInv
<1>1. SUFFICES ASSUME NEW p \in Orders, order[p].status \notin {"NONE", "PENDING"}
               PROVE  /\ order'[p] = order[p]
                      /\ Settled(p) => payment'[p] = payment[p] \/ (~Overtaken(p) /\ Overtaken(p)')
  <2>1. \A o \in Orders : order[o].status \in {"NONE", "PENDING"} => ~Settled(o)
    BY DEF BooksFit, UnsettledFits
  <2>. QED
    BY <2>1 DEF ClosedIsKept
<1>2. ASSUME NEW o \in Orders, SettleCheckout(o) PROVE order'[p] = order[p] /\ payment'[p] = payment[p]
  <2>1. CASE order[o].status = "PENDING"
    BY <1>1, <1>2, <2>1, SettleCheckoutFits
  <2>2. CASE order[o].status # "PENDING"
    BY <1>2, <2>2 DEF SettleCheckout
  <2>. QED
    BY <2>1, <2>2
<1>3. ASSUME NEW S \in SUBSET {o \in Orders : order[o].status = "PENDING"}, CancelOrders(S)
      PROVE  order'[p] = order[p]
  BY <1>1, <1>3 DEF CancelOrders
<1>4. ASSUME NEW o \in Orders, CompensateCheckout(o)
      PROVE  order'[p] = order[p] /\ payment'[p] = payment[p]
  <2>1. CASE order[o].status = "PENDING"
    <3>1. CancelOrders({o}) /\ payment' = [payment EXCEPT ![o].status = "FAILED"]
      BY <1>4, <2>1 DEF CompensateCheckout
    <3>. QED
      BY <1>1, <1>3, <2>1, <3>1 DEF TypeOK
  <2>2. CASE order[o].status # "PENDING"
    BY <1>4, <2>2 DEF CompensateCheckout
  <2>. QED
    BY <2>1, <2>2
<1>5. CASE Buyer
  <2>1. ASSUME NEW o \in Orders, NEW named, NEW q, NEW promo, NEW free, NEW t,
               Begin(o, named, q, promo, free, t)
        PROVE  order'[p] = order[p] /\ payment'[p] = payment[p]
    <3>1. /\ order[o].status = "NONE" /\ \E row : order' = [order EXCEPT ![o] = row]
          /\ UNCHANGED payment \/ payment' = [payment EXCEPT ![o].status = "INITIATED"]
      BY <2>1 DEF Begin
    <3>. QED
      BY <1>1, <3>1 DEF TypeOK
  <2>. QED
    BY <1>5, <2>1 DEF Buyer, CreateHold, ReleaseHold
<1>6. ASSUME NEW o \in Orders, Request(o)
      PROVE  /\ order'[p] = order[p]
             /\ Settled(p) => payment'[p] = payment[p] \/ (~Overtaken(p) /\ Overtaken(p)')
  <2>1. ASSUME NEW known, RecordTimeout(o, known)
        PROVE  /\ order'[p] = order[p]
               /\ payment'[p] = payment[p] \/ (~Overtaken(p) /\ Overtaken(p)')
    BY <1>1, <2>1 DEF RecordTimeout, Overtaken, TypeOK
  <2>2. CASE RecordUnsettled(o)
    BY <1>1, <1>3, <2>2 DEF RecordUnsettled, TypeOK
  <2>. QED
    BY <1>2, <1>4, <1>6, <2>1, <2>2
    DEF Request, CreateIntent, CaptureAnswered, Settle, SettleRefused, Compensate, rows
<1>7. ASSUME NEW o \in Orders, NEW type \in EventTypes, Webhook(o, type)
      PROVE  order'[p] = order[p] /\ (Settled(p) => payment'[p] = payment[p])
  <2>1. CASE UNCHANGED <<order, payment>>
    BY <2>1
  <2>2. CASE \/ ApplyPaymentSucceeded(o) \/ ApplyPaymentFailed(o)
             \/ ApplyPaymentCancelled(o) \/ ApplyPaymentPending(o)
    <3>1. \/ ApplyPaymentSucceeded(o) \/ ApplyPaymentFailed(o)
          \/ ApplyPaymentCancelled(o) \/ ApplyPaymentPending(o)
      BY <2>2
    <3>2. /\ ~Settled(o)
          /\ UNCHANGED order \/ (order[o].status = "PENDING"
                                 /\ order' = [order EXCEPT ![o].status = "PAID"])
          /\ \E status : payment' = [payment EXCEPT ![o].status = status]
      BY <3>1 DEF ApplyPaymentSucceeded, ApplyPaymentFailed, ApplyPaymentCancelled,
              ApplyPaymentPending, Settled
    <3>. QED
      BY <1>1, <3>2 DEF TypeOK
  <2>. QED
    BY <1>7, <2>1, <2>2 DEF Webhook
<1>8. ASSUME NEW o \in Orders, Callback(o) PROVE order'[p] = order[p] /\ payment'[p] = payment[p]
  BY <1>2, <1>4, <1>8 DEF Callback
<1>9. ASSUME NEW op \in Operators, Operator(op)
      PROVE  order'[p] = order[p] /\ payment'[p] = payment[p]
  <2>1. CASE Resolve(op)
    <3>1. PICK d \in Decision : decision[op] = d
      BY <2>1 DEF Resolve, TypeOK
    <3>2. d.order \in Orders /\ d.verdict \in Verdicts
      BY DEF Decision
    <3>3. \/ SettleCheckout(d.order) \/ CompensateCheckout(d.order)
          \/ UNCHANGED <<order, payment>>
      BY <2>1, <3>1, <3>2 DEF Resolve, Verdicts
    <3>. QED
      BY <1>2, <1>4, <3>2, <3>3
  <2>. QED
    BY <1>9, <2>1 DEF Operator, Requery, rows
<1>10. CASE DeleteEvent
  <2>1. Unpaid \in SUBSET {o \in Orders : order[o].status = "PENDING"}
    BY DEF Unpaid
  <2>. QED
    BY <1>3, <1>10, <2>1 DEF DeleteEvent
<1>11. ASSUME NEW o \in Orders, RequestLost(o) \/ Provider(o) PROVE UNCHANGED <<order, payment>>
  BY <1>11 DEF RequestLost, Provider, ProviderDecides, ProviderReports, rows
<1>12. CASE Worker \/ DecideDeletion \/ Tick \/ UNCHANGED vars
  BY <1>12 DEF Worker, SweepRead, SweepWrite, IssueTickets, DecideDeletion, Tick, vars, rows
<1>. QED
  BY <1>5, <1>6, <1>7, <1>8, <1>9, <1>10, <1>11, <1>12 DEF Next

(* An order that has ended is never reopened or reversed, and a settled    *)
(* payment never taken back, by any news, retry or verdict however late.   *)
THEOREM ClosedForGood == Spec => ClosedStaysClosed
<1>1. IInv /\ [Next]_vars => [ClosedIsKept]_vars
  BY ClosedIsKeptStep
<1>. QED
  BY <1>1, IInvAlways, PTL DEF Spec, ClosedStaysClosed

----------------------------------------------------------------------------
(* The uses of a promo code.  This needs nothing of payments: every path    *)
(* that ends an order gives back the uses of exactly the orders it ends.   *)

Users == {o \in Orders : order[o].promo /\ order[o].status \in {"PENDING", "PAID"}}

LEMMA UsersFinite == IsFiniteSet(Users) /\ Cardinality(Users) \in Nat
<1>1. IsFiniteSet(Users)
  BY FS_Subset, CheckoutAssumption DEF CheckoutAssumption, Users
<1>. QED
  BY <1>1, FS_CardinalityType

LEMMA UsersSame ==
  ASSUME PromoUsesExact, UNCHANGED redemptions,
         \A o \in Orders : order'[o] = order[o] \/
            /\ order'[o].promo = order[o].promo
            /\ order[o].status \in {"PENDING", "PAID"} /\ order'[o].status \in {"PENDING", "PAID"}
  PROVE  PromoUsesExact'
<1>1. Users' = Users
  BY DEF Users
<1>. QED
  BY <1>1 DEF PromoUsesExact, Users

LEMMA SettleCheckoutUsers ==
  ASSUME TypeOK, PromoUsesExact, NEW o \in Orders, SettleCheckout(o), UNCHANGED redemptions
  PROVE  PromoUsesExact'
<1>1. \/ UNCHANGED order
      \/ order[o].status = "PENDING" /\ order' = [order EXCEPT ![o].status = "PAID"]
  BY DEF SettleCheckout
<1>2. CASE UNCHANGED order
  BY <1>2, UsersSame
<1>3. CASE order[o].status = "PENDING" /\ order' = [order EXCEPT ![o].status = "PAID"]
  <2>1. /\ order'[o].promo = order[o].promo /\ order'[o].status = "PAID"
        /\ \A p \in Orders \ {o} : order'[p] = order[p]
    BY <1>3 DEF TypeOK, OrderRow
  <2>. QED
    BY <1>3, <2>1, UsersSame
<1>. QED
  BY <1>1, <1>2, <1>3

LEMMA CancelOrdersUsers ==
  ASSUME TypeOK, PromoUsesExact,
         NEW S \in SUBSET {o \in Orders : order[o].status = "PENDING"}, CancelOrders(S)
  PROVE  PromoUsesExact'
<1> DEFINE ended == {o \in S : order[o].promo}
<1>1. ended \subseteq Users
  BY DEF Users
<1>2. /\ IsFiniteSet(ended) /\ Cardinality(ended) \in Nat
      /\ Cardinality(Users \ ended) = Cardinality(Users) - Cardinality(ended)
      /\ Cardinality(ended) <= Cardinality(Users)
  <2>1. Users \cap ended = ended
    BY <1>1
  <2>2. IsFiniteSet(ended) /\ Cardinality(ended) <= Cardinality(Users)
    BY <1>1, UsersFinite, FS_Subset
  <2>3. Cardinality(ended) \in Nat
    BY <2>2, FS_CardinalityType
  <2>4. Cardinality(Users \ ended) = Cardinality(Users) - Cardinality(Users \cap ended)
    BY UsersFinite, FS_Difference
  <2>. QED
    BY <2>1, <2>2, <2>3, <2>4
<1>3. Users' = Users \ ended
  <2>1. \A o \in S : order'[o].status = "CANCELLED"
    BY DEF CancelOrders, TypeOK, OrderRow
  <2>2. \A o \in Orders \ S : order'[o] = order[o]
    BY DEF CancelOrders
  <2>. QED
    BY <2>1, <2>2 DEF Users
<1>4. redemptions = Cardinality(Users) /\ redemptions <= PromoLimit
  BY DEF PromoUsesExact, Users
<1>5. redemptions' = redemptions - Cardinality(ended)
  BY <1>2, <1>4, UsersFinite DEF CancelOrders, PromoReturned
<1>6. redemptions' = Cardinality(Users') /\ redemptions' <= PromoLimit
  BY <1>2, <1>3, <1>4, <1>5, UsersFinite, CheckoutAssumption DEF CheckoutAssumption
<1>. QED
  BY <1>6 DEF PromoUsesExact, Users

LEMMA CompensateCheckoutUsers ==
  ASSUME TypeOK, PromoUsesExact, NEW o \in Orders, CompensateCheckout(o)
  PROVE  PromoUsesExact'
<1>1. CASE order[o].status = "PENDING"
  BY <1>1, CancelOrdersUsers DEF CompensateCheckout
<1>2. CASE order[o].status # "PENDING"
  BY <1>2, UsersSame DEF CompensateCheckout
<1>. QED
  BY <1>1, <1>2

LEMMA BeginUsers ==
  ASSUME TypeOK, PromoUsesExact, NEW o \in Orders, NEW named, NEW q, NEW promo \in BOOLEAN,
         NEW free, NEW t, Begin(o, named, q, promo, free, t)
  PROVE  PromoUsesExact'
<1>1. /\ order[o].status = "NONE" /\ (promo => redemptions < PromoLimit)
      /\ order' = [order EXCEPT ![o] = [status |-> "PENDING", qty |-> q, promo |-> promo]]
      /\ redemptions' = IF promo THEN redemptions + 1 ELSE redemptions
  BY DEF Begin
<1>2. /\ o \notin Users
      /\ redemptions = Cardinality(Users) /\ redemptions <= PromoLimit
  BY <1>1 DEF PromoUsesExact, Users
<1>3. Users' = IF promo THEN Users \cup {o} ELSE Users
  BY <1>1 DEF Users, TypeOK
<1>4. Cardinality(Users \cup {o}) = Cardinality(Users) + 1
  BY <1>2, UsersFinite, FS_AddElement
<1>5. redemptions' = Cardinality(Users') /\ redemptions' <= PromoLimit
  BY <1>1, <1>2, <1>3, <1>4, UsersFinite, CheckoutAssumption DEF CheckoutAssumption
<1>. QED
  BY <1>5 DEF PromoUsesExact, Users

LEMMA PromoUsesStep == ASSUME TypeOK, PromoUsesExact, [Next]_vars PROVE PromoUsesExact'
<1>1. CASE Buyer
  <2>1. CASE UNCHANGED <<order, redemptions>>
    BY <2>1, UsersSame
  <2>. QED
    BY <1>1, <2>1, BeginUsers DEF Buyer, CreateHold, ReleaseHold
<1>2. ASSUME NEW o \in Orders, Request(o) \/ Callback(o) PROVE PromoUsesExact'
  <2>1. \/ SettleCheckout(o) /\ UNCHANGED redemptions
        \/ CompensateCheckout(o)
        \/ order[o].status = "PENDING" /\ CancelOrders({o})
        \/ UNCHANGED <<order, redemptions>>
    <3>1. RecordUnsettled(o) => \/ order[o].status = "PENDING" /\ CancelOrders({o})
                               \/ UNCHANGED <<order, redemptions>>
      BY DEF RecordUnsettled
    <3>2. Callback(o) => \/ SettleCheckout(o) /\ UNCHANGED redemptions
                         \/ CompensateCheckout(o)
      BY DEF Callback
    <3>. QED
      BY <1>2, <3>1, <3>2 DEF Request, CreateIntent, CaptureAnswered, Settle, SettleRefused,
         Compensate, RecordTimeout, rows
  <2>. QED
    BY <2>1, SettleCheckoutUsers, CompensateCheckoutUsers, CancelOrdersUsers, UsersSame
<1>3. ASSUME NEW o \in Orders, NEW type \in EventTypes, Webhook(o, type) PROVE PromoUsesExact'
  <2>1. \/ UNCHANGED order
        \/ order[o].status = "PENDING" /\ order' = [order EXCEPT ![o].status = "PAID"]
    BY <1>3
    DEF Webhook, ApplyPaymentSucceeded, ApplyPaymentFailed, ApplyPaymentCancelled,
        ApplyPaymentPending
  <2>2. UNCHANGED redemptions
    BY <1>3 DEF Webhook
  <2>3. ASSUME order[o].status = "PENDING", order' = [order EXCEPT ![o].status = "PAID"]
        PROVE  PromoUsesExact'
    <3>1. /\ order'[o].promo = order[o].promo /\ order'[o].status = "PAID"
          /\ \A p \in Orders \ {o} : order'[p] = order[p]
      BY <2>3 DEF TypeOK, OrderRow
    <3>. QED
      BY <2>2, <2>3, <3>1, UsersSame
  <2>. QED
    BY <2>1, <2>2, <2>3, UsersSame
<1>4. ASSUME NEW op \in Operators, Operator(op) PROVE PromoUsesExact'
  <2>1. CASE Resolve(op)
    <3>1. PICK d \in Decision : decision[op] = d
      BY <2>1 DEF Resolve, TypeOK
    <3>2. d.order \in Orders /\ d.verdict \in Verdicts
      BY DEF Decision
    <3>3. \/ SettleCheckout(d.order) /\ UNCHANGED redemptions
          \/ CompensateCheckout(d.order)
          \/ UNCHANGED <<order, redemptions>>
      BY <2>1, <3>1, <3>2 DEF Resolve, Verdicts
    <3>. QED
      BY <3>2, <3>3, SettleCheckoutUsers, CompensateCheckoutUsers, UsersSame
  <2>. QED
    BY <1>4, <2>1, UsersSame DEF Operator, Requery, rows
<1>5. CASE DeleteEvent
  <2>1. Unpaid \in SUBSET {o \in Orders : order[o].status = "PENDING"}
    BY DEF Unpaid
  <2>. QED
    BY <1>5, <2>1, CancelOrdersUsers DEF DeleteEvent
<1>6. ASSUME NEW o \in Orders, RequestLost(o) \/ Provider(o) PROVE PromoUsesExact'
  BY <1>6, UsersSame DEF RequestLost, Provider, ProviderDecides, ProviderReports, rows
<1>7. CASE Worker \/ DecideDeletion \/ Tick \/ UNCHANGED vars
  BY <1>7, UsersSame DEF Worker, SweepRead, SweepWrite, IssueTickets, DecideDeletion, Tick, vars, rows
<1>. QED
  BY <1>1, <1>2, <1>3, <1>4, <1>5, <1>6, <1>7 DEF Next

(* A promo code's count is exactly the orders that use it and have not     *)
(* ended, and never exceeds its limit, whoever ends them and how often.    *)
THEOREM PromoExact == Spec => []PromoUsesExact
<1>1. Init => PromoUsesExact
  <2> SUFFICES ASSUME Init PROVE PromoUsesExact
    OBVIOUS
  <2>1. Users = {} /\ redemptions = 0
    BY DEF Init, Users
  <2>2. Cardinality(Users) = 0
    BY <2>1, FS_EmptySet
  <2>. QED
    BY <2>1, <2>2, CheckoutAssumption DEF CheckoutAssumption, PromoUsesExact, Users
<1>2. TypeOK /\ PromoUsesExact /\ [Next]_vars => PromoUsesExact'
  BY PromoUsesStep
<1>. QED
  BY <1>1, <1>2, Typed, PTL DEF Spec

----------------------------------------------------------------------------
(* Sums.  A sum over a finite set is the size of the set of units it       *)
(* counts (module Counting), so what is needed of it follows from what is  *)
(* known of finite sets, with no induction.                                *)

IsCount(f, S) == IsFiniteSet(S) /\ \A x \in S : f[x] \in Nat

LEMMA UnitsAre ==
  ASSUME NEW S, NEW f, NEW u
  PROVE  u \in Units(f, S) <=> \E x \in S : \E k \in 1 .. f[x] : u = <<x, k>>
BY DEF Units

LEMMA UnitsOfOne ==
  ASSUME NEW x, NEW f, f[x] \in Nat
  PROVE  /\ IsFiniteSet({x} \X (1 .. f[x]))
         /\ Cardinality({x} \X (1 .. f[x])) = f[x]
<1>1. IsFiniteSet({x}) /\ Cardinality({x}) = 1
  BY FS_Singleton
<1>2. IsFiniteSet(1 .. f[x]) /\ Cardinality(1 .. f[x]) = f[x]
  BY FS_Interval
<1>3. /\ IsFiniteSet({x} \X (1 .. f[x]))
      /\ Cardinality({x} \X (1 .. f[x])) = Cardinality({x}) * Cardinality(1 .. f[x])
  BY <1>1, <1>2, FS_Product
<1>. QED
  BY <1>1, <1>2, <1>3

LEMMA SumIsNat ==
  ASSUME NEW S, NEW f, IsCount(f, S)
  PROVE  IsFiniteSet(Units(f, S)) /\ SumOf(f, S) \in Nat
<1>. DEFINE brings == [x \in S |-> {x} \X (1 .. f[x])]
            each == {{x} \X (1 .. f[x]) : x \in S}
<1>1. brings \in Surjection(S, each)
  BY DEF Surjection
<1>2. IsFiniteSet(each)
  BY <1>1, FS_Surjection DEF IsCount
<1>3. \A T \in each : IsFiniteSet(T)
  BY UnitsOfOne DEF IsCount
<1>4. IsFiniteSet(Units(f, S))
  BY <1>2, <1>3, FS_UNION DEF Units
<1>. QED
  BY <1>4, FS_CardinalityType DEF SumOf

LEMMA SumOfNone == ASSUME NEW f PROVE SumOf(f, {}) = 0
<1>1. Units(f, {}) = {}
  BY DEF Units
<1>. QED
  BY <1>1, FS_EmptySet DEF SumOf

LEMMA SumOfOne == ASSUME NEW x, NEW f, f[x] \in Nat PROVE SumOf(f, {x}) = f[x]
<1>1. Units(f, {x}) = {x} \X (1 .. f[x])
  BY DEF Units
<1>. QED
  BY <1>1, UnitsOfOne DEF SumOf

LEMMA SumSame ==
  ASSUME NEW S, NEW f, NEW g, \A x \in S : f[x] = g[x]
  PROVE  SumOf(f, S) = SumOf(g, S)
<1>1. \A x \in S : {x} \X (1 .. f[x]) = {x} \X (1 .. g[x])
  OBVIOUS
<1>2. Units(f, S) = Units(g, S)
  BY <1>1 DEF Units
<1>. QED
  BY <1>2 DEF SumOf

LEMMA SumOfBoth ==
  ASSUME NEW S, NEW T, NEW f, IsCount(f, S), IsCount(f, T), S \cap T = {}
  PROVE  SumOf(f, S \cup T) = SumOf(f, S) + SumOf(f, T)
<1>1. Units(f, S \cup T) = Units(f, S) \cup Units(f, T)
  BY DEF Units
<1>2. Units(f, S) \cap Units(f, T) = {}
  BY UnitsAre
<1>3. IsFiniteSet(Units(f, S)) /\ IsFiniteSet(Units(f, T))
  BY SumIsNat
<1>4. Cardinality(Units(f, S) \cup Units(f, T)) =
        Cardinality(Units(f, S)) + Cardinality(Units(f, T)) - Cardinality({})
  BY <1>2, <1>3, FS_Union
<1>5. Cardinality(Units(f, S)) \in Nat /\ Cardinality(Units(f, T)) \in Nat
  BY SumIsNat DEF SumOf
<1>6. Cardinality({}) = 0
  BY FS_EmptySet
<1>7. SumOf(f, S \cup T) = Cardinality(Units(f, S) \cup Units(f, T))
  BY <1>1, Zenon DEF SumOf
<1>. QED
  BY <1>4, <1>5, <1>6, <1>7 DEF SumOf

LEMMA SumOfPart ==
  ASSUME NEW S, NEW f, IsCount(f, S), NEW T \in SUBSET S
  PROVE  IsCount(f, T) /\ SumOf(f, T) <= SumOf(f, S)
<1>1. Units(f, T) \subseteq Units(f, S)
  BY UnitsAre
<1>2. IsCount(f, T)
  BY FS_Subset DEF IsCount
<1>. QED
  BY <1>1, <1>2, SumIsNat, FS_Subset DEF SumOf

LEMMA SumWithout ==
  ASSUME NEW S, NEW f, IsCount(f, S), NEW x \in S
  PROVE  SumOf(f, S) = SumOf(f, S \ {x}) + f[x] /\ SumOf(f, S \ {x}) \in Nat
<1>1. IsCount(f, S \ {x}) /\ IsCount(f, {x})
  BY SumOfPart
<1>2. S = (S \ {x}) \cup {x}
  OBVIOUS
<1>3. SumOf(f, (S \ {x}) \cup {x}) = SumOf(f, S \ {x}) + SumOf(f, {x})
  BY <1>1, SumOfBoth
<1>4. f[x] \in Nat
  BY DEF IsCount
<1>. QED
  BY <1>1, <1>2, <1>3, <1>4, SumOfOne, SumIsNat

LEMMA SumChanged ==
  ASSUME NEW S, NEW f, NEW g, IsCount(f, S), IsCount(g, S), NEW x \in S,
         \A y \in S \ {x} : g[y] = f[y]
  PROVE  SumOf(g, S) = SumOf(f, S) - f[x] + g[x]
<1>1. SumOf(g, S \ {x}) = SumOf(f, S \ {x})
  BY SumSame
<1>2. /\ SumOf(f, S) = SumOf(f, S \ {x}) + f[x] /\ SumOf(f, S \ {x}) \in Nat
      /\ SumOf(g, S) = SumOf(g, S \ {x}) + g[x]
  BY SumWithout
<1>3. f[x] \in Nat /\ g[x] \in Nat
  BY DEF IsCount
<1>. QED
  BY <1>1, <1>2, <1>3

LEMMA SumOfLess ==
  ASSUME NEW S, NEW f, NEW g, IsCount(f, S), IsCount(g, S), \A x \in S : g[x] <= f[x]
  PROVE  SumOf(g, S) <= SumOf(f, S)
<1>1. \A x \in S : 1 .. g[x] \subseteq 1 .. f[x]
  BY DEF IsCount
<1>2. Units(g, S) \subseteq Units(f, S)
  BY <1>1, UnitsAre
<1>. QED
  BY <1>2, SumIsNat, FS_Subset DEF SumOf

(* If each a of A is counted by a part of S of its own that is no smaller,  *)
(* the whole of A counts no more than the whole of S: the units of each a  *)
(* are sent into the units of its part.                                    *)
LEMMA SumOfParts ==
  ASSUME NEW A, NEW S, NEW f, NEW g, NEW part, IsCount(f, A), IsCount(g, S),
         \A a \in A : part[a] \in SUBSET S /\ f[a] <= SumOf(g, part[a]),
         \A a, b \in A : a # b => part[a] \cap part[b] = {}
  PROVE  SumOf(f, A) <= SumOf(g, S)
<1>. DEFINE size(a) == SumOf(g, part[a])
            number == [a \in A |-> CHOOSE b : b \in Bijection(1 .. size(a), Units(g, part[a]))]
            send == [u \in Units(f, A) |-> number[u[1]][u[2]]]
<1>1. ASSUME NEW a \in A
      PROVE  size(a) \in Nat /\ number[a] \in Bijection(1 .. size(a), Units(g, part[a]))
  <2>1. IsCount(g, part[a])
    BY SumOfPart
  <2>2. IsFiniteSet(Units(g, part[a])) /\ size(a) = Cardinality(Units(g, part[a]))
        /\ size(a) \in Nat
    BY <2>1, SumIsNat DEF SumOf
  <2>3. \E b : b \in Bijection(1 .. size(a), Units(g, part[a]))
    BY <2>2, FS_CardinalityType DEF ExistsBijection
  <2>. QED
    BY <2>2, <2>3
<1>2. ASSUME NEW u \in Units(f, A)
      PROVE  /\ u[1] \in A /\ u[2] \in 1 .. size(u[1]) /\ u = <<u[1], u[2]>>
             /\ send[u] \in Units(g, part[u[1]])
  <2>1. PICK a \in A : \E k \in 1 .. f[a] : u = <<a, k>>
    BY UnitsAre
  <2>. PICK k \in 1 .. f[a] : u = <<a, k>>
    BY <2>1
  <2>2. f[a] \in Nat /\ size(a) \in Nat /\ f[a] <= size(a)
    BY <1>1 DEF IsCount
  <2>3. k \in 1 .. size(a)
    BY <2>2
  <2>4. u[1] = a /\ u[2] = k
    OBVIOUS
  <2>5. number[a] \in [1 .. size(a) -> Units(g, part[a])]
    BY <1>1 DEF Bijection, Injection
  <2>6. number[a][k] \in Units(g, part[a])
    BY <2>3, <2>5
  <2>. HIDE DEF number
  <2>. QED
    BY <2>3, <2>4, <2>6
<1>. HIDE DEF send, number
<1>3. ASSUME NEW u \in Units(f, A) PROVE send[u] \in Units(g, S)
  <2>1. part[u[1]] \subseteq S
    BY <1>2
  <2>2. Units(g, part[u[1]]) \subseteq Units(g, S)
    BY <2>1, UnitsAre
  <2>. QED
    BY <1>2, <2>2
<1>4. ASSUME NEW u \in Units(f, A), NEW v \in Units(f, A), send[u] = send[v]
      PROVE  u = v
  <2>1. u[1] = v[1]
    <3>1. send[u] \in Units(g, part[u[1]]) /\ send[u] \in Units(g, part[v[1]])
      BY <1>2, <1>4
    <3>2. part[u[1]] \cap part[v[1]] # {}
      BY <3>1, UnitsAre
    <3>. QED
      BY <1>2, <3>2
  <2>2. number[u[1]][u[2]] = number[u[1]][v[2]]
    BY <1>4, <2>1 DEF send
  <2>3. u[2] = v[2]
    <3>1. number[u[1]] \in Injection(1 .. size(u[1]), Units(g, part[u[1]]))
      BY <1>1, <1>2 DEF Bijection
    <3>2. u[2] \in 1 .. size(u[1]) /\ v[2] \in 1 .. size(u[1])
      BY <1>2, <2>1
    <3>. QED
      BY <2>2, <3>1, <3>2 DEF Injection, IsInjective
  <2>. QED
    BY <1>2, <2>1, <2>3
<1>5. send \in Injection(Units(f, A), Units(g, S))
  <2>1. send \in [Units(f, A) -> Units(g, S)]
    BY <1>3 DEF send
  <2>. QED
    BY <1>4, <2>1 DEF Injection, IsInjective
<1>. QED
  BY <1>5, SumIsNat, FS_Injection DEF SumOf

----------------------------------------------------------------------------
(* What a step may do to orders, holds and the sold count, told apart by    *)
(* the orders it moves: it begins one, sells one, ends some, marks one     *)
(* PAID on the provider's word alone, or leaves them all as they are.      *)

Pending == {o \in Orders : order[o].status = "PENDING"}

Begins ==
  \E t \in RequestInstants, o \in Orders, named \in SUBSET Holds, q \in Quantities,
     promo, free \in BOOLEAN : Begin(o, named, q, promo, free, t)

Sells(o) ==
  /\ o \in Pending
  /\ SettleCheckout(o)
  /\ UNCHANGED now

Ends(S) ==
  /\ S \subseteq Pending
  /\ CancelOrders(S)
  /\ UNCHANGED <<now, sold>>

MarksPaid(o) ==
  /\ o \in Pending
  /\ order' = [order EXCEPT ![o].status = "PAID"]
  /\ UNCHANGED <<now, hold, sold>>

HoldsMove ==
  \/ \E h \in Holds, q \in Quantities, t \in Instants : CreateHold(h, q, t)
  \/ \E h \in Holds, t \in Instants : ReleaseHold(h, t)
  \/ SweepWrite

Rests == UNCHANGED <<now, order, hold, sold>> \/ Tick

LEMMA SettleKind ==
  ASSUME NEW o \in Orders, SettleCheckout(o), UNCHANGED now
  PROVE  Sells(o) \/ Rests
BY DEF SettleCheckout, Sells, Pending, Rests

LEMMA CompensateKind ==
  ASSUME NEW o \in Orders, CompensateCheckout(o), UNCHANGED <<now, hold, sold>>
  PROVE  (\E S \in SUBSET Orders : Ends(S) /\ UNCHANGED hold) \/ Rests
<1>1. CASE order[o].status # "PENDING"
  BY <1>1 DEF CompensateCheckout, Rests
<1>2. CASE order[o].status = "PENDING"
  <2>1. Ends({o}) /\ UNCHANGED hold
    BY <1>2 DEF CompensateCheckout, Ends, Pending
  <2>. QED
    BY <2>1
<1>. QED
  BY <1>1, <1>2

Kinds ==
  \/ Begins
  \/ \E o \in Orders : Sells(o) \/ MarksPaid(o)
  \/ \E S \in SUBSET Orders : Ends(S) /\ UNCHANGED hold
  \/ DeleteEvent
  \/ HoldsMove
  \/ Rests

LEMMA StepKinds == ASSUME TypeOK, [Next]_vars PROVE Kinds
<1>1. CASE Buyer
  BY <1>1 DEF Buyer, Kinds, Begins, HoldsMove, RequestInstants
<1>2. ASSUME NEW o \in Orders, Request(o) PROVE Kinds
  <2>1. CASE Settle(o)
    BY <2>1, SettleKind DEF Settle, Kinds
  <2>2. CASE Compensate(o)
    BY <2>2, CompensateKind DEF Compensate, Kinds
  <2>3. CASE RecordUnsettled(o)
    <3>1. UNCHANGED <<now, hold, sold>>
      BY <2>3 DEF RecordUnsettled
    <3>2. CASE order[o].status = "PENDING" /\ CancelOrders({o})
      <4>1. Ends({o}) /\ UNCHANGED hold
        BY <3>1, <3>2 DEF Ends, Pending
      <4>. QED
        BY <4>1 DEF Kinds
    <3>3. CASE UNCHANGED order
      BY <3>1, <3>3 DEF Kinds, Rests
    <3>. QED
      BY <2>3, <3>2, <3>3 DEF RecordUnsettled
  <2>4. ASSUME NEW known, RecordTimeout(o, known) PROVE Kinds
    BY <2>4 DEF RecordTimeout, Kinds, Rests
  <2>5. ASSUME NEW answer, CaptureAnswered(o, answer) PROVE Kinds
    BY <2>5 DEF CaptureAnswered, rows, Kinds, Rests
  <2>6. CASE CreateIntent(o) \/ SettleRefused(o)
    BY <2>6 DEF CreateIntent, SettleRefused, rows, Kinds, Rests
  <2>. QED
    BY <1>2, <2>1, <2>2, <2>3, <2>4, <2>5, <2>6 DEF Request
<1>3. ASSUME NEW o \in Orders, RequestLost(o) \/ Provider(o) PROVE Kinds
  BY <1>3 DEF RequestLost, Provider, ProviderDecides, ProviderReports, rows, Kinds, Rests
<1>4. ASSUME NEW o \in Orders, NEW type \in EventTypes, Webhook(o, type) PROVE Kinds
  <2>1. \/ UNCHANGED order
        \/ /\ o \in Pending
           /\ order' = [order EXCEPT ![o].status = "PAID"]
    BY <1>4
    DEF Webhook, ApplyPaymentSucceeded, ApplyPaymentFailed,
        ApplyPaymentCancelled, ApplyPaymentPending, Pending
  <2>2. UNCHANGED <<now, hold, sold>>
    BY <1>4 DEF Webhook
  <2>. QED
    BY <2>1, <2>2 DEF Kinds, MarksPaid, Rests
<1>5. ASSUME NEW o \in Orders, Callback(o) PROVE Kinds
  <2>1. \/ SettleCheckout(o)
        \/ CompensateCheckout(o) /\ UNCHANGED <<hold, sold>>
    BY <1>5 DEF Callback
  <2>2. UNCHANGED now
    BY <1>5 DEF Callback
  <2>. QED
    BY <2>1, <2>2, SettleKind, CompensateKind DEF Kinds
<1>6. ASSUME NEW op \in Operators, Operator(op) PROVE Kinds
  <2>1. CASE Resolve(op)
    <3>1. PICK d \in Decision : decision[op] = d
      BY <2>1 DEF Resolve, TypeOK
    <3>2. d.order \in Orders /\ d.verdict \in Verdicts
      BY DEF Decision
    <3>3. \/ SettleCheckout(d.order)
          \/ CompensateCheckout(d.order) /\ UNCHANGED <<hold, sold>>
          \/ UNCHANGED <<hold, order, sold>>
      BY <2>1, <3>1, <3>2 DEF Resolve, Verdicts
    <3>4. UNCHANGED now
      BY <2>1 DEF Resolve
    <3>. QED
      BY <3>2, <3>3, <3>4, SettleKind, CompensateKind DEF Kinds, Rests
  <2>2. ASSUME NEW o \in Orders, NEW kind, Requery(op, o, kind) PROVE Kinds
    BY <2>2 DEF Requery, rows, Kinds, Rests
  <2>. QED
    BY <1>6, <2>1, <2>2 DEF Operator
<1>7. CASE Worker
  BY <1>7 DEF Worker, SweepRead, IssueTickets, rows, Kinds, HoldsMove, Rests
<1>8. CASE DecideDeletion \/ DeleteEvent \/ Tick \/ UNCHANGED vars
  BY <1>8 DEF DecideDeletion, vars, rows, Kinds, Rests
<1>. QED
  BY <1>1, <1>2, <1>3, <1>4, <1>5, <1>6, <1>7, <1>8 DEF Next

----------------------------------------------------------------------------
(* What an order holds.                                                    *)

Gone == event \in {"REMOVED", "REFUNDED"}

HoldsOf(o) == {h \in Holds : Active(h) /\ hold[h].order = o}

HoldQuantities == [h \in Holds |-> hold[h].qty]

LEMMA HoldsCount ==
  ASSUME TypeOK, NEW S \in SUBSET Holds
  PROVE  /\ IsCount(HoldQuantities, S) /\ HeldBy(S) = SumOf(HoldQuantities, S)
         /\ HeldBy(S) \in Nat
<1>1. IsFiniteSet(S)
  BY FS_Subset, CheckoutAssumption DEF CheckoutAssumption
<1>2. \A h \in Holds : hold[h].qty \in Nat
  BY CheckoutAssumption DEF CheckoutAssumption, TypeOK, HoldRow, Quantities
<1>3. IsCount(HoldQuantities, S)
  BY <1>1, <1>2 DEF IsCount, HoldQuantities
<1>. QED
  BY <1>3, SumIsNat DEF HeldBy, HoldQuantities

LEMMA HoldsCountNext ==
  ASSUME TypeOK', NEW S \in SUBSET Holds
  PROVE  IsCount(HoldQuantities', S) /\ SumOf(HoldQuantities', S) \in Nat
<1>1. IsFiniteSet(S)
  BY FS_Subset, CheckoutAssumption DEF CheckoutAssumption
<1>2. \A h \in Holds : hold'[h].qty \in Nat
  BY CheckoutAssumption DEF CheckoutAssumption, TypeOK, HoldRow, Quantities
<1>3. IsCount(HoldQuantities', S)
  BY <1>1, <1>2 DEF IsCount, HoldQuantities
<1>. QED
  BY <1>3, SumIsNat

(* A step that leaves the holds of an order as they are. *)
Undisturbed(o) ==
  /\ order[o].status = "PENDING" /\ order'[o].qty = order[o].qty
  /\ HoldsOf(o)' = HoldsOf(o)
  /\ \A h \in HoldsOf(o) : hold'[h] = hold[h]

Holding(o) == HeldBy(HoldsOf(o)) >= order[o].qty

LEMMA UndisturbedHolding ==
  ASSUME NEW o \in Orders, Holding(o), Undisturbed(o)
  PROVE  Holding(o)'
<1>1. SumOf(HoldQuantities', HoldsOf(o)) = SumOf(HoldQuantities, HoldsOf(o))
  <2>1. \A h \in HoldsOf(o) : HoldQuantities'[h] = HoldQuantities[h]
    BY DEF Undisturbed, HoldsOf, HoldQuantities
  <2>. QED
    BY <2>1, SumSame
<1>. QED
  BY <1>1 DEF Undisturbed, Holding, HeldBy, HoldQuantities

(* The order a checkout begins is covered by what it names and tops up. *)
LEMMA BegunHolding ==
  ASSUME TypeOK, TypeOK', NEW o \in Orders, NEW named \in SUBSET Holds, NEW q \in Quantities,
         NEW promo, NEW free, NEW t \in RequestInstants, Begin(o, named, q, promo, free, t)
  PROVE  Holding(o)'
<1>1. PICK topUp \in SUBSET {h \in Holds : hold[h].status = "NONE"} :
        \E unheld \in 0 .. MaxQty :
          /\ unheld = IF q > HeldBy(named) THEN q - HeldBy(named) ELSE 0
          /\ Cardinality(topUp) = IF unheld > 0 THEN 1 ELSE 0
          /\ hold' = [h \in Holds |->
                        IF h \in named THEN [hold[h] EXCEPT !.order = o]
                        ELSE IF h \in topUp THEN FreshHold(o, unheld, t)
                        ELSE hold[h]]
  BY DEF Begin
<1>2. PICK unheld \in 0 .. MaxQty :
        /\ unheld = IF q > HeldBy(named) THEN q - HeldBy(named) ELSE 0
        /\ Cardinality(topUp) = IF unheld > 0 THEN 1 ELSE 0
        /\ hold' = [h \in Holds |->
                      IF h \in named THEN [hold[h] EXCEPT !.order = o]
                      ELSE IF h \in topUp THEN FreshHold(o, unheld, t)
                      ELSE hold[h]]
  BY <1>1
<1>3. /\ named \subseteq {h \in Holds : Active(h)} /\ topUp \subseteq Holds
      /\ named \cap topUp = {}
  BY DEF Begin, Spendable, Active
<1>4. order'[o].qty = q /\ q \in Nat /\ HeldBy(named) \in Nat
  BY HoldsCount, CheckoutAssumption DEF CheckoutAssumption, Begin, TypeOK, Quantities
<1>5. \A h \in named : hold'[h].status = "ACTIVE" /\ hold'[h].order = o /\ hold'[h].qty = hold[h].qty
  BY <1>2, <1>3 DEF TypeOK, HoldRow, Active
<1>6. \A h \in topUp : hold'[h].status = "ACTIVE" /\ hold'[h].order = o /\ hold'[h].qty = unheld
  BY <1>2, <1>3 DEF FreshHold
<1>7. named \cup topUp \in SUBSET (HoldsOf(o)') /\ HoldsOf(o)' \in SUBSET Holds
  BY <1>3, <1>5, <1>6 DEF HoldsOf, Active
<1>. DEFINE now_held(S) == SumOf(HoldQuantities', S)
<1>8. \A S \in SUBSET Holds : IsCount(HoldQuantities', S) /\ now_held(S) \in Nat
  BY HoldsCountNext
<1>9. now_held(named) = HeldBy(named)
  <2>1. \A h \in named : HoldQuantities'[h] = HoldQuantities[h]
    BY <1>5 DEF HoldQuantities
  <2>. QED
    BY <2>1, SumSame, HoldsCount
<1>10. now_held(topUp) = unheld
  <2>1. CASE unheld = 0
    <3>1. IsFiniteSet(topUp) /\ Cardinality(topUp) = 0
      BY <1>2, <1>3, <1>8, <2>1 DEF IsCount
    <3>2. topUp = {}
      BY <3>1, FS_EmptySet
    <3>. QED
      BY <2>1, <3>2, SumOfNone
  <2>2. CASE unheld > 0
    <3>1. IsFiniteSet(topUp) /\ Cardinality(topUp) = 1
      BY <1>2, <1>3, <1>8, <2>2 DEF IsCount
    <3>2. PICK h : topUp = {h}
      BY <3>1, FS_Singleton
    <3>3. HoldQuantities'[h] = unheld /\ unheld \in Nat
      BY <1>3, <1>6, <3>2 DEF HoldQuantities
    <3>. QED
      BY <3>2, <3>3, SumOfOne
  <2>. QED
    BY <2>1, <2>2
<1>11. now_held(named \cup topUp) = HeldBy(named) + unheld
  BY <1>3, <1>8, <1>9, <1>10, SumOfBoth
<1>12. now_held(named \cup topUp) <= now_held(HoldsOf(o)')
  BY <1>7, <1>8, SumOfPart
<1>13. HeldBy(HoldsOf(o))' = now_held(HoldsOf(o)')
  BY DEF HeldBy, HoldQuantities
<1>14. HeldBy(named) + unheld >= q
  BY <1>2, <1>4
<1>. HIDE DEF now_held
<1>. QED
  BY <1>4, <1>7, <1>8, <1>11, <1>12, <1>13, <1>14 DEF Holding

(* Only its own checkout, its settlement, its end and the deletion of the  *)
(* event touch what an order holds.                                        *)
LEMMA PendingUndisturbed ==
  ASSUME TypeOK, Kinds, ~DeleteEvent, NEW o \in Orders, order'[o].status = "PENDING"
  PROVE  \/ Undisturbed(o)
         \/ \E t \in RequestInstants, named \in SUBSET Holds, q \in Quantities,
               promo, free \in BOOLEAN : Begin(o, named, q, promo, free, t)
<1>0. o # NoOrder
  BY SentinelAssumption
<1>1. CASE HoldsMove
  <2>1. order' = order
    BY <1>1 DEF HoldsMove, CreateHold, ReleaseHold, SweepWrite
  <2>2. \A h \in HoldsOf(o) : Active(h) /\ AwaitingPayment(h)
    BY <1>0, <2>1 DEF HoldsOf, AwaitingPayment
  <2>3. ASSUME NEW h \in Holds, NEW q, NEW t, CreateHold(h, q, t) PROVE Undisturbed(o)
    <3>1. /\ hold' = [hold EXCEPT ![h] = FreshHold(NoOrder, q, t)]
          /\ hold[h].status = "NONE"
      BY <2>3 DEF CreateHold
    <3>2. hold'[h].order = NoOrder /\ \A g \in Holds \ {h} : hold'[g] = hold[g]
      BY <3>1 DEF TypeOK, FreshHold
    <3>3. h \notin HoldsOf(o) /\ h \notin HoldsOf(o)'
      BY <1>0, <3>1, <3>2 DEF HoldsOf, Active
    <3>4. HoldsOf(o)' = HoldsOf(o)
      BY <3>2, <3>3 DEF HoldsOf, Active
    <3>. QED
      BY <2>1, <3>2, <3>3, <3>4 DEF Undisturbed, HoldsOf
  <2>4. ASSUME NEW h \in Holds, NEW t, ReleaseHold(h, t) PROVE Undisturbed(o)
    <3>1. /\ hold' = [hold EXCEPT ![h].status = IF IsHoldExpired(h, t) THEN "EXPIRED" ELSE "RELEASED"]
          /\ ~AwaitingPayment(h)
      BY <2>4 DEF ReleaseHold
    <3>2. hold'[h].status # "ACTIVE" /\ \A g \in Holds \ {h} : hold'[g] = hold[g]
      BY <3>1 DEF TypeOK, HoldRow
    <3>3. h \notin HoldsOf(o) /\ h \notin HoldsOf(o)'
      BY <2>2, <3>1, <3>2 DEF HoldsOf, Active
    <3>4. HoldsOf(o)' = HoldsOf(o)
      BY <3>2, <3>3 DEF HoldsOf, Active
    <3>. QED
      BY <2>1, <3>2, <3>3, <3>4 DEF Undisturbed, HoldsOf
  <2>5. CASE SweepWrite
    <3>1. hold' = [h \in Holds |->
                     IF h \in candidates /\ Active(h) /\ ~AwaitingPayment(h)
                       THEN [hold[h] EXCEPT !.status = "EXPIRED"] ELSE hold[h]]
      BY <2>5 DEF SweepWrite
    <3>2. \A h \in HoldsOf(o) : hold'[h] = hold[h]
      BY <2>2, <3>1 DEF HoldsOf
    <3>3. \A h \in Holds : hold'[h] = hold[h] \/ hold'[h].status = "EXPIRED"
      BY <3>1 DEF TypeOK, HoldRow
    <3>4. HoldsOf(o)' = HoldsOf(o)
      BY <3>2, <3>3 DEF HoldsOf, Active
    <3>. QED
      BY <2>1, <3>2, <3>4 DEF Undisturbed
  <2>. QED
    BY <1>1, <2>3, <2>4, <2>5 DEF HoldsMove
<1>2. ASSUME NEW t \in RequestInstants, NEW p \in Orders, NEW named \in SUBSET Holds,
             NEW q \in Quantities, NEW promo \in BOOLEAN, NEW free \in BOOLEAN, p # o,
             Begin(p, named, q, promo, free, t)
      PROVE  Undisturbed(o)
  <2>1. order'[o] = order[o]
    BY <1>2 DEF Begin, TypeOK
  <2>2. \A h \in HoldsOf(o) : h \notin named /\ hold[h].status # "NONE"
    BY <1>0, <1>2, <2>1 DEF Begin, Spendable, HoldsOf, AwaitingPayment, Active
  <2>3. \A h \in Holds : hold'[h] = hold[h] \/ hold'[h].order = p
    BY <1>2 DEF Begin, FreshHold, TypeOK, HoldRow
  <2>4. \A h \in HoldsOf(o) : hold'[h] = hold[h]
    BY <1>2, <2>2 DEF Begin, HoldsOf
  <2>5. HoldsOf(o)' = HoldsOf(o)
    BY <1>2, <2>3, <2>4 DEF HoldsOf, Active
  <2>. QED
    BY <2>1, <2>4, <2>5 DEF Undisturbed
<1>3. ASSUME NEW p \in Orders, Sells(p) PROVE Undisturbed(o)
  <2>1. /\ order' = [order EXCEPT ![p].status = "PAID"]
        /\ hold' = [h \in Holds |->
                      IF Active(h) /\ hold[h].order = p
                        THEN [hold[h] EXCEPT !.status = "CONVERTED"] ELSE hold[h]]
    BY <1>3 DEF Sells, Pending, SettleCheckout
  <2>2. p # o /\ order'[o] = order[o]
    BY <2>1 DEF TypeOK, OrderRow
  <2>3. \A h \in Holds : hold'[h] = hold[h] \/ (hold[h].order = p /\ hold'[h].order = p)
    BY <2>1 DEF TypeOK, HoldRow
  <2>4. \A h \in HoldsOf(o) : hold'[h] = hold[h]
    BY <2>2, <2>3 DEF HoldsOf
  <2>5. HoldsOf(o)' = HoldsOf(o)
    BY <2>2, <2>3, <2>4 DEF HoldsOf, Active
  <2>. QED
    BY <2>2, <2>4, <2>5 DEF Undisturbed
<1>4. ASSUME order'[o] = order[o], hold' = hold PROVE Undisturbed(o)
  BY <1>4 DEF Undisturbed, HoldsOf, Active
<1>5. ASSUME NEW p \in Orders, MarksPaid(p) PROVE Undisturbed(o)
  <2>1. order'[o] = order[o]
    BY <1>5 DEF MarksPaid, TypeOK, OrderRow
  <2>. QED
    BY <1>4, <1>5, <2>1 DEF MarksPaid
<1>6. ASSUME NEW S \in SUBSET Orders, Ends(S), UNCHANGED hold PROVE Undisturbed(o)
  <2>1. order'[o] = order[o]
    BY <1>6 DEF Ends, CancelOrders, TypeOK, OrderRow
  <2>. QED
    BY <1>4, <1>6, <2>1
<1>7. CASE Rests
  BY <1>4, <1>7 DEF Rests, Tick, rows
<1>. QED
  BY <1>1, <1>2, <1>3, <1>5, <1>6, <1>7 DEF Kinds, Begins

(* Every order that awaits its payment holds what it is for. *)
AllHeld == \A o \in Pending : Holding(o)

LEMMA HoldingStep ==
  ASSUME TypeOK, TypeOK', Kinds, ~DeleteEvent, AllHeld
  PROVE  AllHeld'
<1>1. SUFFICES ASSUME NEW o \in Orders, order'[o].status = "PENDING" PROVE Holding(o)'
  BY DEF AllHeld, Pending
<1>2. CASE Undisturbed(o)
  <2>1. Holding(o)
    BY <1>2 DEF Undisturbed, AllHeld, Pending
  <2>. QED
    BY <1>2, <2>1, UndisturbedHolding
<1>. QED
  BY <1>1, <1>2, PendingUndisturbed, BegunHolding

LEMMA EventKind == ASSUME [Next]_vars PROVE event' = event \/ DecideDeletion \/ DeleteEvent
<1>1. ASSUME Buyer PROVE event' = event
  BY <1>1 DEF Buyer, CreateHold, ReleaseHold, Begin
<1>2. ASSUME NEW o \in Orders, Request(o) PROVE event' = event
  BY <1>2 DEF Request, CreateIntent, CaptureAnswered, Settle, SettleRefused, Compensate,
              RecordTimeout, RecordUnsettled, rows
<1>3. ASSUME NEW o \in Orders, RequestLost(o) \/ Provider(o) \/ Callback(o) PROVE event' = event
  BY <1>3 DEF RequestLost, Provider, ProviderDecides, ProviderReports, Callback, rows
<1>4. ASSUME NEW o \in Orders, NEW type \in EventTypes, Webhook(o, type) PROVE event' = event
  BY <1>4 DEF Webhook
<1>5. ASSUME NEW op \in Operators, Operator(op) PROVE event' = event
  BY <1>5 DEF Operator, Requery, Resolve, rows
<1>6. ASSUME Worker \/ Tick \/ UNCHANGED vars PROVE event' = event
  BY <1>6 DEF Worker, SweepRead, SweepWrite, IssueTickets, Tick, rows, vars
<1>. QED
  BY <1>1, <1>2, <1>3, <1>4, <1>5, <1>6 DEF Next

LEMMA GoneStays == ASSUME Gone, [Next]_vars PROVE Gone'
BY EventKind DEF Gone, DecideDeletion, DeleteEvent, TiersFree

----------------------------------------------------------------------------
(* Stock.  An order still waiting with its holds unlapsed keeps its tickets *)
(* from everybody else; one whose holds lapsed while it waited is late,    *)
(* and what it is sold in the end may come on top of the tier's tickets.   *)

OrderQuantities == [o \in Orders |-> order[o].qty]

Waiting == Pending \ late

Unlapsed == \A o \in Waiting : \A h \in HoldsOf(o) : hold[h].expiresAt > now

Promised == SumOf(OrderQuantities, Waiting)

Excess == SumOf(OrderQuantities, LatePaid)

NothingPromisedTwice == sold + Promised <= Capacity + Excess

(* Once the event is gone its holds are released, whatever still waits for *)
(* its payment: from then on the promises only shrink.                     *)
StockInv ==
  /\ TypeOK
  /\ late \subseteq Orders
  /\ Unlapsed
  /\ Gone \/ AllHeld
  /\ NothingPromisedTwice

LEMMA ClockKeeps == ASSUME Kinds PROVE now' = now \/ Tick
BY DEF Kinds, Begins, Begin, Sells, MarksPaid, Ends, DeleteEvent, HoldsMove, CreateHold,
   ReleaseHold, SweepWrite, Rests

LEMMA UnlapsedStep == ASSUME TypeOK', Remember PROVE Unlapsed'
<1>1. SUFFICES ASSUME NEW o \in Orders, order'[o].status = "PENDING", o \notin late',
                      NEW h \in HoldsOf(o)'
               PROVE  hold'[h].expiresAt > now'
  BY DEF Unlapsed, Waiting, Pending
<1>2. h \in Holds /\ hold'[h].status = "ACTIVE" /\ hold'[h].order = o
  BY DEF HoldsOf, Active
<1>3. ~Overdue(o)'
  BY <1>1 DEF Remember
<1>4. ~(hold'[h].expiresAt <= now')
  BY <1>1, <1>2, <1>3 DEF Overdue, Active, IsHoldExpired
<1>. QED
  BY <1>2, <1>4, CheckoutAssumption DEF CheckoutAssumption, TypeOK, HoldRow, Instants

(* Only time makes an order late, or its own request that lagged behind    *)
(* the instant it carries.                                                 *)
LEMMA LateGrows ==
  ASSUME TypeOK, Unlapsed, Kinds, now' = now, Remember, NEW o \in late', o \notin late
  PROVE  o \in Orders /\ order[o].status = "NONE" /\ order'[o].status = "PENDING"
<1>1. o \in Orders /\ order'[o].status = "PENDING"
  BY DEF Remember, Overdue
<1>2. PICK h \in Holds : /\ hold'[h].status = "ACTIVE" /\ hold'[h].order = o
                         /\ hold'[h].expiresAt <= now'
  BY DEF Remember, Overdue, Active, IsHoldExpired
<1>3. ~DeleteEvent
  <2>1. SUFFICES ASSUME DeleteEvent PROVE FALSE
    OBVIOUS
  <2>2. hold'[h].status # "ACTIVE"
    BY <2>1 DEF DeleteEvent, Active, TypeOK, HoldRow
  <2>. QED
    BY <1>2, <2>2
<1>4. ~Undisturbed(o)
  <2>1. SUFFICES ASSUME Undisturbed(o) PROVE FALSE
    OBVIOUS
  <2>2. h \in HoldsOf(o) /\ o \in Waiting
    BY <1>1, <1>2, <2>1 DEF Undisturbed, HoldsOf, Active, Waiting, Pending
  <2>3. hold'[h] = hold[h]
    BY <2>1, <2>2 DEF Undisturbed
  <2>4. hold[h].expiresAt > now /\ hold[h].expiresAt <= now
    BY <1>2, <2>2, <2>3 DEF Unlapsed
  <2>. QED
    BY <1>2, <2>4, CheckoutAssumption DEF CheckoutAssumption, TypeOK, HoldRow, Instants
<1>5. PICK t \in RequestInstants, named \in SUBSET Holds, q \in Quantities,
           promo \in BOOLEAN, free \in BOOLEAN : Begin(o, named, q, promo, free, t)
  BY <1>1, <1>3, <1>4, PendingUndisturbed
<1>. QED
  BY <1>1, <1>5 DEF Begin

LEMMA QuantitiesCount ==
  ASSUME TypeOK, NEW S \in SUBSET Orders
  PROVE  IsCount(OrderQuantities, S) /\ SumOf(OrderQuantities, S) \in Nat
<1>1. IsFiniteSet(S)
  BY FS_Subset, CheckoutAssumption DEF CheckoutAssumption
<1>2. \A o \in S : order[o].qty \in Nat
  BY CheckoutAssumption DEF CheckoutAssumption, TypeOK, OrderRow, Quantities
<1>3. IsCount(OrderQuantities, S)
  BY <1>1, <1>2 DEF IsCount, OrderQuantities
<1>. QED
  BY <1>3, SumIsNat

LEMMA QuantitiesCountNext ==
  ASSUME TypeOK', NEW S \in SUBSET Orders
  PROVE  IsCount(OrderQuantities', S) /\ SumOf(OrderQuantities', S) \in Nat
<1>1. IsFiniteSet(S)
  BY FS_Subset, CheckoutAssumption DEF CheckoutAssumption
<1>2. \A o \in S : order'[o].qty \in Nat
  BY CheckoutAssumption DEF CheckoutAssumption, TypeOK, OrderRow, Quantities
<1>3. IsCount(OrderQuantities', S)
  BY <1>1, <1>2 DEF IsCount, OrderQuantities
<1>. QED
  BY <1>3, SumIsNat

LEMMA Numbers ==
  ASSUME TypeOK, late \subseteq Orders
  PROVE  {sold, Promised, Excess, Capacity} \subseteq Nat
<1>1. sold \in Nat /\ Capacity \in Nat
  BY CheckoutAssumption DEF CheckoutAssumption, TypeOK
<1>2. Waiting \in SUBSET Orders /\ LatePaid \in SUBSET Orders
  BY DEF Waiting, Pending, LatePaid
<1>. QED
  BY <1>1, <1>2, QuantitiesCount DEF Promised, Excess

(* A checkout is let in only past the holds of those that still wait in     *)
(* time, and these cover what they are for.                                *)
LEMMA RoomForIt ==
  ASSUME TypeOK, late \subseteq Orders, AllHeld, Unlapsed,
         NEW o \in Orders, NEW named \in SUBSET Holds, NEW q \in Quantities, NEW promo, NEW free,
         NEW t \in RequestInstants, Begin(o, named, q, promo, free, t)
  PROVE  sold + Promised + q <= Capacity
<1>. DEFINE others == {h \in Holds \ named : Active(h) /\ ~IsHoldExpired(h, t)}
            part == [p \in Waiting |-> HoldsOf(p)]
<1>1. Waiting \in SUBSET Orders
  BY DEF Waiting, Pending
<1>2. IsCount(OrderQuantities, Waiting) /\ Promised \in Nat
  BY <1>1, QuantitiesCount DEF Promised
<1>3. IsCount(HoldQuantities, others) /\ HeldBy(others) = SumOf(HoldQuantities, others)
  BY HoldsCount
<1>4. t \in Nat /\ now \in Nat /\ t <= now
  BY CheckoutAssumption DEF CheckoutAssumption, RequestInstants, Instants, TypeOK
<1>5. \A p \in Waiting : part[p] \in SUBSET others
  <2>1. ASSUME NEW p \in Waiting, NEW h \in HoldsOf(p) PROVE h \in others
    <3>1. h \in Holds /\ hold[h].status = "ACTIVE" /\ hold[h].order = p /\ p # NoOrder /\ p \in Orders
      BY <2>1, SentinelAssumption DEF HoldsOf, Active, Waiting, Pending
    <3>2. hold[h].expiresAt > now /\ hold[h].expiresAt \in Nat
      BY <2>1, <3>1 DEF Unlapsed, TypeOK, HoldRow
    <3>3. ~(hold[h].expiresAt <= t)
      BY <1>4, <3>2
    <3>4. h \notin named
      BY <3>1 DEF Begin, Spendable, AwaitingPayment, Waiting, Pending
    <3>. QED
      BY <3>1, <3>3, <3>4 DEF IsHoldExpired, Active
  <2>. QED
    BY <2>1
<1>6. \A p \in Waiting : OrderQuantities[p] <= SumOf(HoldQuantities, part[p])
  <2>1. ASSUME NEW p \in Waiting PROVE OrderQuantities[p] <= SumOf(HoldQuantities, part[p])
    <3>1. HoldsOf(p) \in SUBSET Holds /\ part[p] = HoldsOf(p)
      BY DEF HoldsOf
    <3>2. HeldBy(HoldsOf(p)) = SumOf(HoldQuantities, HoldsOf(p)) /\ HeldBy(HoldsOf(p)) \in Nat
      BY <3>1, HoldsCount
    <3>3. HeldBy(HoldsOf(p)) >= order[p].qty
      BY DEF AllHeld, Holding, Waiting
    <3>4. OrderQuantities[p] = order[p].qty /\ order[p].qty \in Nat
      BY <1>1, <1>2 DEF OrderQuantities, IsCount
    <3>. QED
      BY <3>1, <3>2, <3>3, <3>4
  <2>. QED
    BY <2>1
<1>7. \A p, r \in Waiting : p # r => part[p] \cap part[r] = {}
  BY DEF HoldsOf
<1>8. Promised <= SumOf(HoldQuantities, others)
  <2>. HIDE DEF others, part
  <2>. QED
    BY <1>2, <1>3, <1>5, <1>6, <1>7, SumOfParts DEF Promised
<1>9. HeldBy(others) = ActiveHeldQuantity(Holds \ named, t) /\ HeldBy(others) \in Nat
  BY HoldsCount DEF ActiveHeldQuantity
<1>10. q <= AvailableQuantity(named, t)
  BY DEF Begin
<1>11. q \in Nat \ {0} /\ sold \in Nat /\ Capacity \in Nat
  BY CheckoutAssumption DEF CheckoutAssumption, Quantities, TypeOK
<1>12. q <= Capacity - sold - HeldBy(others)
  <2>. HIDE DEF others
  <2>. QED
    BY <1>9, <1>10, <1>11 DEF AvailableQuantity
<1>. HIDE DEF others
<1>. QED
  BY <1>2, <1>3, <1>8, <1>9, <1>11, <1>12

(* The orders as module Sale sees them. *)
Statuses == [o \in Orders |-> order[o].status]

LEMMA PlaceStep ==
  ASSUME StockInv, TypeOK', Kinds, Remember,
         NEW t \in RequestInstants, NEW o \in Orders, NEW named \in SUBSET Holds,
         NEW q \in Quantities, NEW promo \in BOOLEAN, NEW free \in BOOLEAN,
         Begin(o, named, q, promo, free, t)
  PROVE  Sales!Place(o) /\ NothingPromisedTwice'
<1>1. /\ order[o].status = "NONE" /\ sold' = sold /\ now' = now
      /\ order' = [order EXCEPT ![o] = [status |-> "PENDING", qty |-> q, promo |-> promo]]
  BY DEF Begin
<1>2. /\ TypeOK /\ late \subseteq Orders /\ Unlapsed /\ AllHeld
      /\ NothingPromisedTwice
  BY DEF StockInv, Gone, Begin
<1>3. sold + Promised + q <= Capacity
  BY <1>2, RoomForIt
<1>4. \A p \in Orders \ {o} : order'[p] = order[p]
  BY <1>1, <1>2 DEF TypeOK
<1>5. order'[o].status = "PENDING" /\ order'[o].qty = q
  BY <1>1, <1>2 DEF TypeOK
<1>6. late' = late \/ late' = late \cup {o}
  <2>1. \A p \in late' : p \in late \/ p = o
    BY <1>1, <1>2, <1>4, LateGrows
  <2>. QED
    BY <2>1 DEF Remember
<1>7. o \notin Waiting /\ (Waiting' = Waiting \/ Waiting' = Waiting \cup {o})
  BY <1>1, <1>4, <1>5, <1>6 DEF Waiting, Pending
<1>8. LatePaid' = LatePaid
  BY <1>1, <1>4, <1>5, <1>6 DEF LatePaid, StockInv
<1>9. Sales!Place(o)
  <2>1. Statuses' = [Statuses EXCEPT ![o] = "PENDING"]
    BY <1>1, <1>2 DEF Statuses, TypeOK
  <2>2. OrderQuantities' = [OrderQuantities EXCEPT ![o] = q]
    BY <1>1, <1>2 DEF OrderQuantities, TypeOK
  <2>3. sold + Sales!SumOf(OrderQuantities, Waiting) + q <= Capacity
    BY <1>3 DEF Sales!SumOf, Sales!Units, Sales!Cardinality, Cardinality, SumOf, Units, Promised
  <2>4. Statuses[o] = "NONE"
    BY <1>1 DEF Statuses
  <2>. QED
    BY <1>1, <1>7, <2>1, <2>2, <2>3, <2>4
    DEF Sales!Place, Quantities, Statuses, OrderQuantities, Waiting, Pending
<1>10. \A S \in SUBSET (Orders \ {o}) : SumOf(OrderQuantities', S) = SumOf(OrderQuantities, S)
  <2>1. \A p \in Orders \ {o} : OrderQuantities'[p] = OrderQuantities[p]
    BY <1>4 DEF OrderQuantities
  <2>. QED
    BY <2>1, SumSame
<1>11. Excess' = Excess
  <2>1. LatePaid \in SUBSET (Orders \ {o})
    BY <1>1, <1>2 DEF LatePaid
  <2>2. Excess' = SumOf(OrderQuantities', LatePaid)
    BY <1>8 DEF Excess
  <2>. QED
    BY <1>10, <2>1, <2>2 DEF Excess
<1>12. Waiting \in SUBSET (Orders \ {o}) /\ SumOf(OrderQuantities', Waiting) = Promised
  <2>1. Waiting \in SUBSET (Orders \ {o})
    BY <1>7 DEF Waiting, Pending
  <2>. QED
    BY <1>10, <2>1 DEF Promised
<1>13. Promised' = Promised \/ Promised' = Promised + q
  <2>0. Promised' = SumOf(OrderQuantities', Waiting')
    BY DEF Promised
  <2>1. CASE Waiting' = Waiting
    BY <1>12, <2>0, <2>1
  <2>2. CASE Waiting' = Waiting \cup {o}
    <3>1. IsCount(OrderQuantities', Waiting) /\ IsCount(OrderQuantities', {o})
      BY <1>12, QuantitiesCountNext
    <3>2. SumOf(OrderQuantities', Waiting \cup {o}) =
            SumOf(OrderQuantities', Waiting) + SumOf(OrderQuantities', {o})
      BY <1>12, <3>1, SumOfBoth
    <3>3. OrderQuantities'[o] = q /\ q \in Nat
      BY <1>5, CheckoutAssumption DEF CheckoutAssumption, OrderQuantities, Quantities
    <3>4. SumOf(OrderQuantities', {o}) = q
      BY <3>3, SumOfOne
    <3>. QED
      BY <1>12, <2>0, <2>2, <3>2, <3>4
  <2>. QED
    BY <1>7, <2>1, <2>2
<1>14. {sold, Promised, Excess, Capacity} \subseteq Nat /\ q \in Nat
  BY <1>2, Numbers DEF Quantities
<1>. QED
  BY <1>1, <1>3, <1>9, <1>11, <1>13, <1>14 DEF NothingPromisedTwice

LEMMA BuyStep ==
  ASSUME StockInv, TypeOK', Kinds, Remember, NEW o \in Orders, Sells(o)
  PROVE  Sales!Buy(o) /\ NothingPromisedTwice'
<1>1. /\ o \in Pending /\ order[o].status = "PENDING" /\ sold' = sold + order[o].qty
      /\ order' = [order EXCEPT ![o].status = "PAID"] /\ now' = now
  BY DEF Sells, Pending, SettleCheckout
<1>2. TypeOK /\ late \subseteq Orders /\ Unlapsed /\ NothingPromisedTwice
  BY DEF StockInv
<1>3. /\ order'[o].status = "PAID" /\ order'[o].qty = order[o].qty
      /\ \A p \in Orders \ {o} : order'[p] = order[p]
  BY <1>1, <1>2 DEF TypeOK, OrderRow
<1>4. late' = late
  <2>1. \A p \in late' : p \in late
    BY <1>1, <1>2, <1>3, LateGrows
  <2>. QED
    BY <2>1 DEF Remember
<1>5. /\ OrderQuantities' = OrderQuantities
      /\ Waiting' = Waiting \ {o}
      /\ LatePaid' = IF o \in late THEN LatePaid \cup {o} ELSE LatePaid
      /\ o \notin LatePaid
  BY <1>1, <1>3, <1>4 DEF OrderQuantities, Waiting, Pending, LatePaid
<1>6. Sales!Buy(o)
  <2>1. Statuses' = [Statuses EXCEPT ![o] = "PAID"]
    BY <1>1, <1>2 DEF Statuses, TypeOK, OrderRow
  <2>2. Statuses[o] = "PENDING" /\ sold' = sold + OrderQuantities[o]
    BY <1>1 DEF Statuses, OrderQuantities
  <2>. QED
    BY <1>5, <2>1, <2>2 DEF Sales!Buy, Statuses, OrderQuantities, Waiting, Pending
<1>7. {sold, Promised, Excess, Capacity} \subseteq Nat
  BY <1>2, Numbers
<1>8. /\ OrderQuantities[o] = order[o].qty /\ order[o].qty \in Nat
      /\ Waiting \in SUBSET Orders /\ LatePaid \in SUBSET Orders
      /\ IsCount(OrderQuantities, {o}) /\ SumOf(OrderQuantities, {o}) = order[o].qty
  <2>1. OrderQuantities[o] = order[o].qty /\ order[o].qty \in Nat
    BY <1>2, CheckoutAssumption DEF CheckoutAssumption, TypeOK, OrderRow, Quantities, OrderQuantities
  <2>2. SumOf(OrderQuantities, {o}) = order[o].qty
    BY <2>1, SumOfOne
  <2>. QED
    BY <1>2, <2>1, <2>2, QuantitiesCount DEF Waiting, Pending, LatePaid
<1>9. CASE o \in late
  <2>1. Waiting' = Waiting /\ LatePaid' = LatePaid \cup {o}
    BY <1>5, <1>9 DEF Waiting
  <2>2. Promised' = Promised
    BY <1>5, <2>1 DEF Promised
  <2>3. SumOf(OrderQuantities, LatePaid \cup {o}) =
          SumOf(OrderQuantities, LatePaid) + SumOf(OrderQuantities, {o})
    BY <1>2, <1>5, <1>8, QuantitiesCount, SumOfBoth
  <2>4. Excess' = Excess + order[o].qty
    BY <1>5, <1>8, <2>1, <2>3 DEF Excess
  <2>5. sold + Promised <= Capacity + Excess
    BY <1>2 DEF NothingPromisedTwice
  <2>6. sold' + Promised' <= Capacity + Excess'
    BY <1>1, <1>7, <1>8, <2>2, <2>4, <2>5
  <2>. QED
    BY <1>6, <2>6 DEF NothingPromisedTwice
<1>10. CASE o \notin late
  <2>1. o \in Waiting /\ LatePaid' = LatePaid
    BY <1>1, <1>5, <1>10 DEF Waiting
  <2>2. Excess' = Excess
    BY <1>5, <2>1 DEF Excess
  <2>3. /\ SumOf(OrderQuantities, Waiting) =
             SumOf(OrderQuantities, Waiting \ {o}) + OrderQuantities[o]
        /\ SumOf(OrderQuantities, Waiting \ {o}) \in Nat
    BY <1>2, <1>8, <2>1, QuantitiesCount, SumWithout
  <2>4. Promised = Promised' + order[o].qty /\ Promised' \in Nat
    BY <1>5, <1>8, <2>3 DEF Promised
  <2>5. sold + Promised <= Capacity + Excess
    BY <1>2 DEF NothingPromisedTwice
  <2>6. sold' + Promised' <= Capacity + Excess'
    BY <1>1, <1>7, <1>8, <2>2, <2>4, <2>5
  <2>. QED
    BY <1>6, <2>6 DEF NothingPromisedTwice
<1>. QED
  BY <1>9, <1>10

(* A step that sells nothing and promises nothing new. *)
LEMMA LessPromised ==
  ASSUME StockInv, TypeOK', Remember, UNCHANGED sold,
         \A o \in Orders : order'[o].qty = order[o].qty,
         \A o \in Orders : order[o].status = "PAID" => order'[o].status = "PAID",
         \A o \in Orders : order'[o].status = "PENDING" => order[o].status = "PENDING"
  PROVE  NothingPromisedTwice'
<1>1. TypeOK /\ late \subseteq Orders /\ late \subseteq late' /\ late' \subseteq Orders
  BY DEF StockInv, Remember
<1>2. OrderQuantities' = OrderQuantities
  BY DEF OrderQuantities
<1>3. /\ Waiting' \in SUBSET Waiting /\ Waiting \in SUBSET Orders
      /\ LatePaid \in SUBSET (LatePaid') /\ LatePaid' \in SUBSET Orders
  BY <1>1 DEF Waiting, Pending, LatePaid
<1>4. SumOf(OrderQuantities, Waiting') <= SumOf(OrderQuantities, Waiting)
  BY <1>1, <1>3, QuantitiesCount, SumOfPart
<1>5. SumOf(OrderQuantities, LatePaid) <= SumOf(OrderQuantities, LatePaid')
  BY <1>1, <1>3, QuantitiesCount, SumOfPart
<1>6. Promised' <= Promised /\ Excess <= Excess'
  BY <1>2, <1>4, <1>5 DEF Promised, Excess
<1>7. Promised' \in Nat /\ Excess' \in Nat
  <2>1. SumOf(OrderQuantities, Waiting') \in Nat /\ SumOf(OrderQuantities, LatePaid') \in Nat
    BY <1>1, <1>3, QuantitiesCount
  <2>. QED
    BY <1>2, <2>1 DEF Promised, Excess
<1>8. sold + Promised <= Capacity + Excess
  BY DEF StockInv, NothingPromisedTwice
<1>9. {sold, Promised, Excess, Capacity} \subseteq Nat
  BY <1>1, Numbers
<1>10. sold' + Promised' <= Capacity + Excess'
  BY <1>6, <1>7, <1>8, <1>9
<1>. QED
  BY <1>10 DEF NothingPromisedTwice

LEMMA PayStep ==
  ASSUME StockInv, TypeOK', Kinds, Remember, NEW o \in Orders, MarksPaid(o)
  PROVE  Sales!Pay(o) /\ NothingPromisedTwice'
<1>1. /\ o \in Pending /\ order[o].status = "PENDING" /\ sold' = sold
      /\ order' = [order EXCEPT ![o].status = "PAID"] /\ now' = now
  BY DEF MarksPaid, Pending
<1>2. TypeOK /\ late \subseteq Orders /\ Unlapsed
  BY DEF StockInv
<1>3. /\ order'[o].status = "PAID" /\ order'[o].qty = order[o].qty
      /\ \A p \in Orders \ {o} : order'[p] = order[p]
  BY <1>1, <1>2 DEF TypeOK, OrderRow
<1>4. late' = late
  <2>1. \A p \in late' : p \in late
    BY <1>1, <1>2, <1>3, LateGrows
  <2>. QED
    BY <2>1 DEF Remember
<1>5. OrderQuantities' = OrderQuantities /\ Waiting' = Waiting \ {o}
  BY <1>1, <1>3, <1>4 DEF OrderQuantities, Waiting, Pending
<1>6. Statuses' = [Statuses EXCEPT ![o] = "PAID"] /\ Statuses[o] = "PENDING"
  BY <1>1, <1>2 DEF Statuses, TypeOK, OrderRow
<1>7. Sales!Pay(o)
  BY <1>1, <1>5, <1>6 DEF Sales!Pay, Statuses, OrderQuantities, Waiting, Pending
<1>8. NothingPromisedTwice'
  BY <1>1, <1>3, LessPromised
<1>. QED
  BY <1>7, <1>8

LEMMA GiveUpStep ==
  ASSUME StockInv, TypeOK', Kinds, Remember, NEW S \in SUBSET Pending, CancelOrders(S),
         sold' = sold, now' = now
  PROVE  Sales!GiveUp(S) /\ NothingPromisedTwice'
<1>1. order' = [o \in Orders |->
                  IF o \in S THEN [order[o] EXCEPT !.status = "CANCELLED"] ELSE order[o]]
  BY DEF CancelOrders
<1>2. TypeOK /\ late \subseteq Orders /\ Unlapsed
  BY DEF StockInv
<1>3. /\ S \in SUBSET Orders /\ \A o \in S : order[o].status = "PENDING"
      /\ \A o \in S : order'[o].status = "CANCELLED" /\ order'[o].qty = order[o].qty
      /\ \A o \in Orders \ S : order'[o] = order[o]
  BY <1>1, <1>2 DEF Pending, TypeOK, OrderRow
<1>4. late' = late
  <2>1. \A p \in late' : p \in late
    BY <1>2, <1>3, LateGrows
  <2>. QED
    BY <2>1 DEF Remember
<1>5. OrderQuantities' = OrderQuantities /\ Waiting' = Waiting \ S
  BY <1>3, <1>4 DEF OrderQuantities, Waiting, Pending
<1>6. /\ Statuses' = [o \in Orders |-> IF o \in S THEN "CANCELLED" ELSE Statuses[o]]
      /\ \A o \in S : Statuses[o] = "PENDING"
  BY <1>3 DEF Statuses
<1>7. Sales!GiveUp(S)
  BY <1>5, <1>6 DEF Sales!GiveUp, Statuses, OrderQuantities, Waiting, Pending
<1>8. NothingPromisedTwice'
  BY <1>3, LessPromised
<1>. QED
  BY <1>7, <1>8

LEMMA StandStep ==
  ASSUME StockInv, TypeOK', Kinds, Remember, UNCHANGED <<order, sold>>
  PROVE  [Sales!Next]_Sales!vars /\ NothingPromisedTwice'
<1>1. TypeOK /\ late \subseteq Orders /\ late' \subseteq Orders /\ late \subseteq late'
  BY DEF StockInv, Remember
<1>2. PICK S \in SUBSET Orders : S = late'
  BY <1>1
<1>3. Sales!Lapse(S)
  BY <1>1, <1>2 DEF Sales!Lapse
<1>4. Sales!Next
  BY <1>3 DEF Sales!Next
<1>. QED
  BY <1>4, LessPromised

LEMMA StockStep ==
  ASSUME StockInv, [HistoryNext]_historyVars
  PROVE  StockInv' /\ [Sales!Next]_Sales!vars
<1>1. CASE UNCHANGED historyVars
  <2>1. UNCHANGED <<now, hold, order, sold, late, payment, tickets, redemptions, ledger, tasks,
                    event, request, intent, sent, candidates, decision>>
    BY <1>1 DEF historyVars, vars, rows
  <2>2. /\ Pending' = Pending /\ Waiting' = Waiting /\ LatePaid' = LatePaid
        /\ OrderQuantities' = OrderQuantities
        /\ \A o : HoldsOf(o)' = HoldsOf(o)
    BY <2>1 DEF Pending, Waiting, LatePaid, OrderQuantities, HoldsOf, Active
  <2>3. TypeOK'
    BY <1>1, TypeStep DEF historyVars, StockInv
  <2>4. Unlapsed' /\ NothingPromisedTwice'
    BY <2>1, <2>2 DEF StockInv, Unlapsed, NothingPromisedTwice, Promised, Excess
  <2>5. Gone' \/ AllHeld'
    BY <2>1, <2>2 DEF StockInv, Gone, AllHeld, Holding, HeldBy
  <2>. QED
    BY <2>1, <2>3, <2>4, <2>5 DEF StockInv, Sales!vars
<1>2. CASE HistoryNext
  <2>1. /\ Next /\ Remember /\ TypeOK /\ TypeOK' /\ Kinds
        /\ late' \subseteq Orders
    BY <1>2, TypeStep, StepKinds DEF HistoryNext, StockInv, Remember
  <2>2. Unlapsed'
    BY <2>1, UnlapsedStep
  <2>3. Gone' \/ AllHeld'
    <3>1. CASE Gone
      BY <2>1, <3>1, GoneStays
    <3>2. CASE DeleteEvent
      BY <3>2 DEF DeleteEvent, Gone
    <3>. QED
      BY <2>1, <3>1, <3>2, HoldingStep DEF StockInv
  <2>. DEFINE Goal == NothingPromisedTwice' /\ [Sales!Next]_Sales!vars
  <2>4. ASSUME Begins PROVE Goal
    <3>1. PICK t \in RequestInstants, o \in Orders, named \in SUBSET Holds, q \in Quantities,
               promo \in BOOLEAN, free \in BOOLEAN : Begin(o, named, q, promo, free, t)
      BY <2>4 DEF Begins
    <3>2. Sales!Place(o) /\ NothingPromisedTwice'
      BY <2>1, <3>1, PlaceStep
    <3>. QED
      BY <3>2 DEF Sales!Next
  <2>5. ASSUME NEW o \in Orders, Sells(o) PROVE Goal
    BY <2>1, <2>5, BuyStep DEF Sales!Next
  <2>6. ASSUME NEW o \in Orders, MarksPaid(o) PROVE Goal
    BY <2>1, <2>6, PayStep DEF Sales!Next
  <2>7. ASSUME DeleteEvent \/ \E S \in SUBSET Orders : Ends(S) /\ UNCHANGED hold PROVE Goal
    <3>1. PICK S \in SUBSET Pending : CancelOrders(S) /\ sold' = sold /\ now' = now
      BY <2>7 DEF DeleteEvent, Ends, Unpaid, Pending
    <3>2. Sales!GiveUp(S) /\ NothingPromisedTwice' /\ S \in SUBSET Orders
      BY <2>1, <3>1, GiveUpStep DEF Pending
    <3>. QED
      BY <3>2 DEF Sales!Next
  <2>8. ASSUME HoldsMove \/ Rests PROVE Goal
    <3>1. order' = order /\ sold' = sold
      BY <2>8 DEF HoldsMove, CreateHold, ReleaseHold, SweepWrite, Rests, Tick, rows
    <3>. QED
      BY <2>1, <3>1, StandStep
  <2>9. Goal
    BY <2>1, <2>4, <2>5, <2>6, <2>7, <2>8 DEF Kinds
  <2>. QED
    BY <2>1, <2>2, <2>3, <2>9 DEF StockInv
<1>. QED
  BY <1>1, <1>2

LEMMA StockInit == HistoryInit => StockInv
<1>1. SUFFICES ASSUME HistoryInit PROVE StockInv
  OBVIOUS
<1>2. TypeOK
  BY <1>1, InitTyped DEF HistoryInit
<1>3. Pending = {} /\ Waiting = {} /\ LatePaid = {} /\ late = {}
  BY <1>1 DEF HistoryInit, Init, Pending, Waiting, LatePaid
<1>4. Unlapsed /\ AllHeld
  BY <1>3 DEF Unlapsed, AllHeld
<1>5. Promised = 0 /\ Excess = 0 /\ sold = 0
  BY <1>1, <1>3, SumOfNone DEF Promised, Excess, HistoryInit, Init
<1>6. NothingPromisedTwice
  BY <1>5, CheckoutAssumption DEF CheckoutAssumption, NothingPromisedTwice
<1>. QED
  BY <1>2, <1>3, <1>4, <1>6 DEF StockInv

LEMMA StockAlways == HistorySpec => []StockInv
<1>1. StockInv /\ [HistoryNext]_historyVars => StockInv'
  BY StockStep
<1>. QED
  BY <1>1, StockInit, PTL DEF HistorySpec

(* No interleaving of buyers, sweeps, callbacks, webhooks, operators and    *)
(* the deletion of the event sells more than the tier has, other than to   *)
(* the orders that outlived their holds.                                   *)
THEOREM NeverOversold == HistorySpec => []OversoldOnlyByLate
<1>1. StockInv => OversoldOnlyByLate
  <2>1. SUFFICES ASSUME StockInv PROVE sold <= Capacity + Excess
    BY DEF OversoldOnlyByLate, Excess, OrderQuantities
  <2>2. {sold, Promised, Excess, Capacity} \subseteq Nat /\ sold + Promised <= Capacity + Excess
    BY <2>1, Numbers DEF StockInv, NothingPromisedTwice
  <2>. QED
    BY <2>2
<1>. QED
  BY <1>1, StockAlways, PTL

(* The sale of a tier as its buyers are promised it (module Sale): every    *)
(* step of the checkout places an order whose tickets are there, sells or  *)
(* marks paid one that was placed, gives some up, lets promises lapse, or  *)
(* shows the buyers nothing.                                               *)
THEOREM SaleImplemented == HistorySpec => ImplementsSale
<1>1. HistoryInit => Sales!Init
  BY CheckoutAssumption DEF CheckoutAssumption, HistoryInit, Init, Sales!Init
<1>2. StockInv /\ [HistoryNext]_historyVars => [Sales!Next]_Sales!vars
  BY StockStep
<1>. QED
  BY <1>1, <1>2, StockAlways, PTL DEF HistorySpec, ImplementsSale, Sales!Spec

----------------------------------------------------------------------------
(* What a step may do to the rows of one order, its request and its books,  *)
(* told apart by who moves them.                                           *)

SameBooks(o) == "ORDER_PAID" \in ledger'[o] <=> "ORDER_PAID" \in ledger[o]

Unmoved(o) == order'[o] = order[o] /\ payment'[o] = payment[o] /\ request'[o] = request[o]

Begun(o) ==
  /\ event = "LIVE" /\ order[o].status = "NONE" /\ order'[o].status = "PENDING"
  /\ request[o] = "IDLE" /\ request'[o] = "BEGUN"
  /\ payment'[o].ref = payment[o].ref
  /\ payment'[o].status \in {payment[o].status, "INITIATED"}

Answered(o) ==
  /\ order'[o] = order[o] /\ payment'[o] = payment[o]
  /\ request[o] \in Running /\ request'[o] # "IDLE"
  /\ request'[o] = "TIMED_OUT" => HasPayment(o)
  /\ request'[o] = "DECLINED" => intent[o] = "FAILED"

Bought(o) == Sells(o) /\ request'[o] \in {request[o], "201"}

(* The grounds on which an unpaid order may be ended. *)
Excused(o) ==
  \/ request[o] = "DECLINED"
  \/ intent[o] = "FAILED"
  \/ Dead(o) /\ (~HasPayment(o) \/ ~TiersFree)
  \/ \E op \in Operators : decision[op].order = o /\ decision[op].verdict = "RELEASE"

GivenUp(o) ==
  /\ order[o].status = "PENDING" /\ order'[o].status = "CANCELLED"
  /\ payment'[o] \in {payment[o], [payment[o] EXCEPT !.status = "FAILED"]}
  /\ request'[o] \in {request[o]} \cup Answers
  /\ Excused(o)

TimedOut(o) ==
  /\ order'[o] = order[o] /\ payment'[o].status = "TIMEOUT"
  /\ request[o] = "TIMED_OUT" /\ request'[o] \in {"PAYMENT_TIMEOUT", "OVERTAKEN"}

Referenced(o) ==
  /\ order'[o] = order[o] /\ order[o].status = "PENDING"
  /\ payment[o].status = "INITIATED" /\ payment'[o].status = "INITIATED"
  /\ request[o] = "REFUSED" /\ request'[o] = "ORDER_NOT_COMPLETED"

Told(o) ==
  /\ payment[o].ref /\ request'[o] = request[o]
  /\ \/ /\ payment'[o].status = "SUCCEEDED"
        /\ order'[o] = IF order[o].status = "PENDING" THEN [order[o] EXCEPT !.status = "PAID"]
                                                      ELSE order[o]
     \/ /\ "failed" \in sent[o] /\ payment'[o].status = "FAILED"
        /\ order'[o] = order[o]
     \/ /\ "canceled" \in sent[o] /\ payment'[o].status = "CANCELLED"
        /\ order'[o] = order[o]
     \/ /\ "processing" \in sent[o] /\ payment'[o].status = "PENDING"
        /\ payment[o].status \notin {"SUCCEEDED", "FAILED"} /\ order'[o] = order[o]

RowStep(o) ==
  \/ Bought(o)
  \/ /\ SameBooks(o)
     /\ \/ Unmoved(o) \/ Begun(o) \/ Answered(o) \/ GivenUp(o) \/ TimedOut(o)
        \/ Referenced(o) \/ Told(o)

LEMMA ToldRow ==
  ASSUME TypeOK, NEW o \in Orders, Told(o)
  PROVE  /\ \/ order'[o] = order[o]
            \/ order[o].status = "PENDING" /\ order'[o].status = "PAID"
         /\ order[o].status = "PENDING" /\ payment'[o].status = "SUCCEEDED" => order'[o].status = "PAID"
         /\ payment'[o].status \in {"SUCCEEDED", "FAILED", "CANCELLED", "PENDING"}
<1>1. [order[o] EXCEPT !.status = "PAID"].status = "PAID"
  BY DEF TypeOK, OrderRow
<1>. QED
  BY <1>1 DEF Told

LEMMA RestUnmoved ==
  ASSUME NEW o \in Orders, UNCHANGED <<order, payment, request, ledger>>
  PROVE  RowStep(o)
BY DEF RowStep, SameBooks, Unmoved

LEMMA OtherUnmoved ==
  ASSUME NEW o \in Orders, order'[o] = order[o], payment'[o] = payment[o],
         request'[o] = request[o], ledger'[o] = ledger[o]
  PROVE  RowStep(o)
BY DEF RowStep, SameBooks, Unmoved

LEMMA SettleRow ==
  ASSUME TypeOK, NEW p \in Orders, NEW o \in Orders, SettleCheckout(p), UNCHANGED now,
         request' = request \/ (request[p] \in Running /\ request' = [request EXCEPT ![p] = "201"])
  PROVE  RowStep(o)
<1>1. CASE order[p].status # "PENDING"
  <2>1. UNCHANGED <<order, payment, ledger>>
    BY <1>1 DEF SettleCheckout
  <2>2. request'[o] = request[o] \/ (request[o] \in Running /\ request'[o] = "201")
    BY DEF TypeOK
  <2>. QED
    BY <2>1, <2>2 DEF RowStep, SameBooks, Unmoved, Answered
<1>2. CASE order[p].status = "PENDING" /\ o = p
  <2>1. Sells(o)
    BY <1>2 DEF Sells, Pending
  <2>2. request'[o] \in {request[o], "201"}
    BY <1>2 DEF TypeOK
  <2>. QED
    BY <2>1, <2>2 DEF RowStep, Bought
<1>3. CASE order[p].status = "PENDING" /\ o # p
  <2>1. order'[o] = order[o] /\ payment'[o] = payment[o] /\ ledger'[o] = ledger[o]
    BY <1>3 DEF SettleCheckout, TypeOK
  <2>2. request'[o] = request[o]
    BY <1>3 DEF TypeOK
  <2>. QED
    BY <2>1, <2>2, OtherUnmoved
<1>. QED
  BY <1>1, <1>2, <1>3

LEMMA CompensateRow ==
  ASSUME TypeOK, NEW p \in Orders, NEW o \in Orders, CompensateCheckout(p), UNCHANGED ledger,
         Excused(p),
         \/ request' = request
         \/ request[p] \in Running /\ request' = [request EXCEPT ![p] = "PAYMENT_DECLINED"]
  PROVE  RowStep(o)
<1>1. CASE order[p].status # "PENDING"
  <2>1. UNCHANGED <<order, payment>>
    BY <1>1 DEF CompensateCheckout
  <2>2. \/ request'[o] = request[o]
        \/ request[o] \in Running /\ request'[o] = "PAYMENT_DECLINED"
    BY DEF TypeOK
  <2>. QED
    BY <2>1, <2>2 DEF RowStep, SameBooks, Unmoved, Answered
<1>2. CASE order[p].status = "PENDING"
  <2>1. /\ order' = [r \in Orders |->
                       IF r \in {p} THEN [order[r] EXCEPT !.status = "CANCELLED"] ELSE order[r]]
        /\ payment' = [payment EXCEPT ![p].status = "FAILED"]
    BY <1>2 DEF CompensateCheckout, CancelOrders
  <2>2. CASE o # p
    <3>1. order'[o] = order[o] /\ payment'[o] = payment[o] /\ request'[o] = request[o]
      BY <2>1, <2>2 DEF TypeOK
    <3>. QED
      BY <3>1, OtherUnmoved
  <2>3. CASE o = p
    <3>1. order'[o].status = "CANCELLED" /\ payment'[o] = [payment[o] EXCEPT !.status = "FAILED"]
      BY <2>1, <2>3 DEF TypeOK, OrderRow
    <3>2. request'[o] \in {request[o]} \cup Answers
      BY <2>3 DEF TypeOK, Answers
    <3>. QED
      BY <1>2, <2>3, <3>1, <3>2 DEF RowStep, SameBooks, GivenUp
  <2>. QED
    BY <2>2, <2>3
<1>. QED
  BY <1>1, <1>2

LEMMA RequestRow ==
  ASSUME TypeOK, NEW p \in Orders, NEW o \in Orders, Request(p) \/ RequestLost(p)
  PROVE  RowStep(o)
<1>1. CASE CreateIntent(p)
  BY <1>1, RestUnmoved DEF CreateIntent, rows
<1>2. ASSUME NEW answer \in {"CAPTURED", "DECLINED", "TIMED_OUT"}, CaptureAnswered(p, answer)
      PROVE  RowStep(o)
  <2>1. /\ UNCHANGED <<order, payment, ledger>> /\ request[p] \in Running
        /\ request' = [request EXCEPT ![p] = answer]
    BY <1>2 DEF CaptureAnswered, rows, Running
  <2>2. CASE o # p
    <3>1. request'[o] = request[o]
      BY <2>1, <2>2 DEF TypeOK
    <3>. QED
      BY <2>1, <3>1, OtherUnmoved
  <2>3. CASE o = p
    <3>1. request'[o] = answer
      BY <2>1, <2>3 DEF TypeOK
    <3>2. answer = "TIMED_OUT" => HasPayment(o)
      BY <1>2, <2>3 DEF CaptureAnswered
    <3>3. answer = "DECLINED" => intent[o] = "FAILED"
      BY <1>2, <2>3 DEF CaptureAnswered
    <3>. QED
      BY <2>1, <2>3, <3>1, <3>2, <3>3 DEF RowStep, SameBooks, Answered
  <2>. QED
    BY <2>2, <2>3
<1>3. CASE Settle(p)
  <2>1. request[p] \in Running
    BY <1>3 DEF Settle, Running
  <2>. QED
    BY <1>3, <2>1, SettleRow DEF Settle
<1>4. CASE SettleRefused(p) \/ RequestLost(p)
  <2>1. PICK answer \in {"REFUSED", "LOST"} :
          /\ UNCHANGED <<order, payment, ledger>> /\ request[p] \in Running
          /\ request' = [request EXCEPT ![p] = answer]
    BY <1>4 DEF SettleRefused, RequestLost, rows, Running
  <2>2. request'[o] = request[o] \/ (request[o] \in Running /\ request'[o] = answer)
    BY <2>1 DEF TypeOK
  <2>. QED
    BY <2>1, <2>2 DEF RowStep, SameBooks, Unmoved, Answered
<1>5. CASE Compensate(p)
  <2>1. request[p] \in Running /\ Excused(p)
    BY <1>5 DEF Compensate, Running, Excused
  <2>. QED
    BY <1>5, <2>1, CompensateRow DEF Compensate
<1>6. ASSUME NEW known, RecordTimeout(p, known) PROVE RowStep(o)
  <2>1. /\ request[p] = "TIMED_OUT"
        /\ request' = [request EXCEPT ![p] = IF order[p].status = "PENDING" THEN "PAYMENT_TIMEOUT"
                                                                          ELSE "OVERTAKEN"]
        /\ payment' = [payment EXCEPT ![p] = [status |-> "TIMEOUT", ref |-> known]]
        /\ UNCHANGED <<order, ledger>>
    BY <1>6 DEF RecordTimeout
  <2>2. CASE o # p
    BY <2>1, <2>2, OtherUnmoved DEF TypeOK
  <2>3. CASE o = p
    <3>1. payment'[o].status = "TIMEOUT" /\ request'[o] \in {"PAYMENT_TIMEOUT", "OVERTAKEN"}
      BY <2>1, <2>3 DEF TypeOK
    <3>. QED
      BY <2>1, <2>3, <3>1 DEF RowStep, SameBooks, TimedOut
  <2>. QED
    BY <2>2, <2>3
<1>7. CASE RecordUnsettled(p)
  <2>1. /\ request[p] = "REFUSED" /\ UNCHANGED ledger
        /\ request' = [request EXCEPT ![p] = IF HasPayment(p) THEN "ORDER_NOT_COMPLETED"
                                                              ELSE "ORDER_CANCELLED"]
    BY <1>7 DEF RecordUnsettled
  <2>2. CASE o # p
    <3>1. order'[o] = order[o] /\ payment'[o] = payment[o]
      BY <1>7, <2>2 DEF RecordUnsettled, CancelOrders, TypeOK
    <3>. QED
      BY <2>1, <2>2, <3>1, OtherUnmoved DEF TypeOK
  <2>3. CASE o = p /\ order[p].status = "PENDING" /\ ~HasPayment(p)
    <3>1. CancelOrders({p}) /\ UNCHANGED payment
      BY <1>7, <2>3 DEF RecordUnsettled, HasPayment
    <3>2. order'[o].status = "CANCELLED"
      BY <2>3, <3>1 DEF CancelOrders, TypeOK, OrderRow
    <3>3. Dead(o)
      BY <2>3 DEF Dead, HasPayment, IN_FLIGHT_PAYMENT_STATES
    <3>4. request'[o] \in Answers
      BY <2>1, <2>3 DEF TypeOK, Answers
    <3>5. Excused(o)
      BY <2>3, <3>3 DEF Excused
    <3>. QED
      BY <2>1, <2>3, <3>1, <3>2, <3>4, <3>5 DEF RowStep, SameBooks, GivenUp
  <2>4. CASE o = p /\ order[p].status = "PENDING" /\ payment[p].status = "INITIATED"
    <3>1. payment' = [payment EXCEPT ![p].ref = TRUE] /\ UNCHANGED order
      BY <1>7, <2>4 DEF RecordUnsettled, HasPayment
    <3>2. payment'[o].status = "INITIATED"
      BY <2>4, <3>1 DEF TypeOK, PaymentRow
    <3>3. request'[o] = "ORDER_NOT_COMPLETED"
      BY <2>1, <2>4 DEF TypeOK, HasPayment
    <3>. QED
      BY <2>1, <2>4, <3>1, <3>2, <3>3 DEF RowStep, SameBooks, Referenced
  <2>5. CASE o = p /\ ~(order[p].status = "PENDING" /\ payment[p].status \in {"NONE", "INITIATED"})
    <3>1. UNCHANGED <<order, payment>>
      BY <1>7, <2>5 DEF RecordUnsettled, HasPayment
    <3>2. request'[o] \in {"ORDER_NOT_COMPLETED", "ORDER_CANCELLED"}
      BY <2>1, <2>5 DEF TypeOK
    <3>3. request[o] \in Running
      BY <2>1, <2>5 DEF Running
    <3>. QED
      BY <2>1, <3>1, <3>2, <3>3 DEF RowStep, SameBooks, Answered
  <2>. QED
    BY <2>2, <2>3, <2>4, <2>5 DEF HasPayment
<1>. QED
  BY <1>1, <1>2, <1>3, <1>4, <1>5, <1>6, <1>7 DEF Request

LEMMA WebhookRow ==
  ASSUME TypeOK, NEW p \in Orders, NEW o \in Orders, NEW type \in EventTypes, Webhook(p, type)
  PROVE  RowStep(o)
<1>1. request' = request /\ type \in sent[p]
  BY DEF Webhook
<1>2. CASE UNCHANGED <<order, payment, ledger>>
  BY <1>1, <1>2, RestUnmoved
<1>3. CASE payment[p].ref /\ o # p
  <2>1. order'[o] = order[o] /\ payment'[o] = payment[o] /\ ledger'[o] = ledger[o]
    BY <1>3
    DEF Webhook, ApplyPaymentSucceeded, ApplyPaymentFailed, ApplyPaymentCancelled,
        ApplyPaymentPending, TypeOK
  <2>. QED
    BY <1>1, <2>1, OtherUnmoved
<1>4. CASE payment[p].ref /\ o = p /\ ApplyPaymentSucceeded(p)
  <2>1. SameBooks(o) /\ payment'[o].status = "SUCCEEDED"
    BY <1>4 DEF ApplyPaymentSucceeded, SameBooks, TypeOK, PaymentRow
  <2>2. order'[o] = IF order[o].status = "PENDING" THEN [order[o] EXCEPT !.status = "PAID"]
                                                   ELSE order[o]
    BY <1>4 DEF ApplyPaymentSucceeded, TypeOK
  <2>. QED
    BY <1>1, <1>4, <2>1, <2>2 DEF RowStep, Told
<1>5. CASE payment[p].ref /\ o = p /\ type = "failed" /\ ApplyPaymentFailed(p)
  <2>1. SameBooks(o) /\ payment'[o].status = "FAILED" /\ order'[o] = order[o]
    BY <1>5 DEF ApplyPaymentFailed, SameBooks, TypeOK, PaymentRow
  <2>. QED
    BY <1>1, <1>5, <2>1 DEF RowStep, Told
<1>6. CASE payment[p].ref /\ o = p /\ type = "canceled" /\ ApplyPaymentCancelled(p)
  <2>1. SameBooks(o) /\ payment'[o].status = "CANCELLED" /\ order'[o] = order[o]
    BY <1>6 DEF ApplyPaymentCancelled, SameBooks, TypeOK, PaymentRow
  <2>. QED
    BY <1>1, <1>6, <2>1 DEF RowStep, Told
<1>7. CASE payment[p].ref /\ o = p /\ type = "processing" /\ ApplyPaymentPending(p)
  <2>1. /\ SameBooks(o) /\ payment'[o].status = "PENDING" /\ order'[o] = order[o]
        /\ payment[o].status \notin {"SUCCEEDED", "FAILED"}
    BY <1>7 DEF ApplyPaymentPending, SameBooks, TypeOK, PaymentRow
  <2>. QED
    BY <1>1, <1>7, <2>1 DEF RowStep, Told
<1>. QED
  BY <1>2, <1>3, <1>4, <1>5, <1>6, <1>7 DEF Webhook

LEMMA CallbackRow == ASSUME TypeOK, NEW p \in Orders, NEW o \in Orders, Callback(p) PROVE RowStep(o)
<1>1. UNCHANGED <<now, request>>
  BY DEF Callback
<1>2. CASE SettleCheckout(p)
  BY <1>1, <1>2, SettleRow
<1>3. CASE intent[p] = "FAILED" /\ CompensateCheckout(p) /\ UNCHANGED ledger
  BY <1>1, <1>3, CompensateRow DEF Excused
<1>. QED
  BY <1>2, <1>3 DEF Callback

LEMMA OperatorRow ==
  ASSUME TypeOK, NEW op \in Operators, NEW o \in Orders, Operator(op)
  PROVE  RowStep(o)
<1>1. ASSUME NEW p, NEW kind, Requery(op, p, kind) PROVE RowStep(o)
  BY <1>1, RestUnmoved DEF Requery, rows
<1>2. CASE Resolve(op)
  <2>1. PICK d \in Decision : decision[op] = d
    BY <1>2 DEF Resolve, TypeOK
  <2>2. d.order \in Orders /\ d.verdict \in Verdicts /\ UNCHANGED <<now, request>>
    BY <1>2 DEF Decision, Resolve
  <2>3. CASE d.verdict = "SETTLE"
    BY <1>2, <2>1, <2>2, <2>3, SettleRow DEF Resolve
  <2>4. CASE d.verdict = "RELEASE"
    <3>1. CompensateCheckout(d.order) /\ UNCHANGED ledger
      BY <1>2, <2>1, <2>4 DEF Resolve
    <3>2. Excused(d.order)
      BY <2>1, <2>4 DEF Excused
    <3>. QED
      BY <2>2, <3>1, <3>2, CompensateRow
  <2>5. CASE d.verdict = "ALREADY_DONE"
    BY <1>2, <2>1, <2>2, <2>5, RestUnmoved DEF Resolve
  <2>. QED
    BY <2>2, <2>3, <2>4, <2>5 DEF Verdicts
<1>. QED
  BY <1>1, <1>2 DEF Operator

LEMMA BuyerRow == ASSUME TypeOK, NEW o \in Orders, Buyer PROVE RowStep(o)
<1>1. ASSUME NEW t \in RequestInstants, NEW p \in Orders, NEW named \in SUBSET Holds,
             NEW q \in Quantities, NEW promo \in BOOLEAN, NEW free \in BOOLEAN,
             Begin(p, named, q, promo, free, t)
      PROVE  RowStep(o)
  <2>1. /\ event = "LIVE" /\ order[p].status = "NONE" /\ request[p] = "IDLE" /\ UNCHANGED ledger
        /\ order' = [order EXCEPT ![p] = [status |-> "PENDING", qty |-> q, promo |-> promo]]
        /\ payment' = IF free THEN payment ELSE [payment EXCEPT ![p].status = "INITIATED"]
        /\ request' = [request EXCEPT ![p] = "BEGUN"]
    BY <1>1 DEF Begin
  <2>2. CASE o # p
    BY <2>1, <2>2, OtherUnmoved DEF TypeOK
  <2>3. CASE o = p
    <3>1. order'[o].status = "PENDING" /\ request'[o] = "BEGUN"
      BY <2>1, <2>3 DEF TypeOK
    <3>2. payment'[o].ref = payment[o].ref /\ payment'[o].status \in {payment[o].status, "INITIATED"}
      BY <2>1, <2>3 DEF TypeOK, PaymentRow
    <3>. QED
      BY <2>1, <2>3, <3>1, <3>2 DEF RowStep, SameBooks, Begun
  <2>. QED
    BY <2>2, <2>3
<1>2. ASSUME NEW h, NEW q, NEW t, CreateHold(h, q, t) \/ ReleaseHold(h, t) PROVE RowStep(o)
  BY <1>2, RestUnmoved DEF CreateHold, ReleaseHold
<1>. QED
  BY <1>1, <1>2 DEF Buyer

LEMMA DeletionRow == ASSUME TypeOK, NEW o \in Orders, DeleteEvent PROVE RowStep(o)
<1>1. UNCHANGED <<payment, request, ledger>> /\ CancelOrders(Unpaid) /\ ~TiersFree
  BY DEF DeleteEvent
<1>2. CASE o \in Unpaid
  <2>1. order[o].status = "PENDING" /\ Dead(o)
    BY <1>2 DEF Unpaid
  <2>2. order'[o].status = "CANCELLED"
    BY <1>1, <1>2 DEF CancelOrders, TypeOK, OrderRow
  <2>. QED
    BY <1>1, <2>1, <2>2 DEF RowStep, SameBooks, GivenUp, Excused
<1>3. CASE o \notin Unpaid
  <2>1. order'[o] = order[o]
    BY <1>1, <1>3 DEF CancelOrders
  <2>. QED
    BY <1>1, <2>1, OtherUnmoved
<1>. QED
  BY <1>2, <1>3

LEMMA RowSteps == ASSUME TypeOK, [Next]_vars, NEW o \in Orders PROVE RowStep(o)
<1>1. ASSUME NEW p \in Orders, Provider(p) PROVE RowStep(o)
  BY <1>1, RestUnmoved DEF Provider, ProviderDecides, ProviderReports, rows
<1>2. ASSUME NEW p \in Orders, IssueTickets(p) PROVE RowStep(o)
  BY <1>2, RestUnmoved DEF IssueTickets
<1>3. CASE SweepRead \/ SweepWrite \/ DecideDeletion \/ Tick \/ UNCHANGED vars
  BY <1>3, RestUnmoved DEF SweepRead, SweepWrite, DecideDeletion, Tick, rows, vars
<1>. QED
  BY <1>1, <1>2, <1>3, BuyerRow, RequestRow, WebhookRow, CallbackRow, OperatorRow, DeletionRow
  DEF Next, Worker


(* What the provider has sent may come again at any time. *)
LEMMA SentStays == ASSUME TypeOK, [Next]_vars, NEW o \in Orders PROVE sent[o] \subseteq sent'[o]
<1>1. ASSUME Buyer PROVE sent' = sent
  BY <1>1 DEF Buyer, CreateHold, ReleaseHold, Begin
<1>2. ASSUME NEW p \in Orders, Request(p) PROVE sent' = sent
  BY <1>2 DEF Request, CreateIntent, CaptureAnswered, Settle, SettleRefused, Compensate,
              RecordTimeout, RecordUnsettled, rows
<1>3. ASSUME NEW p \in Orders, RequestLost(p) \/ Callback(p) PROVE sent' = sent
  BY <1>3 DEF RequestLost, Callback, rows
<1>4. ASSUME NEW p \in Orders, Provider(p) PROVE sent[o] \subseteq sent'[o]
  <2>1. PICK news : sent' = [sent EXCEPT ![p] = @ \cup news]
    BY <1>4 DEF Provider, ProviderDecides, ProviderReports
  <2>. QED
    BY <2>1 DEF TypeOK
<1>5. ASSUME NEW p \in Orders, NEW type \in EventTypes, Webhook(p, type) PROVE sent' = sent
  BY <1>5 DEF Webhook
<1>6. ASSUME NEW op \in Operators, Operator(op) PROVE sent' = sent
  BY <1>6 DEF Operator, Requery, Resolve, rows
<1>7. ASSUME Worker \/ DecideDeletion \/ DeleteEvent \/ Tick \/ UNCHANGED vars PROVE sent' = sent
  BY <1>7 DEF Worker, SweepRead, SweepWrite, IssueTickets, DecideDeletion, DeleteEvent, Tick,
              rows, vars
<1>. QED
  BY <1>1, <1>2, <1>3, <1>4, <1>5, <1>6, <1>7 DEF Next

----------------------------------------------------------------------------
(* An order's row against its payment's and its request: until the request  *)
(* of an order that waits has answered, no webhook can find its payment.   *)

RowFits(o) ==
  /\ order[o].status = "NONE" => request[o] = "IDLE" /\ payment[o] = [status |-> "NONE", ref |-> FALSE]
  /\ order[o].status = "PENDING" /\ request[o] \in Running =>
       payment[o].status \in {"NONE", "INITIATED"} /\ ~payment[o].ref
  /\ payment[o].ref => HasPayment(o)
  /\ request[o] = "TIMED_OUT" => HasPayment(o)
  /\ payment[o].status = "CANCELLED" => "canceled" \in sent[o]
  /\ "ORDER_PAID" \in ledger[o] => order[o].status = "PAID"

RowsFit == TypeOK /\ \A o \in Orders : RowFits(o)

LEMMA RowFitsStep == ASSUME RowsFit, [Next]_vars, NEW o \in Orders PROVE RowFits(o)'
<1>1. TypeOK /\ RowFits(o) /\ RowStep(o) /\ TypeOK' /\ sent[o] \subseteq sent'[o]
  BY RowSteps, TypeStep, SentStays DEF RowsFit
<1>2. CASE Bought(o)
  <2>1. /\ order[o].status = "PENDING" /\ order' = [order EXCEPT ![o].status = "PAID"]
        /\ IF HasPayment(o)
             THEN payment' = [payment EXCEPT ![o] = [status |-> "SUCCEEDED", ref |-> TRUE]]
             ELSE UNCHANGED payment
    BY <1>2 DEF Bought, Sells, Pending, SettleCheckout
  <2>2. order'[o].status = "PAID"
    BY <1>1, <2>1 DEF TypeOK, OrderRow
  <2>3. payment'[o] = payment[o] \/ payment'[o] = [status |-> "SUCCEEDED", ref |-> TRUE]
    BY <1>1, <2>1 DEF TypeOK
  <2>4. HasPayment(o) => payment'[o].status # "NONE"
    BY <2>3 DEF HasPayment
  <2>. QED
    BY <1>1, <1>2, <2>2, <2>3, <2>4 DEF Bought, RowFits, HasPayment
<1>3. CASE Unmoved(o) /\ SameBooks(o)
  BY <1>1, <1>3 DEF Unmoved, SameBooks, RowFits, HasPayment
<1>4. CASE Begun(o) /\ SameBooks(o)
  BY <1>1, <1>4 DEF Begun, SameBooks, RowFits, HasPayment
<1>5. CASE Answered(o) /\ SameBooks(o)
  BY <1>1, <1>5 DEF Answered, SameBooks, RowFits, HasPayment, Running
<1>6. CASE GivenUp(o) /\ SameBooks(o)
  <2>1. payment'[o].ref = payment[o].ref /\ payment'[o].status \in {payment[o].status, "FAILED"}
    BY <1>1, <1>6 DEF GivenUp, TypeOK, PaymentRow
  <2>2. order[o].status = "PENDING" /\ order'[o].status = "CANCELLED"
        /\ request'[o] \in {request[o]} \cup Answers
    BY <1>6 DEF GivenUp
  <2>3. "TIMED_OUT" \notin Answers
    BY DEF Answers
  <2>. QED
    BY <1>1, <1>6, <2>1, <2>2, <2>3 DEF SameBooks, RowFits, HasPayment
<1>7. CASE TimedOut(o) /\ SameBooks(o)
  BY <1>1, <1>7 DEF TimedOut, SameBooks, RowFits, HasPayment, Running
<1>8. CASE Referenced(o) /\ SameBooks(o)
  BY <1>1, <1>8 DEF Referenced, SameBooks, RowFits, HasPayment, Running
<1>9. CASE Told(o) /\ SameBooks(o)
  <2>1. order[o].status # "NONE" /\ ~(order[o].status = "PENDING" /\ request[o] \in Running)
    BY <1>1, <1>9 DEF Told, RowFits
  <2>2. /\ \/ order'[o].status = order[o].status
           \/ order[o].status = "PENDING" /\ order'[o].status = "PAID"
        /\ payment'[o].status \in {"SUCCEEDED", "FAILED", "CANCELLED", "PENDING"}
        /\ payment'[o].status = "CANCELLED" => "canceled" \in sent[o]
        /\ request'[o] = request[o]
    BY <1>1, <1>9, ToldRow DEF Told
  <2>. QED
    BY <1>1, <1>9, <2>1, <2>2 DEF SameBooks, RowFits, HasPayment
<1>. QED
  BY <1>1, <1>2, <1>3, <1>4, <1>5, <1>6, <1>7, <1>8, <1>9 DEF RowStep

LEMMA RowsFitStep == ASSUME RowsFit, [Next]_vars PROVE RowsFit'
BY RowFitsStep, TypeStep DEF RowsFit

LEMMA RowsFitInit == Init => RowsFit
BY InitTyped DEF Init, RowsFit, RowFits, HasPayment

----------------------------------------------------------------------------
(* The deletion of the event, between its decision and its writes.         *)

(* A charge first reported cancelled and then, or again, processing. *)
Revived(o) == {"canceled", "processing"} \subseteq sent[o]

(* An order whose payment may still move is not among those a deletion in   *)
(* progress will find unpaid; only one that was revived is left waiting.   *)
DeletionDecided == ~TiersFree => \A o \in Pending : Dead(o) \/ Revived(o)

HeldOrRevived == \A o \in Pending : Holding(o) \/ (Revived(o) /\ Gone)

HeldInv == RowsFit /\ DeletionDecided /\ HeldOrRevived

LEMMA DeadStays ==
  ASSUME RowsFit, [Next]_vars, event # "LIVE", NEW o \in Orders,
         order[o].status = "PENDING" => Dead(o) \/ Revived(o), order'[o].status = "PENDING"
  PROVE  Dead(o)' \/ Revived(o)'
<1>1. TypeOK /\ RowFits(o) /\ RowStep(o) /\ sent[o] \subseteq sent'[o]
  BY RowSteps, SentStays DEF RowsFit
<1>2. CASE Bought(o)
  <2>1. order' = [order EXCEPT ![o].status = "PAID"]
    BY <1>2 DEF Bought, Sells, Pending, SettleCheckout
  <2>. QED
    BY <1>1, <2>1 DEF TypeOK, OrderRow
<1>3. CASE Begun(o) \/ GivenUp(o)
  BY <1>3 DEF Begun, GivenUp
<1>4. CASE Revived(o)
  BY <1>1, <1>4 DEF Revived
<1>5. CASE Dead(o) /\ (Unmoved(o) \/ Answered(o))
  BY <1>5 DEF Unmoved, Answered, Dead
<1>6. CASE Dead(o) /\ order[o].status = "PENDING" /\ TimedOut(o)
  BY <1>1, <1>6 DEF TimedOut, RowFits, Running, Dead, HasPayment, IN_FLIGHT_PAYMENT_STATES
<1>7. CASE Dead(o) /\ Referenced(o)
  BY <1>7 DEF Referenced, Dead, IN_FLIGHT_PAYMENT_STATES
<1>8. CASE Dead(o) /\ Told(o)
  <2>1. payment[o].status \in {"FAILED", "CANCELLED"}
    <3>1. payment[o].status # "NONE"
      BY <1>1, <1>8 DEF Told, RowFits, HasPayment
    <3>. QED
      BY <1>1, <1>8, <3>1 DEF Dead, TypeOK, PaymentRow, PaymentStatuses, IN_FLIGHT_PAYMENT_STATES
  <2>2. order'[o] = order[o]
    BY <1>1, <1>8, ToldRow
  <2>3. payment'[o].status # "SUCCEEDED"
    BY <1>1, <1>8, <2>2, ToldRow
  <2>4. payment'[o].status \in {"FAILED", "CANCELLED"} \/ Revived(o)
    BY <1>1, <1>8, <2>1, <2>3 DEF Told, RowFits, Revived
  <2>. QED
    BY <1>1, <2>4 DEF Dead, IN_FLIGHT_PAYMENT_STATES, Revived
<1>9. order[o].status = "PENDING" \/ Begun(o) \/ Bought(o)
  BY <1>1, ToldRow DEF RowStep, Unmoved, Answered, GivenUp, TimedOut, Referenced
<1>. QED
  BY <1>1, <1>2, <1>3, <1>4, <1>5, <1>6, <1>7, <1>8, <1>9 DEF RowStep

LEMMA HeldStep == ASSUME HeldInv, [Next]_vars PROVE HeldInv'
<1>1. TypeOK /\ TypeOK' /\ RowsFit' /\ Kinds
  BY TypeStep, RowsFitStep, StepKinds DEF HeldInv, RowsFit
<1>2. DeletionDecided'
  <2>1. CASE ~TiersFree
    <3>1. event # "LIVE"
      BY <2>1 DEF TiersFree
    <3>. QED
      BY <2>1, <3>1, DeadStays DEF HeldInv, DeletionDecided, Pending
  <2>2. CASE TiersFree /\ DecideDeletion
    BY <2>2 DEF DecideDeletion, DeletionDecided, Pending, Dead
  <2>3. CASE TiersFree /\ ~DecideDeletion
    <3>1. TiersFree'
      BY <2>3, EventKind DEF DeleteEvent, TiersFree
    <3>. QED
      BY <3>1 DEF DeletionDecided
  <2>. QED
    BY <2>1, <2>2, <2>3
<1>3. SUFFICES ASSUME NEW o \in Orders, order'[o].status = "PENDING"
               PROVE  Holding(o)' \/ (Revived(o)' /\ Gone')
  BY <1>1, <1>2 DEF HeldInv, HeldOrRevived, Pending
<1>4. sent[o] \subseteq sent'[o]
  BY <1>1, SentStays
<1>5. CASE DeleteEvent
  <2>1. o \notin Unpaid /\ order[o].status = "PENDING" /\ ~TiersFree /\ Gone'
    BY <1>1, <1>3, <1>5 DEF DeleteEvent, CancelOrders, TypeOK, OrderRow, Gone
  <2>2. Revived(o)
    BY <2>1 DEF Unpaid, HeldInv, DeletionDecided, Pending
  <2>. QED
    BY <1>4, <2>1, <2>2 DEF Revived
<1>6. CASE ~DeleteEvent /\ Undisturbed(o)
  <2>1. Holding(o) \/ (Revived(o) /\ Gone)
    BY <1>6 DEF HeldInv, HeldOrRevived, Pending, Undisturbed
  <2>. QED
    BY <1>4, <1>6, <2>1, GoneStays, UndisturbedHolding DEF Revived
<1>7. CASE ~DeleteEvent /\ ~Undisturbed(o)
  BY <1>1, <1>3, <1>7, PendingUndisturbed, BegunHolding
<1>. QED
  BY <1>5, <1>6, <1>7

(* Until its payment is settled or refused, an order holds all it is for,   *)
(* whatever buyers, sweeps, callbacks, operators and the deletion of the   *)
(* event do.  Only where a charge reported cancelled was reported to be    *)
(* processing after all, between the deletion's decision and its writes,   *)
(* does the deletion leave an order waiting with its holds released.       *)
THEOREM PendingHeld == Spec => []PendingHoldsItsTickets
<1>1. Init => HeldInv
  <2>1. SUFFICES ASSUME Init PROVE HeldInv
    OBVIOUS
  <2>2. Pending = {} /\ TiersFree
    BY <2>1 DEF Init, Pending, TiersFree
  <2>. QED
    BY <2>1, <2>2, RowsFitInit DEF HeldInv, DeletionDecided, HeldOrRevived
<1>2. HeldInv /\ [Next]_vars => HeldInv'
  BY HeldStep
<1>3. HeldInv => PendingHoldsItsTickets
  BY DEF HeldInv, HeldOrRevived, Pending, Holding, HoldsOf, Revived, Gone, PendingHoldsItsTickets
<1>. QED
  BY <1>1, <1>2, <1>3, PTL DEF Spec

----------------------------------------------------------------------------
(* Only an order the provider took nothing for ends unpaid.  Whatever says  *)
(* an order may end speaks of a charge that has failed for good, but for   *)
(* the news of a card refused, which the deletion of the event goes by.    *)

ChargeFits(o) ==
  /\ order[o].status = "NONE" => intent[o] = "NONE"
  /\ request[o] = "DECLINED" => intent[o] = "FAILED"
  /\ order[o].status = "PENDING" /\ payment[o].status = "NONE" => intent[o] = "NONE"
  /\ order[o].status = "PENDING" /\ payment[o].status \in {"FAILED", "CANCELLED"} =>
       intent[o] = "FAILED" \/ "failed" \in sent[o]
  /\ "canceled" \in sent[o] => intent[o] = "FAILED"
  /\ \A op \in Operators :
       decision[op].order = o /\ decision[op].verdict = "RELEASE" => intent[o] = "FAILED"

ChargesFit == \A o \in Orders : ChargeFits(o)

(* What a step does to a charge, to the news of it and to the verdicts. *)
ChargeStep(o) ==
  /\ \/ intent'[o] = intent[o]
     \/ /\ intent[o] = "NONE" /\ HasPayment(o) /\ request[o] # "IDLE"
        /\ UNCHANGED <<order, payment, request, sent, decision>>
     \/ intent[o] = "OPEN" /\ UNCHANGED <<order, payment, request, decision>>
  /\ "canceled" \in sent'[o] => "canceled" \in sent[o] \/ intent'[o] = "FAILED"
  /\ \A op \in Operators :
       decision'[op] = decision[op] \/ decision'[op] = NoDecision
         \/ (decision'[op].order = o /\ decision'[op].verdict = "RELEASE" => intent[o] = "FAILED")

LEMMA ChargeRests ==
  ASSUME NEW o \in Orders, UNCHANGED <<intent, sent, decision>>
  PROVE  ChargeStep(o)
BY DEF ChargeStep

LEMMA ProviderCharge ==
  ASSUME TypeOK, NEW p \in Orders, NEW o \in Orders, Provider(p)
  PROVE  ChargeStep(o)
<1>1. UNCHANGED <<order, payment, request, decision>>
  BY DEF Provider, ProviderDecides, ProviderReports, rows
<1>2. CASE o # p
  <2>1. intent'[o] = intent[o] /\ sent'[o] = sent[o]
    BY <1>2 DEF Provider, ProviderDecides, ProviderReports, TypeOK
  <2>. QED
    BY <1>1, <2>1 DEF ChargeStep
<1>3. ASSUME o = p, NEW outcome, NEW news, ProviderDecides(p, outcome, news),
             outcome = "FAILED" \/ news = "succeeded"
      PROVE  ChargeStep(o)
  <2>1. intent[o] = "OPEN" /\ intent'[o] = outcome /\ sent'[o] = sent[o] \cup ({news} \cap EventTypes)
    BY <1>3 DEF ProviderDecides, TypeOK
  <2>. QED
    BY <1>1, <1>3, <2>1 DEF ChargeStep
<1>4. ASSUME o = p, NEW news \in {"failed", "processing"}, ProviderReports(p, news)
      PROVE  ChargeStep(o)
  <2>1. intent' = intent /\ sent'[o] = sent[o] \cup {news}
    BY <1>4 DEF ProviderReports, rows, TypeOK
  <2>. QED
    BY <1>1, <1>4, <2>1 DEF ChargeStep
<1>. QED
  BY <1>2, <1>3, <1>4 DEF Provider

LEMMA OperatorCharge ==
  ASSUME TypeOK, NEW op \in Operators, NEW o \in Orders, Operator(op)
  PROVE  ChargeStep(o)
<1>1. UNCHANGED <<intent, sent>>
  BY DEF Operator, Requery, Resolve, rows
<1>2. ASSUME NEW p \in Orders, NEW kind \in TaskKinds, Requery(op, p, kind) PROVE ChargeStep(o)
  <2>1. PICK v \in CompareEvidence(p) :
          decision' = [decision EXCEPT ![op] = [order |-> p, kind |-> kind, verdict |-> v]]
    BY <1>2 DEF Requery
  <2>2. v = "RELEASE" => intent[p] = "FAILED"
    BY DEF CompareEvidence
  <2>3. \A r \in Operators : r # op => decision'[r] = decision[r]
    BY <2>1 DEF TypeOK
  <2>4. decision'[op] = [order |-> p, kind |-> kind, verdict |-> v]
    BY <2>1 DEF TypeOK
  <2>. QED
    BY <1>1, <2>2, <2>3, <2>4 DEF ChargeStep
<1>3. CASE Resolve(op)
  <2>1. \A r \in Operators : decision'[r] = decision[r] \/ decision'[r] = NoDecision
    BY <1>3 DEF Resolve, TypeOK
  <2>. QED
    BY <1>1, <2>1 DEF ChargeStep
<1>. QED
  BY <1>2, <1>3 DEF Operator

LEMMA RequestCharge ==
  ASSUME TypeOK, NEW p \in Orders, NEW o \in Orders, Request(p) \/ RequestLost(p)
  PROVE  ChargeStep(o)
<1>1. CASE CreateIntent(p)
  <2>1. /\ HasPayment(p) /\ intent[p] = "NONE" /\ request[p] = "BEGUN"
        /\ intent' = [intent EXCEPT ![p] = "OPEN"]
        /\ UNCHANGED <<order, payment, request, sent, decision>>
    BY <1>1 DEF CreateIntent, rows
  <2>2. o # p => intent'[o] = intent[o]
    BY <2>1 DEF TypeOK
  <2>. QED
    BY <2>1, <2>2 DEF ChargeStep
<1>2. ASSUME ~CreateIntent(p) PROVE UNCHANGED <<intent, sent, decision>>
  BY <1>2 DEF Request, CaptureAnswered, Settle, SettleRefused, Compensate, RecordTimeout,
              RecordUnsettled, RequestLost, rows
<1>. QED
  BY <1>1, <1>2, ChargeRests

LEMMA ChargeSteps == ASSUME TypeOK, [Next]_vars, NEW o \in Orders PROVE ChargeStep(o)
<1>1. ASSUME Buyer PROVE UNCHANGED <<intent, sent, decision>>
  BY <1>1 DEF Buyer, CreateHold, ReleaseHold, Begin
<1>2. ASSUME NEW p \in Orders, Callback(p) PROVE UNCHANGED <<intent, sent, decision>>
  BY <1>2 DEF Callback
<1>3. ASSUME NEW p \in Orders, NEW type \in EventTypes, Webhook(p, type)
      PROVE  UNCHANGED <<intent, sent, decision>>
  BY <1>3 DEF Webhook
<1>4. ASSUME Worker \/ DecideDeletion \/ DeleteEvent \/ Tick \/ UNCHANGED vars
      PROVE  UNCHANGED <<intent, sent, decision>>
  BY <1>4 DEF Worker, SweepRead, SweepWrite, IssueTickets, DecideDeletion, DeleteEvent, Tick, rows,
              vars
<1>. QED
  BY <1>1, <1>2, <1>3, <1>4, ChargeRests, ProviderCharge, OperatorCharge, RequestCharge DEF Next

LEMMA ExcusedByFailure ==
  ASSUME TypeOK, NEW o \in Orders, ChargeFits(o), order[o].status = "PENDING", Excused(o)
  PROVE  intent[o] # "SUCCEEDED" \/ ("failed" \in sent[o] /\ ~TiersFree)
<1>1. CASE Dead(o) /\ (~HasPayment(o) \/ ~TiersFree)
  <2>1. payment[o].status \in {"NONE", "FAILED", "CANCELLED"}
    BY <1>1 DEF Dead, TypeOK, PaymentRow, PaymentStatuses, IN_FLIGHT_PAYMENT_STATES
  <2>. QED
    BY <1>1, <2>1 DEF ChargeFits, HasPayment
<1>. QED
  BY <1>1 DEF Excused, ChargeFits

LEMMA ChargeFitsStep ==
  ASSUME RowsFit, ChargesFit, [Next]_vars, NEW o \in Orders
  PROVE  ChargeFits(o)'
<1>1. /\ TypeOK /\ RowFits(o) /\ ChargeFits(o) /\ RowStep(o) /\ ChargeStep(o)
      /\ "failed" \in sent[o] => "failed" \in sent'[o]
  BY RowSteps, ChargeSteps, SentStays DEF RowsFit, ChargesFit
<1>2. intent[o] = "FAILED" => intent'[o] = "FAILED"
  BY <1>1 DEF ChargeStep
<1>3. "canceled" \in sent'[o] => intent'[o] = "FAILED"
  BY <1>1, <1>2 DEF ChargeStep, ChargeFits
<1>4. \A op \in Operators :
        decision'[op].order = o /\ decision'[op].verdict = "RELEASE" => intent'[o] = "FAILED"
  BY <1>1, <1>2 DEF ChargeStep, ChargeFits, NoDecision
<1>5. CASE intent'[o] = intent[o]
  <2>1. CASE Bought(o)
    <3>1. order' = [order EXCEPT ![o].status = "PAID"]
      BY <2>1 DEF Bought, Sells, Pending, SettleCheckout
    <3>2. order'[o].status = "PAID"
      BY <1>1, <3>1 DEF TypeOK, OrderRow
    <3>. QED
      BY <1>1, <1>3, <1>4, <1>5, <2>1, <3>2 DEF Bought, ChargeFits
  <2>2. CASE Unmoved(o)
    BY <1>1, <1>3, <1>4, <1>5, <2>2 DEF Unmoved, ChargeFits
  <2>3. CASE Begun(o)
    BY <1>1, <1>3, <1>4, <1>5, <2>3 DEF Begun, RowFits, ChargeFits
  <2>4. CASE Answered(o)
    BY <1>1, <1>3, <1>4, <1>5, <2>4 DEF Answered, ChargeFits
  <2>5. CASE GivenUp(o)
    <3>1. "DECLINED" \notin Answers
      BY DEF Answers
    <3>. QED
      BY <1>1, <1>3, <1>4, <1>5, <2>5, <3>1 DEF GivenUp, ChargeFits
  <2>6. CASE TimedOut(o) \/ Referenced(o)
    BY <1>1, <1>3, <1>4, <1>5, <2>6 DEF TimedOut, Referenced, ChargeFits
  <2>7. CASE Told(o)
    <3>1. order[o].status # "NONE"
      BY <1>1, <2>7 DEF Told, RowFits
    <3>2. order'[o].status \in {order[o].status, "PAID"}
      BY <1>1, <2>7, ToldRow
    <3>3. \/ payment'[o].status \in {"SUCCEEDED", "PENDING"}
          \/ payment'[o].status = "CANCELLED" /\ intent[o] = "FAILED"
          \/ payment'[o].status = "FAILED" /\ "failed" \in sent[o]
      BY <1>1, <2>7 DEF Told, ChargeFits
    <3>. QED
      BY <1>1, <1>3, <1>4, <1>5, <2>7, <3>1, <3>2, <3>3 DEF Told, ChargeFits
  <2>. QED
    BY <1>1, <2>1, <2>2, <2>3, <2>4, <2>5, <2>6, <2>7 DEF RowStep
<1>6. CASE intent'[o] # intent[o]
  <2>1. UNCHANGED <<order, payment, request>> /\ intent[o] # "FAILED"
    BY <1>1, <1>6 DEF ChargeStep
  <2>2. order[o].status # "NONE" /\ ~(order[o].status = "PENDING" /\ payment[o].status = "NONE")
    BY <1>1, <1>6 DEF ChargeStep, ChargeFits, RowFits, HasPayment
  <2>. QED
    BY <1>1, <1>3, <1>4, <2>1, <2>2 DEF ChargeFits
<1>. QED
  BY <1>5, <1>6

(* A charge that may have succeeded is never released: every order that     *)
(* ends unpaid ends on the word of a request that was declined, of a       *)
(* callback, of an operator or of a deletion that found its payment dead,  *)
(* and each of them knows of a charge that failed or was never made; the   *)
(* deletion alone may take the news of a first card refused for that.      *)
THEOREM ChargedIsKept == Spec => NeverCancelCharged
<1>1. Init => RowsFit /\ ChargesFit
  BY RowsFitInit DEF Init, ChargesFit, ChargeFits, NoDecision
<1>2. RowsFit /\ ChargesFit /\ [Next]_vars => (RowsFit /\ ChargesFit)'
  BY RowsFitStep, ChargeFitsStep DEF ChargesFit
<1>3. ASSUME RowsFit, ChargesFit, [Next]_vars, NEW o \in Orders,
             order[o].status = "PENDING", order'[o].status = "CANCELLED"
      PROVE  intent[o] # "SUCCEEDED" \/ ("failed" \in sent[o] /\ ~TiersFree)
  <2>1. TypeOK /\ RowStep(o)
    BY <1>3, RowSteps DEF RowsFit
  <2>2. ~Bought(o)
    <3>1. Bought(o) => order' = [order EXCEPT ![o].status = "PAID"]
      BY DEF Bought, Sells, Pending, SettleCheckout
    <3>. QED
      BY <1>3, <2>1, <3>1 DEF TypeOK, OrderRow
  <2>3. ~Told(o)
    BY <1>3, <2>1, ToldRow
  <2>4. Excused(o)
    BY <1>3, <2>1, <2>2, <2>3
    DEF RowStep, Unmoved, Begun, Answered, GivenUp, TimedOut, Referenced
  <2>. QED
    BY <1>3, <2>1, <2>4, ExcusedByFailure DEF ChargesFit
<1>4. RowsFit /\ ChargesFit /\ [Next]_vars =>
        [\A o \in Orders : order[o].status = "PENDING" /\ order'[o].status = "CANCELLED" =>
           intent[o] # "SUCCEEDED" \/ ("failed" \in sent[o] /\ ~TiersFree)]_vars
  BY <1>3
<1>. QED
  BY <1>1, <1>2, <1>4, PTL DEF Spec, NeverCancelCharged

----------------------------------------------------------------------------
(* The sold count.                                                         *)

Settlements == {o \in Orders : Fulfilled(o)}

LEMMA SettlementsCount ==
  ASSUME TypeOK PROVE IsCount(OrderQuantities, Orders)
BY CheckoutAssumption
DEF CheckoutAssumption, TypeOK, OrderRow, Quantities, IsCount, OrderQuantities

LEMMA FulfilledStays ==
  ASSUME RowsFit, [Next]_vars, NEW o \in Orders, ~Sells(o)
  PROVE  Fulfilled(o)' <=> Fulfilled(o)
<1>1. TypeOK /\ RowFits(o) /\ RowStep(o)
  BY RowSteps DEF RowsFit
<1>2. SameBooks(o)
  BY <1>1 DEF RowStep, Bought
<1>3. CASE Unmoved(o) \/ Answered(o)
  BY <1>2, <1>3 DEF Unmoved, Answered, SameBooks, Fulfilled, HasPayment
<1>4. CASE Begun(o) \/ GivenUp(o)
  BY <1>4 DEF Begun, GivenUp, Fulfilled
<1>5. CASE TimedOut(o) \/ Referenced(o)
  BY <1>1, <1>2, <1>5 DEF TimedOut, Referenced, SameBooks, RowFits, Fulfilled, HasPayment
<1>6. CASE Told(o)
  <2>1. HasPayment(o) /\ payment'[o].status # "NONE"
    BY <1>1, <1>6 DEF Told, RowFits
  <2>2. \/ order'[o] = order[o]
        \/ order[o].status = "PENDING" /\ "ORDER_PAID" \notin ledger[o]
    BY <1>1, <1>6 DEF Told, RowFits
  <2>. QED
    BY <1>2, <2>1, <2>2 DEF SameBooks, Fulfilled, HasPayment
<1>. QED
  BY <1>1, <1>3, <1>4, <1>5, <1>6 DEF RowStep, Bought

LEMMA QuantityStays ==
  ASSUME TypeOK, [Next]_vars, NEW o \in Orders, order[o].status = "PAID"
  PROVE  order'[o].qty = order[o].qty
<1>1. RowStep(o)
  BY RowSteps
<1>2. CASE Bought(o)
  BY <1>2 DEF Bought, Sells, Pending
<1>. QED
  BY <1>1, <1>2 DEF RowStep, Unmoved, Begun, Answered, GivenUp, TimedOut, Referenced, Told

LEMMA SoldStep ==
  ASSUME RowsFit, SoldIsWhatWasSettled, [Next]_vars
  PROVE  SoldIsWhatWasSettled'
<1>1. TypeOK /\ TypeOK' /\ Kinds
  BY TypeStep, StepKinds DEF RowsFit
<1>2. IsCount(OrderQuantities, Orders) /\ IsCount(OrderQuantities', Orders)
  <2>1. IsCount(OrderQuantities', Orders)
    BY <1>1, CheckoutAssumption
    DEF CheckoutAssumption, TypeOK, OrderRow, Quantities, IsCount, OrderQuantities
  <2>. QED
    BY <1>1, <2>1, SettlementsCount
<1>3. sold = SumOf(OrderQuantities, Settlements) /\ Settlements \in SUBSET Orders
  BY DEF SoldIsWhatWasSettled, OrderQuantities, Settlements
<1>4. SumOf(OrderQuantities', Settlements) = SumOf(OrderQuantities, Settlements)
  <2>1. \A o \in Settlements : OrderQuantities'[o] = OrderQuantities[o]
    BY <1>1, QuantityStays DEF Settlements, Fulfilled, OrderQuantities
  <2>. QED
    BY <2>1, SumSame
<1>5. CASE \E o \in Orders : Sells(o)
  <2>1. PICK o \in Orders : Sells(o)
    BY <1>5
  <2>2. /\ order[o].status = "PENDING" /\ sold' = sold + order[o].qty
        /\ order' = [order EXCEPT ![o].status = "PAID"]
        /\ IF HasPayment(o)
             THEN /\ payment' = [payment EXCEPT ![o] = [status |-> "SUCCEEDED", ref |-> TRUE]]
                  /\ ledger' = [ledger EXCEPT ![o] = @ \cup {"ORDER_PAID"}]
             ELSE UNCHANGED <<payment, ledger>>
    BY <2>1 DEF Sells, Pending, SettleCheckout
  <2>3. order'[o].status = "PAID" /\ order'[o].qty = order[o].qty
    BY <1>1, <2>2 DEF TypeOK, OrderRow
  <2>4. Fulfilled(o)' /\ ~Fulfilled(o)
    BY <1>1, <2>2, <2>3 DEF Fulfilled, HasPayment, TypeOK
  <2>5. \A p \in Orders \ {o} : ~Sells(p)
    BY <1>1, <2>2 DEF Sells, Pending, SettleCheckout, TypeOK, OrderRow
  <2>6. \A p \in Orders \ {o} : Fulfilled(p)' <=> Fulfilled(p)
    BY <2>5, FulfilledStays
  <2>7. Settlements' = Settlements \cup {o} /\ o \notin Settlements
    BY <2>4, <2>6 DEF Settlements
  <2>8. /\ SumOf(OrderQuantities', Settlements \cup {o})
             = SumOf(OrderQuantities', Settlements) + SumOf(OrderQuantities', {o})
        /\ OrderQuantities'[o] = order[o].qty /\ order[o].qty \in Nat
    <3>1. IsCount(OrderQuantities', Settlements) /\ IsCount(OrderQuantities', {o})
      BY <1>2, <1>3, SumOfPart
    <3>2. OrderQuantities'[o] = order[o].qty
      BY <2>3 DEF OrderQuantities
    <3>. QED
      BY <2>7, <3>1, <3>2, SumOfBoth DEF IsCount
  <2>9. SumOf(OrderQuantities', {o}) = order[o].qty
    BY <2>8, SumOfOne
  <2>10. sold' = SumOf(OrderQuantities', Settlements')
    BY <1>3, <1>4, <2>2, <2>7, <2>8, <2>9
  <2>. QED
    BY <2>10 DEF SoldIsWhatWasSettled, OrderQuantities, Settlements
<1>6. CASE \A o \in Orders : ~Sells(o)
  <2>1. sold' = sold
    BY <1>1, <1>6
    DEF Kinds, Begins, Begin, MarksPaid, Ends, DeleteEvent, HoldsMove, CreateHold, ReleaseHold,
        SweepWrite, Rests, Tick, rows
  <2>2. Settlements' = Settlements
    BY <1>6, FulfilledStays DEF Settlements
  <2>3. sold' = SumOf(OrderQuantities', Settlements')
    BY <1>3, <1>4, <2>1, <2>2
  <2>. QED
    BY <2>3 DEF SoldIsWhatWasSettled, OrderQuantities, Settlements
<1>. QED
  BY <1>5, <1>6

(* The sold count is exactly what the settled orders bought: each is        *)
(* counted once, by whoever settles it, and nothing is counted for an      *)
(* order that only a webhook marked PAID.                                  *)
THEOREM SoldIsSettled == Spec => []SoldIsWhatWasSettled
<1>1. Init => RowsFit /\ SoldIsWhatWasSettled
  <2>1. SUFFICES ASSUME Init PROVE SoldIsWhatWasSettled
    BY RowsFitInit
  <2>2. {o \in Orders : Fulfilled(o)} = {}
    BY <2>1 DEF Init, Fulfilled
  <2>. QED
    BY <2>1, <2>2, SumOfNone DEF Init, SoldIsWhatWasSettled
<1>2. RowsFit /\ SoldIsWhatWasSettled /\ [Next]_vars => (RowsFit /\ SoldIsWhatWasSettled)'
  BY RowsFitStep, SoldStep
<1>. QED
  BY <1>1, <1>2, PTL DEF Spec

=============================================================================
