------------------------------ MODULE Checkout ------------------------------
(***************************************************************************)
(* Buying general-admission tickets of one tier: the reservation (holds),  *)
(* the two-phase checkout, the payment provider and its webhooks, the      *)
(* operators' reconciliation of what nobody knows, the expiry sweep, the   *)
(* ticket job and the deletion of the event.                               *)
(*                                                                         *)
(* An action is one database transaction (or one call of the provider,     *)
(* made with no transaction open).  A transaction that decides from the    *)
(* tier takes the tier's row lock first, one that decides from a hold      *)
(* takes the hold's, and every status moves by a conditional update, so a  *)
(* transaction is atomic; what is read in one step and used in another     *)
(* (the request's instant, the sweep's candidates, an operator's verdict,  *)
(* the outcome of the charge) is kept in a variable between the two.       *)
(*                                                                         *)
(* The order of one checkout attempt is named by the attempt: Orders is    *)
(* the set of attempts, and an attempt's Idempotency-Key lets it place one *)
(* order.                                                                  *)
(*                                                                         *)
(* A definition whose name ends in _Mutant is the one that follows it with *)
(* a plausible bug, and is part of no specification: the properties are    *)
(* tested by putting it in the place of the other.                         *)
(***************************************************************************)
EXTENDS Integers, FiniteSets, Counting

CONSTANTS
  Orders,         \* checkout attempts, and the order each may place
  Holds,          \* rows of TicketHold that may be written
  Operators,      \* people working the reconciliation queue
  EventTypes,     \* the kinds of webhook the provider sends
  RefKnown,       \* may a timed-out call name its intent? a subset of BOOLEAN
  Capacity,       \* TicketType.quantityTotal
  PromoLimit,     \* PromoCode.maxRedemptions
  TTL,            \* TICKET_HOLD_TTL_SECONDS
  MaxQty,         \* bound: tickets of one order or hold
  MaxTime,        \* bound: the clock
  MaxLag          \* bound: how old a request's instant is when it takes its locks

WebhookTypes == {"succeeded", "failed", "canceled", "processing"}

ASSUME CheckoutAssumption ==
  /\ IsFiniteSet(Orders) /\ IsFiniteSet(Holds)
  /\ EventTypes \subseteq WebhookTypes
  /\ RefKnown \subseteq BOOLEAN
  /\ Capacity \in Nat /\ PromoLimit \in Nat /\ TTL \in Nat \ {0}
  /\ MaxQty \in Nat \ {0} /\ MaxTime \in Nat /\ MaxLag \in Nat

NoOrder == "no order"
NoDecision == [order |-> NoOrder, kind |-> "NONE", verdict |-> "NONE"]

ASSUME SentinelAssumption == NoOrder \notin Orders

VARIABLES
  now,         \* the clock
  hold,        \* TicketHold rows
  order,       \* Order rows, with the one line each has here
  payment,     \* Payment rows, one attempt per order
  tickets,     \* how many Ticket rows each order has
  sold,        \* TicketType.quantitySold
  redemptions, \* PromoCode.redemptionCount
  ledger,      \* the ledger batches posted for each order
  tasks,       \* the kinds of the active reconciliation tasks about each order
  request,     \* where the checkout request of each order is, or its answer
  intent,      \* the provider's own record of the charge
  sent,        \* the kinds of webhook the provider has sent about it
  candidates,  \* the holds the expiry sweep has read and not yet written
  decision,    \* the verdict each operator has reached and not yet applied
  event        \* whether the event is on sale, being deleted, or deleted

rows == <<hold, order, payment, tickets, sold, redemptions, ledger, tasks, event>>
vars == <<now, rows, request, intent, sent, candidates, decision>>

----------------------------------------------------------------------------
(* The rows                                                                *)

HoldStatuses == {"NONE", "ACTIVE", "CONVERTED", "RELEASED", "EXPIRED"}
OrderStatuses == {"NONE", "PENDING", "PAID", "CANCELLED"}
PaymentStatuses == {"NONE", "INITIATED", "PENDING", "TIMEOUT", "SUCCEEDED", "FAILED", "CANCELLED"}
TaskKinds == {"PAYMENT_TIMEOUT", "PROVIDER_MISMATCH", "UNMATCHED"}
Batches == {"ORDER_PAID", "LATE_CAPTURE"}
Running == {"BEGUN", "CAPTURED", "TIMED_OUT", "DECLINED", "REFUSED"}
(* PAYMENT_TIMEOUT is written OVERTAKEN where the order was closed by then. *)
Answers == {"201", "PAYMENT_DECLINED", "PAYMENT_TIMEOUT", "OVERTAKEN", "ORDER_NOT_COMPLETED",
            "ORDER_CANCELLED"}
Verdicts == {"SETTLE", "RELEASE", "ALREADY_DONE"}
EventStates == {"LIVE", "REMOVING", "REFUNDING", "REMOVED", "REFUNDED"}

Quantities == 1 .. MaxQty
Instants == 0 .. MaxTime

HoldRow == [status : HoldStatuses, order : Orders \cup {NoOrder},
            qty : Quantities, expiresAt : Nat]
OrderRow == [status : OrderStatuses, qty : Quantities, promo : BOOLEAN]
PaymentRow == [status : PaymentStatuses, ref : BOOLEAN]
Decision == [order : Orders, kind : TaskKinds, verdict : Verdicts]

(* The statuses a PENDING order's payment has while the money may still    *)
(* move, and the ones that leave the order safe to cancel.                 *)
IN_FLIGHT_PAYMENT_STATES == {"INITIATED", "PENDING", "TIMEOUT", "SUCCEEDED"}

(* A hold belongs to an order for as long as that order awaits its payment. *)
AwaitingPayment(h) ==
  /\ hold[h].order # NoOrder
  /\ order[hold[h].order].status = "PENDING"

(* The deletion of an event holds its tiers' locks from its decision to its *)
(* writes, and keeps out every transaction that takes them.                *)
TiersFree == event \notin {"REMOVING", "REFUNDING"}

IsHoldExpired(h, t) == hold[h].status = "EXPIRED" \/ hold[h].expiresAt <= t

Active(h) == hold[h].status = "ACTIVE"

HeldBy(S) == SumOf([h \in Holds |-> hold[h].qty], S)

(* Tickets kept off sale by the ACTIVE holds that have not lapsed. *)
ActiveHeldQuantity(S, t) == HeldBy({h \in S : Active(h) /\ ~IsHoldExpired(h, t)})

AvailableQuantity_Mutant(ignored, t) == Capacity - sold

AvailableQuantity(ignored, t) ==
  LET left == Capacity - sold - ActiveHeldQuantity(Holds \ ignored, t)
  IN  IF left > 0 THEN left ELSE 0

(* The instants a request that takes its locks now may carry. *)
RequestInstants == {t \in Instants : t <= now /\ now - t <= MaxLag}

HasPayment(o) == payment[o].status # "NONE"

----------------------------------------------------------------------------
(* Reserving                                                               *)

FreshHold(o, q, t) ==
  [status |-> "ACTIVE", order |-> o, qty |-> q, expiresAt |-> t + TTL]

(* holds.create: the tier is locked before its availability is read. *)
CreateHold(h, q, t) ==
  /\ event = "LIVE"
  /\ hold[h].status = "NONE"
  /\ q <= AvailableQuantity({}, t)
  /\ hold' = [hold EXCEPT ![h] = FreshHold(NoOrder, q, t)]
  /\ UNCHANGED <<now, order, payment, tickets, sold, redemptions, ledger, tasks, event,
                 request, intent, sent, candidates, decision>>

ReleaseHold_Mutant(h, t) ==
  /\ Active(h)
  /\ hold' = [hold EXCEPT ![h].status = IF IsHoldExpired(h, t) THEN "EXPIRED" ELSE "RELEASED"]
  /\ UNCHANGED <<now, order, payment, tickets, sold, redemptions, ledger, tasks, event,
                 request, intent, sent, candidates, decision>>

(* holds.release: the hold is locked, then read; one an order awaits its    *)
(* payment on is refused, and so is one already spent or given back.       *)
ReleaseHold(h, t) ==
  /\ Active(h)
  /\ ~AwaitingPayment(h)
  /\ hold' = [hold EXCEPT ![h].status = IF IsHoldExpired(h, t) THEN "EXPIRED" ELSE "RELEASED"]
  /\ UNCHANGED <<now, order, payment, tickets, sold, redemptions, ledger, tasks, event,
                 request, intent, sent, candidates, decision>>

SweepRead_Mutant ==
  /\ candidates = {}
  /\ candidates' = {h \in Holds : Active(h) /\ hold[h].order = NoOrder /\ IsHoldExpired(h, now)}
  /\ candidates' # {}
  /\ UNCHANGED <<now, rows, request, intent, sent, decision>>

(* The expiry sweep reads its candidates with no transaction open ... *)
SweepRead ==
  /\ candidates = {}
  /\ candidates' = {h \in Holds : Active(h) /\ ~AwaitingPayment(h) /\ IsHoldExpired(h, now)}
  /\ candidates' # {}
  /\ UNCHANGED <<now, rows, request, intent, sent, decision>>

SweepWrite ==
  /\ candidates # {}
  /\ hold' = [h \in Holds |->
                IF h \in candidates /\ Active(h) /\ ~AwaitingPayment(h)
                  THEN [hold[h] EXCEPT !.status = "EXPIRED"] ELSE hold[h]]
  /\ candidates' = {}
  /\ UNCHANGED <<now, order, payment, tickets, sold, redemptions, ledger, tasks, event,
                 request, intent, sent, decision>>

----------------------------------------------------------------------------
(* Phase 1 of a checkout                                                   *)

Spendable_Mutant(t) == {h \in Holds : Active(h) /\ hold[h].expiresAt > t}

(* The holds a request may spend: its own, still ACTIVE, not lapsed at the  *)
(* request's instant, and not awaiting another order's payment.            *)
Spendable(t) == {h \in Holds : Active(h) /\ ~AwaitingPayment(h) /\ hold[h].expiresAt > t}

(* The order, its line, its payment attempt and its reservation, in one    *)
(* transaction under the tier's, the holds' and the promo code's locks.    *)
(* What the named holds do not cover is reserved by a hold of its own.     *)
Begin(o, named, q, promo, free, t) ==
  /\ event = "LIVE"
  /\ order[o].status = "NONE" /\ request[o] = "IDLE"
  /\ named \subseteq Spendable(t)
  /\ q <= AvailableQuantity(named, t)
  /\ promo => redemptions < PromoLimit
  /\ \E topUp \in SUBSET {h \in Holds : hold[h].status = "NONE"}, unheld \in 0 .. MaxQty :
       /\ unheld = IF q > HeldBy(named) THEN q - HeldBy(named) ELSE 0
       /\ Cardinality(topUp) = IF unheld > 0 THEN 1 ELSE 0
       /\ hold' = [h \in Holds |->
                     IF h \in named THEN [hold[h] EXCEPT !.order = o]
                     ELSE IF h \in topUp THEN FreshHold(o, unheld, t)
                     ELSE hold[h]]
  /\ order' = [order EXCEPT ![o] = [status |-> "PENDING", qty |-> q, promo |-> promo]]
  /\ redemptions' = IF promo THEN redemptions + 1 ELSE redemptions
  /\ payment' = IF free THEN payment ELSE [payment EXCEPT ![o].status = "INITIATED"]
  /\ request' = [request EXCEPT ![o] = "BEGUN"]
  /\ UNCHANGED <<now, tickets, sold, ledger, tasks, event, intent, sent, candidates, decision>>

----------------------------------------------------------------------------
(* Phase 2: the provider, called with no transaction open                  *)

CreateIntent(o) ==
  /\ request[o] = "BEGUN" /\ HasPayment(o) /\ intent[o] = "NONE"
  /\ intent' = [intent EXCEPT ![o] = "OPEN"]
  /\ UNCHANGED <<now, rows, request, sent, candidates, decision>>

(* The provider decides an intent, whether or not anybody still waits, and *)
(* sends what its webhooks say of it.                                      *)
ProviderDecides(o, outcome, news) ==
  /\ intent[o] = "OPEN"
  /\ intent' = [intent EXCEPT ![o] = outcome]
  /\ sent' = [sent EXCEPT ![o] = @ \cup ({news} \cap EventTypes)]
  /\ UNCHANGED <<now, rows, request, candidates, decision>>

(* The provider's news of an intent that is still open: processing, or a   *)
(* first card refused.                                                     *)
ProviderReports(o, news) ==
  /\ intent[o] = "OPEN"
  /\ news \in EventTypes \ sent[o]
  /\ sent' = [sent EXCEPT ![o] = @ \cup {news}]
  /\ UNCHANGED <<now, rows, request, intent, candidates, decision>>

CaptureAnswered(o, answer) ==
  /\ request[o] = "BEGUN"
  /\ CASE answer = "CAPTURED" -> intent[o] = "SUCCEEDED" \/ ~HasPayment(o)
       [] answer = "DECLINED" -> intent[o] = "FAILED"
       [] answer = "TIMED_OUT" -> HasPayment(o) /\ (intent[o] # "NONE" \/ FALSE \in RefKnown)
  /\ request' = [request EXCEPT ![o] = answer]
  /\ UNCHANGED <<now, rows, intent, sent, candidates, decision>>

(* The process dies, or the call throws something that is no outcome of a  *)
(* payment: nothing more is written by this request.                       *)
RequestLost(o) ==
  /\ request[o] \in Running
  /\ request' = [request EXCEPT ![o] = "LOST"]
  /\ UNCHANGED <<now, rows, intent, sent, candidates, decision>>

----------------------------------------------------------------------------
(* Phase 3, and the commands reconciliation shares with it                 *)

SettleCheckout_Mutant(o) ==
  /\ order' = [order EXCEPT ![o].status = "PAID"]
  /\ tickets' = [tickets EXCEPT ![o] = @ + order[o].qty]
  /\ sold' = sold + order[o].qty
  /\ UNCHANGED <<hold, payment, ledger>>

(* settleCheckout: once, from PENDING.  The seats' half is module Seating. *)
SettleCheckout(o) ==
  IF order[o].status # "PENDING"
    THEN UNCHANGED <<hold, order, payment, tickets, sold, ledger>>
    ELSE
      /\ order' = [order EXCEPT ![o].status = "PAID"]
      /\ tickets' = [tickets EXCEPT ![o] = @ + order[o].qty]
      /\ sold' = sold + order[o].qty
      /\ hold' = [h \in Holds |->
                    IF Active(h) /\ hold[h].order = o
                      THEN [hold[h] EXCEPT !.status = "CONVERTED"] ELSE hold[h]]
      /\ IF HasPayment(o)
           THEN /\ payment' = [payment EXCEPT ![o] = [status |-> "SUCCEEDED", ref |-> TRUE]]
                /\ ledger' = [ledger EXCEPT ![o] = @ \cup {"ORDER_PAID"}]
           ELSE UNCHANGED <<payment, ledger>>

(* A promo code's use goes back, never below zero. *)
PromoReturned(S) ==
  LET back == Cardinality({o \in S : order[o].promo})
  IN  IF redemptions > back THEN redemptions - back ELSE 0

CancelOrders(S) ==
  /\ order' = [o \in Orders |->
                 IF o \in S THEN [order[o] EXCEPT !.status = "CANCELLED"] ELSE order[o]]
  /\ redemptions' = PromoReturned(S)

CompensateCheckout_Mutant(o) ==
  /\ CancelOrders({o})
  /\ payment' = [payment EXCEPT ![o].status = "FAILED"]

(* compensateCheckout: the holds stay ACTIVE for another card. *)
CompensateCheckout(o) ==
  IF order[o].status # "PENDING"
    THEN UNCHANGED <<order, payment, redemptions>>
    ELSE /\ CancelOrders({o})
         /\ payment' = [payment EXCEPT ![o].status = "FAILED"]

OpenTask_Mutant(o, kind) == UNCHANGED tasks

OpenTask(o, kind) == tasks' = [tasks EXCEPT ![o] = @ \cup {kind}]

Settle(o) ==
  /\ request[o] = "CAPTURED"
  /\ TiersFree
  /\ SettleCheckout(o)
  /\ request' = [request EXCEPT ![o] = "201"]
  /\ UNCHANGED <<now, redemptions, tasks, event, intent, sent, candidates, decision>>

(* The settlement's transaction rolls back: a fault of the database. *)
SettleRefused(o) ==
  /\ request[o] = "CAPTURED"
  /\ request' = [request EXCEPT ![o] = "REFUSED"]
  /\ UNCHANGED <<now, rows, intent, sent, candidates, decision>>

Compensate(o) ==
  /\ request[o] = "DECLINED"
  /\ TiersFree
  /\ CompensateCheckout(o)
  /\ request' = [request EXCEPT ![o] = "PAYMENT_DECLINED"]
  /\ UNCHANGED <<now, hold, tickets, sold, ledger, tasks, event, intent, sent, candidates, decision>>

(* recordCaptureTimeout: the payment is written whatever its status is, and *)
(* with no reference if the error names none: the one to fall back on is   *)
(* the row's as phase 1 created it.                                        *)
RecordTimeout(o, known) ==
  /\ request[o] = "TIMED_OUT"
  /\ known => intent[o] # "NONE"
  /\ payment' = [payment EXCEPT ![o] = [status |-> "TIMEOUT", ref |-> known]]
  /\ OpenTask(o, "PAYMENT_TIMEOUT")
  /\ request' = [request EXCEPT ![o] = IF order[o].status = "PENDING" THEN "PAYMENT_TIMEOUT"
                                                                    ELSE "OVERTAKEN"]
  /\ UNCHANGED <<now, hold, order, tickets, sold, redemptions, ledger, event, intent, sent,
                 candidates, decision>>

(* recordUnsettledCapture: a charge nobody could complete becomes a task;   *)
(* an order that moved no money is cancelled.                              *)
RecordUnsettled(o) ==
  /\ request[o] = "REFUSED"
  /\ request' = [request EXCEPT ![o] = IF HasPayment(o) THEN "ORDER_NOT_COMPLETED"
                                                       ELSE "ORDER_CANCELLED"]
  /\ \/ /\ order[o].status = "PENDING" /\ ~HasPayment(o)
        /\ TiersFree
        /\ CancelOrders({o})
        /\ UNCHANGED <<payment, tasks>>
     \/ /\ order[o].status = "PENDING" /\ payment[o].status = "INITIATED"
        /\ payment' = [payment EXCEPT ![o].ref = TRUE]
        /\ OpenTask(o, "PROVIDER_MISMATCH")
        /\ UNCHANGED <<order, redemptions>>
     \/ /\ ~(order[o].status = "PENDING" /\ payment[o].status \in {"NONE", "INITIATED"})
        /\ UNCHANGED <<order, payment, redemptions, tasks>>
  /\ UNCHANGED <<now, hold, tickets, sold, ledger, event, intent, sent, candidates, decision>>

----------------------------------------------------------------------------
(* Webhooks: anything the provider sent, in any order, any number of times *)

Settled(o) == payment[o].status = "SUCCEEDED"

ApplyPaymentSucceeded_Mutant(o) ==
  /\ ~Settled(o)
  /\ payment' = [payment EXCEPT ![o].status = "SUCCEEDED"]
  /\ order' = IF order[o].status = "PENDING" THEN [order EXCEPT ![o].status = "PAID"] ELSE order
  /\ UNCHANGED <<ledger, tasks>>

(* applyPaymentSucceeded: the payment once, the order only from PENDING;   *)
(* money for a closed order is booked as owed back, and becomes a task.    *)
ApplyPaymentSucceeded(o) ==
  /\ ~Settled(o)
  /\ payment' = [payment EXCEPT ![o].status = "SUCCEEDED"]
  /\ IF order[o].status = "PENDING"
       THEN /\ order' = [order EXCEPT ![o].status = "PAID"]
            /\ UNCHANGED <<ledger, tasks>>
       ELSE /\ OpenTask(o, "PROVIDER_MISMATCH")
            /\ ledger' = [ledger EXCEPT ![o] = @ \cup {"LATE_CAPTURE"}]
            /\ UNCHANGED order

ApplyPaymentFailed_Mutant(o) ==
  /\ payment' = [payment EXCEPT ![o].status = "FAILED"]
  /\ UNCHANGED <<order, ledger, tasks>>

(* applyPaymentFailed, the cancellation beside it, and applyPaymentPending. *)
ApplyPaymentFailed(o) ==
  /\ ~Settled(o)
  /\ payment' = [payment EXCEPT ![o].status = "FAILED"]
  /\ UNCHANGED <<order, ledger, tasks>>

ApplyPaymentCancelled(o) ==
  /\ ~Settled(o)
  /\ payment' = [payment EXCEPT ![o].status = "CANCELLED"]
  /\ UNCHANGED <<order, ledger, tasks>>

ApplyPaymentPending(o) ==
  /\ payment[o].status \notin {"SUCCEEDED", "FAILED"}
  /\ payment' = [payment EXCEPT ![o].status = "PENDING"]
  /\ UNCHANGED <<order, ledger, tasks>>

(* dispatchDelivery finds the payment by the provider's reference; one it  *)
(* cannot find becomes a task that names no payment, and one whose amount, *)
(* currency or account is not the event's a task that changes nothing.     *)
Webhook(o, type) ==
  /\ type \in sent[o]
  /\ IF ~payment[o].ref
       THEN OpenTask(o, "UNMATCHED") /\ UNCHANGED <<order, payment, ledger>>
       ELSE \/ OpenTask(o, "PROVIDER_MISMATCH") /\ UNCHANGED <<order, payment, ledger>>
            \/ type = "succeeded"  /\ ApplyPaymentSucceeded(o)
            \/ type = "failed"     /\ ApplyPaymentFailed(o)
            \/ type = "canceled"   /\ ApplyPaymentCancelled(o)
            \/ type = "processing" /\ ApplyPaymentPending(o)
  /\ UNCHANGED <<now, hold, tickets, sold, redemptions, event, request, intent, sent,
                 candidates, decision>>

(* payments.webhook: the provider's callback with the outcome of a charge   *)
(* settles or compensates its order, through the request's own commands.   *)
(* A repeated one changes nothing, as its order has ended.                 *)
Callback(o) ==
  /\ intent[o] \in {"SUCCEEDED", "FAILED"}
  /\ TiersFree
  /\ order[o].status = "PENDING"
  /\ \/ intent[o] = "SUCCEEDED" /\ SettleCheckout(o) /\ UNCHANGED redemptions
     \/ /\ intent[o] = "FAILED" /\ CompensateCheckout(o)
        /\ UNCHANGED <<hold, tickets, sold, ledger>>
  /\ UNCHANGED <<now, tasks, event, request, intent, sent, candidates, decision>>

----------------------------------------------------------------------------
(* Reconciliation                                                          *)

CompareEvidence_Mutant(o) ==
  IF order[o].status # "PENDING" THEN {"ALREADY_DONE"}
  ELSE IF intent[o] = "SUCCEEDED" THEN {"SETTLE"} ELSE {"RELEASE"}

(* compareEvidence, for a task about a charge.  An open intent says        *)
(* nothing, and nothing can be concluded from it.                          *)
CompareEvidence(o) ==
  IF order[o].status # "PENDING" THEN {"ALREADY_DONE"}
  ELSE CASE intent[o] = "SUCCEEDED" -> {"SETTLE"}
         [] intent[o] = "FAILED"    -> {"RELEASE"}
         [] OTHER                   -> {}

(* reconciliation.resolve reads the task and the rows, and asks the        *)
(* provider, with no transaction open ...                                  *)
Requery(op, o, kind) ==
  /\ decision[op] = NoDecision
  /\ kind \in tasks[o] \ {"UNMATCHED"}
  /\ payment[o].ref
  /\ \E v \in CompareEvidence(o) :
       decision' = [decision EXCEPT ![op] = [order |-> o, kind |-> kind, verdict |-> v]]
  /\ UNCHANGED <<now, rows, request, intent, sent, candidates>>

(* ... and applies the verdict later.  The task closes only if nobody      *)
(* moved it meanwhile; the verdict stands either way.                      *)
Resolve(op) ==
  /\ decision[op] # NoDecision
  /\ decision[op].verdict # "ALREADY_DONE" => TiersFree
  /\ LET d == decision[op]
     IN  /\ CASE d.verdict = "SETTLE" -> SettleCheckout(d.order) /\ UNCHANGED redemptions
              [] d.verdict = "RELEASE" ->
                   CompensateCheckout(d.order) /\ UNCHANGED <<hold, tickets, sold, ledger>>
              [] d.verdict = "ALREADY_DONE" ->
                   UNCHANGED <<hold, order, payment, tickets, sold, redemptions, ledger>>
         /\ \/ tasks' = [tasks EXCEPT ![d.order] = @ \ {d.kind}]
            \/ UNCHANGED tasks
  /\ decision' = [decision EXCEPT ![op] = NoDecision]
  /\ UNCHANGED <<now, event, request, intent, sent, candidates>>

----------------------------------------------------------------------------
(* The ticket job and the deletion of the event                            *)

IssueTickets_Mutant(o) ==
  /\ order[o].status = "PAID"
  /\ tickets[o] < 2 * order[o].qty
  /\ tickets' = [tickets EXCEPT ![o] = @ + order[o].qty]
  /\ UNCHANGED <<now, hold, order, payment, sold, redemptions, ledger, tasks, event,
                 request, intent, sent, candidates, decision>>

(* issue-tickets mints what a PAID order lacks, under the order's lock. *)
IssueTickets(o) ==
  /\ order[o].status = "PAID"
  /\ tickets[o] < order[o].qty
  /\ tickets' = [tickets EXCEPT ![o] = order[o].qty]
  /\ UNCHANGED <<now, hold, order, payment, sold, redemptions, ledger, tasks, event,
                 request, intent, sent, candidates, decision>>

(* deleteEvent, as far as orders and holds go.  Under the tiers' locks it   *)
(* refuses while a payment may still move and decides by what was sold ... *)
Dead(o) == payment[o].status \notin IN_FLIGHT_PAYMENT_STATES

Unpaid == {o \in Orders : order[o].status = "PENDING" /\ Dead(o)}

SoldOrders == {o \in Orders : order[o].status = "PAID" /\ HasPayment(o)}

DecideDeletion ==
  /\ event = "LIVE"
  /\ \A o \in Orders : order[o].status = "PENDING" => Dead(o)
  /\ event' = IF SoldOrders = {} THEN "REMOVING" ELSE "REFUNDING"
  /\ UNCHANGED <<now, hold, order, payment, tickets, sold, redemptions, ledger, tasks,
                 request, intent, sent, candidates, decision>>

(* ... then cancels, one conditional update each, the orders still unpaid,  *)
(* and releases every hold of the tier.                                    *)
DeleteEvent ==
  /\ ~TiersFree
  /\ event' = IF event = "REMOVING" THEN "REMOVED" ELSE "REFUNDED"
  /\ CancelOrders(Unpaid)
  /\ hold' = [h \in Holds |->
                IF Active(h) THEN [hold[h] EXCEPT !.status = "RELEASED"] ELSE hold[h]]
  /\ UNCHANGED <<now, payment, tickets, sold, ledger, tasks, request, intent, sent,
                 candidates, decision>>

(* Time passes, whatever anybody is waiting for. *)
Tick ==
  /\ now < MaxTime
  /\ now' = now + 1
  /\ UNCHANGED <<rows, request, intent, sent, candidates, decision>>

----------------------------------------------------------------------------

Init ==
  /\ now = 0
  /\ hold = [h \in Holds |-> [status |-> "NONE", order |-> NoOrder, qty |-> 1, expiresAt |-> 0]]
  /\ order = [o \in Orders |-> [status |-> "NONE", qty |-> 1, promo |-> FALSE]]
  /\ payment = [o \in Orders |-> [status |-> "NONE", ref |-> FALSE]]
  /\ tickets = [o \in Orders |-> 0]
  /\ sold = 0
  /\ redemptions = 0
  /\ ledger = [o \in Orders |-> {}]
  /\ tasks = [o \in Orders |-> {}]
  /\ request = [o \in Orders |-> "IDLE"]
  /\ intent = [o \in Orders |-> "NONE"]
  /\ sent = [o \in Orders |-> {}]
  /\ candidates = {}
  /\ decision = [op \in Operators |-> NoDecision]
  /\ event = "LIVE"

Buyer ==
  \E t \in RequestInstants :
    \/ \E h \in Holds : (\E q \in Quantities : CreateHold(h, q, t)) \/ ReleaseHold(h, t)
    \/ \E o \in Orders, named \in SUBSET Holds, q \in Quantities, promo, free \in BOOLEAN :
         Begin(o, named, q, promo, free, t)

Request(o) ==
  \/ CreateIntent(o)
  \/ \E answer \in {"CAPTURED", "DECLINED", "TIMED_OUT"} : CaptureAnswered(o, answer)
  \/ Settle(o) \/ SettleRefused(o) \/ Compensate(o)
  \/ \E known \in RefKnown : RecordTimeout(o, known)
  \/ RecordUnsettled(o)

Provider(o) ==
  \/ ProviderDecides(o, "SUCCEEDED", "succeeded")
  \/ \E news \in {"failed", "canceled"} : ProviderDecides(o, "FAILED", news)
  \/ \E news \in {"failed", "processing"} : ProviderReports(o, news)

Operator(op) == (\E o \in Orders, kind \in TaskKinds : Requery(op, o, kind)) \/ Resolve(op)

Worker == SweepRead \/ SweepWrite \/ \E o \in Orders : IssueTickets(o)

Next ==
  \/ Buyer
  \/ \E o \in Orders : Request(o) \/ RequestLost(o) \/ Provider(o)
  \/ \E o \in Orders : Callback(o) \/ \E type \in EventTypes : Webhook(o, type)
  \/ \E op \in Operators : Operator(op)
  \/ Worker \/ DecideDeletion \/ DeleteEvent \/ Tick

Spec == Init /\ [][Next]_vars

----------------------------------------------------------------------------
(* Fairness: a request that is not lost goes on, the provider decides what  *)
(* it was asked, a transaction that holds the tiers ends, the sweep runs   *)
(* every minute, and somebody gets to every task of the queue (it is       *)
(* worked oldest first), whatever else comes up.                           *)

Fairness ==
  /\ \A o \in Orders :
       /\ WF_vars(Request(o))
       /\ WF_vars(\E outcome \in {"SUCCEEDED", "FAILED"}, news \in WebhookTypes :
                    ProviderDecides(o, outcome, news))
       /\ SF_vars(\E op \in Operators, kind \in TaskKinds : Requery(op, o, kind))
  /\ \A op \in Operators : WF_vars(Resolve(op))
  /\ WF_vars(SweepRead) /\ WF_vars(SweepWrite)
  /\ WF_vars(DeleteEvent)

FairSpec == Spec /\ Fairness

----------------------------------------------------------------------------
(* Properties                                                              *)

TypeOK ==
  /\ now \in Instants
  /\ hold \in [Holds -> HoldRow]
  /\ order \in [Orders -> OrderRow]
  /\ payment \in [Orders -> PaymentRow]
  /\ tickets \in [Orders -> Nat]
  /\ sold \in Nat
  /\ redemptions \in Nat
  /\ ledger \in [Orders -> SUBSET Batches]
  /\ tasks \in [Orders -> SUBSET TaskKinds]
  /\ request \in [Orders -> {"IDLE", "LOST"} \cup Running \cup Answers]
  /\ intent \in [Orders -> {"NONE", "OPEN", "SUCCEEDED", "FAILED"}]
  /\ sent \in [Orders -> SUBSET EventTypes]
  /\ candidates \in SUBSET Holds
  /\ decision \in [Operators -> Decision \cup {NoDecision}]
  /\ event \in EventStates

(* Never more tickets counted sold than the tier has, although nothing     *)
(* checks the count when an order settles: the reservation made in phase 1 *)
(* (inventory.js) has to have kept them off sale all along, "as it must    *)
(* while a capture is in doubt" (orders.js).                               *)
NoOversell == sold <= Capacity

(* Until its payment is settled or refused, an order holds all it is for:  *)
(* no sweep, release, other checkout or retry takes any of it away.  The   *)
(* deletion of the event does, from an order whose charge was reported     *)
(* cancelled when it decided and then "processing" again before it wrote.  *)
PendingHoldsItsTickets ==
  \A o \in Orders : order[o].status = "PENDING" =>
    \/ HeldBy({h \in Holds : Active(h) /\ hold[h].order = o}) >= order[o].qty
    \/ {"canceled", "processing"} \subseteq sent[o] /\ event \in {"REMOVED", "REFUNDED"}

(* An order settled in full: PAID, and in the books if money moved. *)
Fulfilled(o) ==
  /\ order[o].status = "PAID"
  /\ HasPayment(o) => "ORDER_PAID" \in ledger[o]

(* One fulfilment, whoever gets there: the request, operators resolving    *)
(* one task, a retried ticket job.  Tickets belong to PAID orders only.    *)
OneFulfilment ==
  \A o \in Orders :
    /\ tickets[o] <= order[o].qty
    /\ tickets[o] > 0 => order[o].status = "PAID"
    /\ Fulfilled(o) => tickets[o] = order[o].qty

(* The sold count is exactly what the settled orders bought. *)
SoldIsWhatWasSettled ==
  sold = SumOf([o \in Orders |-> order[o].qty], {o \in Orders : Fulfilled(o)})

(* A promo code's count is the orders that use it and have not ended: each *)
(* use is given back once, whichever of the four paths ends the order.     *)
PromoUsesExact ==
  /\ redemptions = Cardinality({o \in Orders :
                     order[o].promo /\ order[o].status \in {"PENDING", "PAID"}})
  /\ redemptions <= PromoLimit

(* The request's time-out was recorded over a payment whose order others   *)
(* had closed.                                                             *)
Overtaken(o) == request[o] = "OVERTAKEN"

ClosedIsKept ==
  \A o \in Orders :
    /\ order[o].status \in {"PAID", "CANCELLED"} => order'[o] = order[o]
    /\ Settled(o) => payment'[o] = payment[o] \/ (~Overtaken(o) /\ Overtaken(o)')

(* No late, repeated or reordered news reopens or reverses a closed order, *)
(* and a settled payment is taken back by nothing but the order's own      *)
(* request recording that it timed out (checkout.js writes it whatever the *)
(* payment's status; payments.js has the second to arrive "do nothing").   *)
ClosedStaysClosed == [][ClosedIsKept]_vars

(* Money in the books once, under the batch that fits: a sale's for an     *)
(* order that is PAID, money owed back for one that was closed before the  *)
(* webhook came.  A settled payment never leaves its order waiting.  Only  *)
(* where a time-out was written over a payment already settled can the     *)
(* books hold both batches, or a sale's for a payment that is not settled. *)
BooksMatchOrders ==
  \A o \in Orders :
    /\ "ORDER_PAID" \in ledger[o] => order[o].status = "PAID" /\ (Settled(o) \/ Overtaken(o))
    /\ "LATE_CAPTURE" \in ledger[o] =>
         Settled(o) /\ (order[o].status = "CANCELLED" \/ Overtaken(o))
    /\ Settled(o) => order[o].status = "PAID" \/ "LATE_CAPTURE" \in ledger[o]

(* A charge that may have succeeded is never released: an order ends       *)
(* unpaid only when the provider took nothing for it, except that the      *)
(* deletion of the event goes by what it was told of a card refused first. *)
NeverCancelCharged ==
  [][\A o \in Orders : order[o].status = "PENDING" /\ order'[o].status = "CANCELLED" =>
       intent[o] # "SUCCEEDED" \/ ("failed" \in sent[o] /\ ~TiersFree)]_vars

(* An order does not wait for its payment for ever, unless its request was *)
(* lost.                                                                   *)
EveryOrderEnds ==
  \A o \in Orders : order[o].status = "PENDING" ~>
                      (order[o].status # "PENDING" \/ request[o] = "LOST")

(* Stock reserved by a lapsed hold goes back, unless an order awaits its   *)
(* payment with it.                                                        *)
LapsedHoldsGoBack ==
  \A h \in Holds : (Active(h) /\ IsHoldExpired(h, now)) ~> (~Active(h) \/ AwaitingPayment(h))

=============================================================================
