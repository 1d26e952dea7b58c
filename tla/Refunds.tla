------------------------------- MODULE Refunds -------------------------------
(***************************************************************************)
(* Giving money back on one paid order: the request that reserves it, the  *)
(* approval, the call of the provider between two transactions, the answer *)
(* or the timeout, and the operator who establishes afterwards, from the   *)
(* provider's one total for the payment, what became of a refund nobody    *)
(* answered for.                                                           *)
(*                                                                         *)
(* An action is one transaction or one step of the provider.  Each         *)
(* transaction takes the refund's row lock or the order's, or both in this *)
(* order, before it decides, and moves a status by a conditional update.   *)
(* What is read in one step and used in another is kept between them: the  *)
(* answer of a call, and what an operator loaded before asking the         *)
(* provider.                                                               *)
(*                                                                         *)
(* The order has one line of Quantity tickets at Price each and neither    *)
(* fee nor tax nor discount, so what the code counts per line and per part *)
(* of the money is what it counts for the order.                           *)
(***************************************************************************)
EXTENDS Integers, FiniteSets, Counting

CONSTANTS
  Refunds,   \* rows of Refund that may be written for the order
  Legacy,    \* those that an older version may have written, unreserved
  Operators, \* people working the reconciliation queue
  Quantity,  \* OrderItem.quantity
  Price,     \* OrderItem.unitPriceCents
  MaxSends   \* bound: how often the order's refunds are sent

ASSUME RefundsAssumption ==
  /\ IsFiniteSet(Refunds) /\ Legacy \subseteq Refunds
  /\ Quantity \in Nat \ {0} /\ Price \in Nat \ {0} /\ MaxSends \in Nat \ {0}

NoRefund == "no refund"
NoDecision == [refund |-> NoRefund, send |-> 0, state |-> "NONE", status |-> "NONE",
               settled |-> 0, flying |-> {}, verdict |-> "NONE"]

NoOperator == "no operator"

ASSUME SentinelAssumption == NoRefund \notin Refunds /\ NoOperator \notin Operators

VARIABLES
  order,     \* the Order row and its line
  tickets,   \* how many of the line's tickets stand, were withdrawn; is the event deleted?
  refund,    \* Refund rows, each with its line item
  call,      \* each call of the provider about a refund: is it out, and has it paid?
  task,      \* ReconciliationTask rows, named by the refund and the call that opened them
  decision,  \* what each operator loaded, and the verdict reached from it
  disturbed  \* was anything sent, claimed or resolved behind an operator's back?

vars == <<order, tickets, refund, call, task, decision, disturbed>>

----------------------------------------------------------------------------
(* The rows                                                                *)

RefundStatuses == {"NONE", "REQUESTED", "APPROVED", "SUBMITTED", "SUCCEEDED",
                   "DECLINED", "FAILED", "TIMEOUT", "CANCELLED"}
PENDING_STATES == {"REQUESTED", "APPROVED", "SUBMITTED", "TIMEOUT"}
IN_FLIGHT_STATES == {"SUBMITTED", "TIMEOUT"}
TaskStates == {"NONE", "OPEN", "IN_PROGRESS", "ESCALATED", "RESOLVED"}
ACTIVE_STATES == {"OPEN", "IN_PROGRESS", "ESCALATED"}
Outcomes == {"SUCCEEDED", "DECLINED", "FAILED", "TIMEOUT"}

Total == Quantity * Price
Sends == 1 .. MaxSends

NoRow == [status |-> "NONE", owed |-> FALSE, reserved |-> FALSE,
          amount |-> 0, quantity |-> 0, attempts |-> 0]

(* A cancellation's refund as createMany wrote it: for the whole total,    *)
(* with no reservation, no line and no allocation.                         *)
LegacyRow(status) == [status |-> status, owed |-> TRUE, reserved |-> FALSE,
                      amount |-> Total, quantity |-> 0, attempts |-> 0]

Status(r) == refund[r].status
IsUnreservedLegacyRefund(r) ==
  Status(r) \in {"REQUESTED", "APPROVED"} /\ refund[r].owed /\ ~refund[r].reserved

Lesser(a, b) == IF a < b THEN a ELSE b
Positive(n) == IF n > 0 THEN n ELSE 0

(* What refunds of S in the given states hold or gave, by field. *)
AmountsOf(S) == SumOf([r \in Refunds |-> refund[r].amount], S)
QuantitiesOf(S) == SumOf([r \in Refunds |-> refund[r].quantity], S)
PendingOf(S) == {r \in S : Status(r) \in PENDING_STATES}
Succeeded == {r \in Refunds : Status(r) = "SUCCEEDED"}

(* What the order still has to give, by its own counters. *)
RefundableCents == Positive(Total - order.refundedCents - order.refundPendingCents)

(* What its line has: tickets that no refund of S holds or took. *)
LineQuantityLeft(S) == Positive(Quantity - order.refundedQuantity - QuantitiesOf(PendingOf(S)))

----------------------------------------------------------------------------
(* Asking                                                                  *)

(* A whole refund takes every ticket left, an amount the tickets it pays   *)
(* for in full.                                                            *)
OnWhole(row, amount, S) == [row EXCEPT !.amount = amount, !.quantity = LineQuantityLeft(S)]

OnAmount(row, amount, S) ==
  [row EXCEPT !.amount = amount,
              !.quantity = Lesser(LineQuantityLeft(S), amount \div Price)]

(* The rows a request may write: everything left, or an amount; named      *)
(* tickets are the amount they cost.                                       *)
Asked(status, owed) ==
  LET row == [NoRow EXCEPT !.status = status, !.owed = owed, !.reserved = TRUE]
      whole == OnWhole(row, RefundableCents, Refunds)
  IN  IF owed THEN {whole}
      ELSE {whole} \cup {OnAmount(row, a, Refunds) : a \in 1 .. RefundableCents - 1}

(* Take the row's amount from what is left, under the order's lock. *)
Reserve(row) ==
  /\ row.amount \in 1 .. RefundableCents
  /\ order' = [order EXCEPT !.refundPendingCents = @ + row.amount]

RequestRefund(r) ==
  /\ Status(r) = "NONE"
  /\ \E row \in Asked("REQUESTED", FALSE) :
       /\ Reserve(row)
       /\ refund' = [refund EXCEPT ![r] = row]
  /\ UNCHANGED <<tickets, call, task, decision, disturbed>>

(* The deletion of the event withdraws the tickets that stand, and asks    *)
(* for everything the order has left, if it has anything.                  *)
DeleteEvent(r) ==
  /\ ~tickets.deleted
  /\ IF order.status = "PAID" /\ RefundableCents > 0
     THEN /\ Status(r) = "NONE"
          /\ \E row \in Asked("REQUESTED", TRUE) :
               /\ Reserve(row)
               /\ refund' = [refund EXCEPT ![r] = row]
     ELSE UNCHANGED <<order, refund>>
  /\ tickets' = [tickets EXCEPT !.standing = 0, !.withdrawn = tickets.standing,
                                !.deleted = TRUE]
  /\ UNCHANGED <<call, task, decision, disturbed>>

(* A refund that was declined or failed let its reservation go, and takes  *)
(* it again only if the line and the order still have it.                  *)
CanReserveAgain_Mutant(r) == refund[r].quantity <= LineQuantityLeft(Refunds \ {r})

CanReserveAgain(r) ==
  /\ refund[r].quantity <= LineQuantityLeft(Refunds \ {r})
  /\ refund[r].amount <= RefundableCents

ApproveRefund(r) ==
  /\ refund[r].reserved
  /\ \/ Status(r) = "REQUESTED" /\ UNCHANGED order
     \/ /\ Status(r) \in {"DECLINED", "FAILED"}
        /\ CanReserveAgain(r)
        /\ order' = [order EXCEPT !.refundPendingCents = @ + refund[r].amount]
  /\ refund' = [refund EXCEPT ![r].status = "APPROVED"]
  /\ UNCHANGED <<tickets, call, task, decision, disturbed>>

CancelRefund_Mutant(r) ==
  /\ Status(r) \in {"REQUESTED", "APPROVED", "DECLINED", "FAILED"}
  /\ refund' = [refund EXCEPT ![r].status = "CANCELLED"]
  /\ order' = IF Status(r) \in PENDING_STATES
              THEN [order EXCEPT !.refundPendingCents = @ - refund[r].amount]
              ELSE order
  /\ UNCHANGED <<tickets, call, task, decision, disturbed>>

CancelRefund(r) ==
  /\ Status(r) \in {"REQUESTED", "APPROVED", "DECLINED", "FAILED"}
  /\ refund' = [refund EXCEPT ![r].status = "CANCELLED"]
  /\ order' = IF Status(r) \in PENDING_STATES /\ ~IsUnreservedLegacyRefund(r)
              THEN [order EXCEPT !.refundPendingCents = @ - refund[r].amount]
              ELSE order
  /\ UNCHANGED <<tickets, call, task, decision, disturbed>>

(* A legacy row is repaired when anything first touches it: reserved if    *)
(* the order has its amount, withdrawn if it has nothing, else replaced by *)
(* a refund n of what is left, which a submission approves at once.        *)
RepairReserved(r) ==
  /\ IsUnreservedLegacyRefund(r)
  /\ RefundableCents >= refund[r].amount
  /\ LET row == [refund[r] EXCEPT !.reserved = TRUE]
         others == Refunds \ {r}
         written == IF RefundableCents = row.amount THEN OnWhole(row, row.amount, others)
                                                    ELSE OnAmount(row, row.amount, others)
     IN  /\ Reserve(written)
         /\ refund' = [refund EXCEPT ![r] = written]
  /\ UNCHANGED <<tickets, call, task, decision, disturbed>>

Replaced(r, n, status) ==
  IF RefundableCents = 0
  THEN /\ refund' = [refund EXCEPT ![r].status = "CANCELLED"]
       /\ UNCHANGED order
  ELSE /\ n # r /\ Status(n) = "NONE"
       /\ \E row \in Asked(status, TRUE) :
            /\ Reserve(row)
            /\ refund' = [refund EXCEPT ![r].status = "CANCELLED", ![n] = row]

RepairReplaced(r, n, status) ==
  /\ IsUnreservedLegacyRefund(r)
  /\ RefundableCents < refund[r].amount
  /\ status = "APPROVED" => Status(r) = "APPROVED"
  /\ Replaced(r, n, status)
  /\ UNCHANGED <<tickets, call, task, decision, disturbed>>

(* The driver of an event's refunds: one that failed and whose balance is  *)
(* gone is withdrawn, and what is left is asked for anew and approved.     *)
ApproveOwed(r, n) ==
  /\ Status(r) \in {"DECLINED", "FAILED"} /\ refund[r].owed
  /\ ~CanReserveAgain(r)
  /\ Replaced(r, n, "APPROVED")
  /\ UNCHANGED <<tickets, call, task, decision, disturbed>>


----------------------------------------------------------------------------
(* Sending, and what the provider says                                     *)

Deciding == {op \in Operators : decision[op] # NoDecision}
Disturb(op) == disturbed' = (disturbed \/ Deciding \ {op} # {})

Flying(S) == {r \in S : Status(r) \in IN_FLIGHT_STATES}

SentSoFar == SumOf([r \in Refunds |-> refund[r].attempts], Refunds)

(* What settlement will rely on is checked, and SUBMITTED is written,      *)
(* before the provider is called.                                          *)
SubmitRefund(r) ==
  /\ Status(r) = "APPROVED" /\ refund[r].reserved
  /\ SentSoFar < MaxSends
  /\ order.refundPendingCents >= refund[r].amount
  /\ refund' = [refund EXCEPT ![r].status = "SUBMITTED", ![r].attempts = @ + 1]
  /\ call' = [call EXCEPT ![r][refund[r].attempts + 1].out = TRUE]
  /\ Disturb(NoOperator)
  /\ UNCHANGED <<order, tickets, task, decision>>

Paid == {c \in Refunds \X Sends : call[c[1]][c[2]].paid}
GivenBack == SumOf([c \in Refunds \X Sends |-> refund[c[1]].amount], Paid)

ProviderPays(r, n) ==
  /\ call[r][n].out /\ ~call[r][n].paid
  /\ GivenBack + refund[r].amount <= Total
  /\ call' = [call EXCEPT ![r][n].paid = TRUE]
  /\ UNCHANGED <<order, tickets, refund, task, decision, disturbed>>

(* The process dies before it has written down what it heard: the refund  *)
(* stays SUBMITTED.                                                        *)
CallLost(r, n) ==
  /\ call[r][n].out
  /\ call' = [call EXCEPT ![r][n].out = FALSE]
  /\ UNCHANGED <<order, tickets, refund, task, decision, disturbed>>

----------------------------------------------------------------------------
(* Recording what became of it                                             *)

(* The tickets a settlement withdraws: standing ones, and for a refund the *)
(* cancellation owes also those that were withdrawn with the event.        *)
SettledTickets(r) ==
  Lesser(refund[r].quantity,
         tickets.standing + (IF refund[r].owed THEN tickets.withdrawn ELSE 0))

SettleRefund_Mutant(r) ==
  LET cents == order.refundedCents + refund[r].amount
  IN  /\ refund' = [refund EXCEPT ![r].status = "SUCCEEDED"]
      /\ UNCHANGED tickets
      /\ order' = [order EXCEPT
           !.refundedCents = cents,
           !.refundPendingCents = @ - refund[r].amount,
           !.refundedQuantity = @ + SettledTickets(r),
           !.status = IF cents >= Total THEN "REFUNDED" ELSE @]

SettleRefund(r) ==
  LET stood == Lesser(refund[r].quantity, tickets.standing)
      cents == order.refundedCents + refund[r].amount
  IN  /\ refund' = [refund EXCEPT ![r].status = "SUCCEEDED"]
      /\ tickets' = [tickets EXCEPT !.standing = @ - stood,
                                    !.withdrawn = @ - (SettledTickets(r) - stood)]
      /\ order' = [order EXCEPT
           !.refundedCents = cents,
           !.refundPendingCents = @ - refund[r].amount,
           !.refundedQuantity = @ + SettledTickets(r),
           !.status = IF cents >= Total /\ tickets.standing = stood THEN "REFUNDED" ELSE @]

(* Nothing moved: the reservation is let go, and the tickets stay. *)
RecordRefundFailure_Mutant(r, status) ==
  /\ refund' = [refund EXCEPT ![r].status = status]
  /\ UNCHANGED <<order, tickets>>

RecordRefundFailure(r, status) ==
  /\ refund' = [refund EXCEPT ![r].status = status]
  /\ order' = [order EXCEPT !.refundPendingCents = @ - refund[r].amount]
  /\ UNCHANGED tickets

(* Nobody knows: the reservation stays, and somebody is asked to find out. *)
RecordRefundTimeout_Mutant(r, n) ==
  /\ refund' = [refund EXCEPT ![r].status = "TIMEOUT"]
  /\ task' = [task EXCEPT ![r][n] = "OPEN"]
  /\ order' = [order EXCEPT !.refundPendingCents = @ - refund[r].amount]
  /\ UNCHANGED tickets

RecordRefundTimeout(r, n) ==
  /\ refund' = [refund EXCEPT ![r].status = "TIMEOUT"]
  /\ task' = IF \E m \in Sends : task[r][m] \in ACTIVE_STATES
             THEN task ELSE [task EXCEPT ![r][n] = "OPEN"]
  /\ UNCHANGED <<order, tickets>>

(* The provider answers, truthfully when it says success or refusal, and   *)
(* the third transaction of the submission records it if the refund still  *)
(* is SUBMITTED.                                                           *)
Record(r, n, outcome) ==
  /\ call[r][n].out
  /\ outcome = "SUCCEEDED" => call[r][n].paid
  /\ outcome \in {"DECLINED", "FAILED"} => ~call[r][n].paid
  /\ call' = [call EXCEPT ![r][n].out = FALSE]
  /\ \/ Status(r) # "SUBMITTED" /\ UNCHANGED <<order, tickets, refund, task>>
     \/ /\ Status(r) = "SUBMITTED"
        /\ \/ outcome = "SUCCEEDED" /\ SettleRefund(r) /\ UNCHANGED task
           \/ outcome = "TIMEOUT" /\ RecordRefundTimeout(r, n)
           \/ /\ outcome \in {"DECLINED", "FAILED"}
              /\ RecordRefundFailure(r, outcome) /\ UNCHANGED task
  /\ UNCHANGED <<decision, disturbed>>

(* The door: an admitted ticket is used up, no refund withdraws it. *)
CheckIn ==
  /\ order.status = "PAID" /\ tickets.standing > 0
  /\ tickets' = [tickets EXCEPT !.standing = @ - 1]
  /\ UNCHANGED <<order, refund, call, task, decision, disturbed>>

----------------------------------------------------------------------------
(* Reconciliation                                                          *)

MoveTask(r, n, from, to) ==
  /\ task[r][n] \in from
  /\ task' = [task EXCEPT ![r][n] = to]
  /\ Disturb(NoOperator)
  /\ UNCHANGED <<order, tickets, refund, call, decision>>

ClaimTask(r, n) == MoveTask(r, n, {"OPEN", "ESCALATED"}, "IN_PROGRESS")
EscalateTask(r, n) == MoveTask(r, n, {"OPEN", "IN_PROGRESS"}, "ESCALATED")

(* An operator resolves a task.  What was settled, and what may be with    *)
(* the provider unanswered, is read before the provider is asked.          *)
LoadTask(op, r, n) ==
  /\ decision[op] = NoDecision
  /\ task[r][n] \in ACTIVE_STATES
  /\ decision' = [decision EXCEPT ![op] =
       [refund |-> r, send |-> n, state |-> task[r][n], status |-> Status(r),
        settled |-> AmountsOf(Succeeded \ {r}), flying |-> Flying(Refunds \ {r}),
        verdict |-> "NONE"]]
  /\ UNCHANGED <<order, tickets, refund, call, task, disturbed>>

(* What the provider gave back beyond what settled is, or is not, explained *)
(* by this refund: every subset of the unanswered ones is tried.           *)
CompareRefundEvidence_Mutant(d) ==
  LET beyond == GivenBack - d.settled
  IN  IF beyond >= refund[d.refund].amount THEN "SETTLE"
      ELSE IF GivenBack < Total THEN "RELEASE" ELSE "CONFLICT"

CompareRefundEvidence(d) ==
  LET beyond == GivenBack - d.settled
      all == d.flying \cup {d.refund}
      explaining == {S \in SUBSET all : AmountsOf(S) = beyond}
      withThis == {S \in explaining : d.refund \in S}
      withoutThis == explaining \ withThis
  IN  CASE withThis # {} /\ withoutThis = {} -> "SETTLE"
        [] beyond > AmountsOf(all) -> "SETTLE"
        [] withThis = {} /\ withoutThis # {} /\ GivenBack < Total -> "RELEASE"
        [] OTHER -> "CONFLICT"

(* The provider is asked.  A verdict nobody may act on ends the request.   *)
Requery(op) ==
  LET d == decision[op]
      verdict == IF d.status = "SUCCEEDED" THEN "ALREADY_DONE" ELSE CompareRefundEvidence(d)
  IN  /\ d # NoDecision /\ d.verdict = "NONE"
      /\ decision' = [decision EXCEPT ![op] =
           IF verdict = "CONFLICT" THEN NoDecision ELSE [d EXCEPT !.verdict = verdict]]
      /\ UNCHANGED <<order, tickets, refund, call, task, disturbed>>

(* One transaction: the verdict, if the refund still is what was loaded,   *)
(* and the task, if it still is.  Neither miss undoes the other; a move    *)
(* the refund's table does not have undoes both.                           *)
Resolve(op) ==
  LET d == decision[op]
      r == d.refund
      may == d.verdict = "ALREADY_DONE" \/ d.status \in IN_FLIGHT_STATES
      applies == d.verdict # "ALREADY_DONE" /\ Status(r) = d.status
  IN  /\ d.verdict # "NONE"
      /\ decision' = [decision EXCEPT ![op] = NoDecision]
      /\ CASE ~(may /\ applies) -> UNCHANGED <<order, tickets, refund>>
           [] may /\ applies /\ d.verdict = "SETTLE" -> SettleRefund(r)
           [] OTHER -> RecordRefundFailure(r, "FAILED")
      /\ task' = IF may /\ task[r][d.send] = d.state
                 THEN [task EXCEPT ![r][d.send] = "RESOLVED"] ELSE task
      /\ Disturb(op)
      /\ UNCHANGED call

----------------------------------------------------------------------------

Init ==
  /\ order = [status |-> "PAID", refundedCents |-> 0, refundPendingCents |-> 0,
              refundedQuantity |-> 0]
  /\ tickets = [standing |-> Quantity, withdrawn |-> 0, deleted |-> FALSE]
  /\ refund \in [Refunds -> {NoRow, LegacyRow("REQUESTED"), LegacyRow("APPROVED")}]
  /\ \A r \in Refunds \ Legacy : refund[r] = NoRow
  /\ call = [r \in Refunds |-> [n \in Sends |-> [out |-> FALSE, paid |-> FALSE]]]
  /\ task = [r \in Refunds |-> [n \in Sends |-> "NONE"]]
  /\ decision = [op \in Operators |-> NoDecision]
  /\ disturbed = FALSE

Next ==
  \/ \E r \in Refunds :
       \/ RequestRefund(r)
       \/ DeleteEvent(r)
       \/ ApproveRefund(r)
       \/ CancelRefund(r)
       \/ RepairReserved(r)
       \/ \E n \in Refunds :
            \/ \E status \in {"REQUESTED", "APPROVED"} : RepairReplaced(r, n, status)
            \/ ApproveOwed(r, n)
       \/ SubmitRefund(r)
       \/ \E n \in Sends :
            \/ ProviderPays(r, n)
            \/ CallLost(r, n)
            \/ \E outcome \in Outcomes : Record(r, n, outcome)
            \/ ClaimTask(r, n)
            \/ EscalateTask(r, n)
            \/ \E op \in Operators : LoadTask(op, r, n)
  \/ CheckIn
  \/ \E op \in Operators : Requery(op) \/ Resolve(op)

Spec == Init /\ [][Next]_vars

----------------------------------------------------------------------------
(* Properties                                                              *)

TypeOK ==
  /\ order \in [status : {"PAID", "REFUNDED"}, refundedCents : Nat, refundPendingCents : Nat,
                refundedQuantity : Nat]
  /\ tickets \in [standing : Nat, withdrawn : Nat, deleted : BOOLEAN]
  /\ refund \in [Refunds -> [status : RefundStatuses, owed : BOOLEAN, reserved : BOOLEAN,
                             amount : Nat, quantity : Nat, attempts : Nat]]
  /\ call \in [Refunds -> [Sends -> [out : BOOLEAN, paid : BOOLEAN]]]
  /\ task \in [Refunds -> [Sends -> TaskStates]]
  /\ decision \in [Operators ->
       [refund : Refunds \cup {NoRefund}, send : Sends \cup {0}, state : TaskStates,
        status : RefundStatuses, settled : Nat, flying : SUBSET Refunds,
        verdict : {"NONE", "SETTLE", "RELEASE", "ALREADY_DONE"}]]
  /\ disturbed \in BOOLEAN

Reserved == {r \in Refunds : refund[r].reserved}

(* Whatever order requests, answers, repairs, withdrawals and verdicts     *)
(* come in, the order's two counters are the amounts of its refunds        *)
(* (Order.refundPendingCents and refundedCents).                           *)
CountersMatchRefunds ==
  /\ order.refundPendingCents = AmountsOf(PendingOf(Reserved))
  /\ order.refundedCents = AmountsOf(Succeeded)

(* Together they never pass what was paid (the CHECK over their sum).      *)
NeverPastPaid == order.refundedCents + order.refundPendingCents <= Total

(* A refund is recorded as given back only if the provider paid it, and    *)
(* exactly once, and as refused, failed, withdrawn or still to be sent     *)
(* only if the provider did not, as long as nothing was sent and no task   *)
(* moved while an operator was deciding (settleRefund, recordRefundFailure *)
(* and recordRefundTimeout, and the verdicts of reconciliation).           *)
TruthfulOutcomes ==
  ~disturbed => \A r \in Refunds :
    LET times == Cardinality({n \in Sends : call[r][n].paid})
    IN  /\ times <= 1
        /\ Status(r) = "SUCCEEDED" => times = 1
        /\ Status(r) \notin IN_FLIGHT_STATES \cup {"SUCCEEDED"} => times = 0

(* Money that went back took its tickets with it: no more tickets of the   *)
(* line still admit than were not paid back in full (revokeAndReturn).     *)
RefundedTicketsDoNotAdmit ==
  tickets.standing <= Positive(Quantity - QuantitiesOf(Succeeded))

(* The whole of it, requests, calls, timeouts, repairs and operators       *)
(* included, does no more to the order's money than Payback allows: each   *)
(* refund sets aside, and gives back once or lets go.                      *)
HeldBy(r) ==
  IF refund[r].reserved /\ Status(r) \in PENDING_STATES THEN refund[r].amount ELSE 0
GivenBy(r) == IF Status(r) = "SUCCEEDED" THEN refund[r].amount ELSE 0

Payback == INSTANCE Payback WITH
  held <- [r \in Refunds |-> HeldBy(r)],
  given <- [r \in Refunds |-> GivenBy(r)],
  pending <- order.refundPendingCents,
  refunded <- order.refundedCents

ImplementsPayback == Payback!Spec
=============================================================================
