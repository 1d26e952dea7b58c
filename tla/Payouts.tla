------------------------------- MODULE Payouts -------------------------------
(***************************************************************************)
(* Paying an organiser what the ledger says is owed: the schedule, decided *)
(* from a balance read just before; the claim, in a transaction of its     *)
(* own; the call of the provider with nothing open; what it said, or that  *)
(* it said nothing; and the clawing back of a payout that went.            *)
(*                                                                         *)
(* An action is one transaction, one read that a later transaction relies  *)
(* on, or one step of the provider.  No row is locked: a status moves by   *)
(* an update whose condition is the status that was read.                  *)
(*                                                                         *)
(* One organisation, one currency.  Transfers and disputes are left out:   *)
(* no route and no worker makes either.                                    *)
(***************************************************************************)
EXTENDS Integers, FiniteSets, FiniteSetsExt

CONSTANTS
  Payouts,     \* the idempotency keys of requests, each of one payout
  Operators,   \* requests of people who may manage payouts
  MaxAmount,   \* bound: the largest payout asked for
  MaxCredits,  \* bound: what is ever credited to the organiser
  MaxPromised  \* bound: what is promised back to buyers at a time

ASSUME PayoutsAssumption ==
  /\ IsFiniteSet(Payouts)
  /\ MaxAmount \in Nat \ {0} /\ MaxCredits \in Nat /\ MaxPromised \in Nat

NoPayout == "no payout"

ASSUME SentinelAssumption == NoPayout \notin Payouts

VARIABLES
  payout,   \* Payout rows, by idempotency key
  payable,  \* entries of the account ORGANIZER_PAYABLE: credits and debits
  promised, \* Order.refundPendingCents over the organisation's orders
  batches,  \* what each payout's batches took out of transfer clearing, and put back
  desk,     \* where each request is, and what it read
  asked,    \* how often the provider was asked to make each payout
  gone      \* the payouts it made

vars == <<payout, payable, promised, batches, desk, asked, gone>>

----------------------------------------------------------------------------
(* The rows                                                                *)

States == {"SCHEDULED", "SUBMITTED", "PAID", "FAILED", "HELD",
           "RECONCILIATION_REQUIRED", "REVERSED"}
PAYOUT_IN_FLIGHT == {"SCHEDULED", "SUBMITTED", "HELD", "RECONCILIATION_REQUIRED"}
Outcomes == {"SUCCEEDED", "FAILED", "TIMEOUT"}
Amounts == 1 .. MaxAmount

(* Of PAYOUT_TRANSITIONS, the moves some code asks for. *)
PAYOUT_TRANSITIONS ==
  {<<"SCHEDULED", "SUBMITTED">>, <<"SUBMITTED", "PAID">>, <<"SUBMITTED", "FAILED">>,
   <<"SUBMITTED", "RECONCILIATION_REQUIRED">>, <<"PAID", "REVERSED">>}

NoRow == [status |-> "NONE", amount |-> 0, reversed |-> 0]
Idle == [stage |-> "IDLE", payout |-> NoPayout, row |-> NoRow, outcome |-> "NONE"]

InFlight == {p \in Payouts : payout[p].status \in PAYOUT_IN_FLIGHT}

PayableCents == payable.credits - payable.debits
InFlightCents == MapThenSumSet(LAMBDA p : payout[p].amount, InFlight)

(* What may be paid: what is owed, less what is committed and promised. *)
AvailableBalance == PayableCents - InFlightCents - promised

(* The row as it becomes when nobody moved it since it was read. *)
Transition_Mutant(p, row, to) ==
  /\ <<row.status, to>> \in PAYOUT_TRANSITIONS
  /\ payout' = [payout EXCEPT ![p].status = to]

Transition(p, row, to) ==
  /\ <<row.status, to>> \in PAYOUT_TRANSITIONS
  /\ payout[p].status = row.status
  /\ payout' = [payout EXCEPT ![p].status = to]

Refused(p, row, to) ==
  \/ <<row.status, to>> \notin PAYOUT_TRANSITIONS
  \/ payout[p].status # row.status

Answer(o) == desk' = [desk EXCEPT ![o] = Idle]

----------------------------------------------------------------------------
(* Scheduling                                                              *)

(* A request under a key already used answers with the row that is there.  *)
(* More than is available, or anything when nothing is, will be held.      *)
ReadBalance(o, p, amount) ==
  LET status == IF amount > AvailableBalance THEN "HELD" ELSE "SCHEDULED"
  IN  /\ desk[o].stage = "IDLE"
      /\ payout[p] = NoRow
      /\ desk' = [desk EXCEPT ![o] =
           [Idle EXCEPT !.stage = "SCHEDULING", !.payout = p,
                        !.row = [status |-> status, amount |-> amount, reversed |-> 0]]]
      /\ UNCHANGED <<payout, payable, promised, batches, asked, gone>>

(* A key used meanwhile is refused by its unique index. *)
SchedulePayout(o) ==
  LET d == desk[o]
  IN  /\ d.stage = "SCHEDULING"
      /\ payout' = [payout EXCEPT ![d.payout] = IF @ = NoRow THEN d.row ELSE @]
      /\ Answer(o)
      /\ UNCHANGED <<payable, promised, batches, asked, gone>>

----------------------------------------------------------------------------
(* Sending                                                                 *)

LoadPayout(o, p) ==
  /\ desk[o].stage = "IDLE"
  /\ payout[p] # NoRow
  /\ desk' = [desk EXCEPT ![o] =
       [Idle EXCEPT !.stage = "LOADED", !.payout = p, !.row = payout[p]]]
  /\ UNCHANGED <<payout, payable, promised, batches, asked, gone>>

(* Submitted, and committed, before anything is sent. *)
SubmitPayout(o) ==
  LET d == desk[o]
  IN  /\ d.stage = "LOADED"
      /\ \/ /\ Transition(d.payout, d.row, "SUBMITTED")
            /\ desk' = [desk EXCEPT ![o] =
                 [d EXCEPT !.stage = "CALLING", !.row = [@ EXCEPT !.status = "SUBMITTED"]]]
            /\ asked' = [asked EXCEPT ![d.payout] = @ + 1]
         \/ /\ Refused(d.payout, d.row, "SUBMITTED")
            /\ Answer(o)
            /\ UNCHANGED <<payout, asked>>
      /\ UNCHANGED <<payable, promised, batches, gone>>

(* The provider pays, refuses, or is not heard from in time, having paid   *)
(* or not.  It pays once under one key.                                    *)
ProviderAnswers(o, outcome) ==
  /\ desk[o].stage = "CALLING"
  /\ desk' = [desk EXCEPT ![o].stage = "ANSWERED", ![o].outcome = outcome]
  /\ \/ outcome # "FAILED" /\ gone' = gone \cup {desk[o].payout}
     \/ outcome # "SUCCEEDED" /\ UNCHANGED gone
  /\ UNCHANGED <<payout, payable, promised, batches, asked>>

(* The request ends between its transactions: the process dies, or the     *)
(* provider's adapter makes no payouts and the call throws.                *)
RequestDies(o) ==
  /\ desk[o].stage \in {"CALLING", "ANSWERED"}
  /\ \/ UNCHANGED gone
     \/ desk[o].stage = "CALLING" /\ gone' = gone \cup {desk[o].payout}
  /\ Answer(o)
  /\ UNCHANGED <<payout, payable, promised, batches, asked>>

SettledAs_Mutant(outcome) == IF outcome = "SUCCEEDED" THEN "PAID" ELSE "FAILED"
(* settlePayout, failPayout, holdPayoutForReconciliation. *)
SettledAs(outcome) ==
  [SUCCEEDED |-> "PAID", FAILED |-> "FAILED",
   TIMEOUT |-> "RECONCILIATION_REQUIRED"][outcome]

(* The batch is posted with the status, and only by whoever moved it.      *)
RecordPayout(o) ==
  LET d == desk[o]
      to == SettledAs(d.outcome)
  IN  /\ d.stage = "ANSWERED"
      /\ \/ /\ Transition(d.payout, d.row, to)
            /\ batches' = IF to # "PAID" THEN batches
                          ELSE [batches EXCEPT ![d.payout].out = @ + d.row.amount]
         \/ /\ Refused(d.payout, d.row, to)
            /\ UNCHANGED <<payout, batches>>
      /\ Answer(o)
      /\ UNCHANGED <<payable, promised, asked, gone>>

----------------------------------------------------------------------------
(* Taking back                                                             *)

(* Some of it, once: a payout that was reversed stays so.                  *)
ReversePayout(o, amount) ==
  LET d == desk[o]
      p == d.payout
  IN  /\ d.stage = "LOADED"
      /\ amount \in 1 .. d.row.amount - d.row.reversed
      /\ \/ /\ <<d.row.status, "REVERSED">> \in PAYOUT_TRANSITIONS
            /\ payout[p].status = d.row.status
            /\ payout' = [payout EXCEPT ![p].status = "REVERSED",
                                        ![p].reversed = @ + amount]
            /\ batches' = [batches EXCEPT ![p].back = @ + amount]
         \/ /\ Refused(p, d.row, "REVERSED")
            /\ UNCHANGED <<payout, batches>>
      /\ Answer(o)
      /\ UNCHANGED <<payable, promised, asked, gone>>

----------------------------------------------------------------------------
(* What the rest of the system does to the balance: an order is paid, a    *)
(* refund is asked for, and given back or let go.                          *)

OrderPaid ==
  /\ payable.credits < MaxCredits
  /\ payable' = [payable EXCEPT !.credits = @ + 1]
  /\ UNCHANGED <<payout, promised, batches, desk, asked, gone>>

RefundAsked ==
  /\ promised < MaxPromised
  /\ payable.debits + promised < payable.credits
  /\ promised' = promised + 1
  /\ UNCHANGED <<payout, payable, batches, desk, asked, gone>>

RefundEnds ==
  /\ promised > 0
  /\ promised' = promised - 1
  /\ \/ payable' = [payable EXCEPT !.debits = @ + 1]
     \/ UNCHANGED payable
  /\ UNCHANGED <<payout, batches, desk, asked, gone>>

----------------------------------------------------------------------------
Init ==
  /\ payout = [p \in Payouts |-> NoRow]
  /\ payable = [credits |-> 0, debits |-> 0]
  /\ promised = 0
  /\ batches = [p \in Payouts |-> [out |-> 0, back |-> 0]]
  /\ desk = [o \in Operators |-> Idle]
  /\ asked = [p \in Payouts |-> 0]
  /\ gone = {}

Next ==
  \/ \E o \in Operators :
       \/ \E p \in Payouts : LoadPayout(o, p) \/ \E a \in Amounts : ReadBalance(o, p, a)
       \/ SchedulePayout(o)
       \/ SubmitPayout(o)
       \/ \E outcome \in Outcomes : ProviderAnswers(o, outcome)
       \/ RequestDies(o)
       \/ RecordPayout(o)
       \/ \E a \in Amounts : ReversePayout(o, a)
  \/ OrderPaid
  \/ RefundAsked
  \/ RefundEnds

Spec == Init /\ [][Next]_vars

----------------------------------------------------------------------------
(* Correctness                                                             *)

Booked == {"PAID", "REVERSED"}

TypeOK ==
  /\ payout \in [Payouts -> [status : States \cup {"NONE"}, amount : Nat, reversed : Nat]]
  /\ payable \in [credits : Nat, debits : Nat]
  /\ promised \in Nat
  /\ batches \in [Payouts -> [out : Nat, back : Nat]]
  /\ desk \in [Operators ->
       [stage : {"IDLE", "SCHEDULING", "LOADED", "CALLING", "ANSWERED"},
        payout : Payouts \cup {NoPayout},
        row : [status : States \cup {"NONE"}, amount : Nat, reversed : Nat],
        outcome : Outcomes \cup {"NONE"}]]
  /\ asked \in [Payouts -> Nat]
  /\ gone \subseteq Payouts

(* Money that left stays counted, and only money that left is in the books: *)
(* a payout the provider made is in flight or booked, whatever was answered *)
(* or lost; a booked one was made, its batch is its amount, and no more     *)
(* came back than went ("reading silence as failure would free the balance  *)
(* for a second payout while the first may still be on its way").           *)
GoneIsCounted ==
  \A p \in Payouts :
    /\ p \in gone => payout[p].status \in {"SUBMITTED", "RECONCILIATION_REQUIRED"} \cup Booked
    /\ payout[p].status \in Booked => p \in gone
    /\ batches[p].out = (IF payout[p].status \in Booked THEN payout[p].amount ELSE 0)
    /\ batches[p].back = payout[p].reversed
    /\ payout[p].reversed <= payout[p].amount

(* However many people press send, one of them makes the call (the         *)
(* compare-and-set of transition, on the status each of them loaded).      *)
AskedOnce == \A p \in Payouts : asked[p] <= 1

(* What payouts.js says: "A negative available balance is never paid.      *)
(* Neither is an amount above it."  So an organiser never has more than    *)
(* was ever owed to them.                                                  *)
NeverOverpaid ==
  MapThenSumSet(LAMBDA p : payout[p].amount - payout[p].reversed, gone) <= payable.credits
=============================================================================
