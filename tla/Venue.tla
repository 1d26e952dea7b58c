--------------------------------- MODULE Venue ---------------------------------
(***************************************************************************)
(* Bookings of one event to pay at the venue.  A booking is priced, counted *)
(* against the event's limit of tickets waiting to be paid, placed and      *)
(* settled; its tickets owe their price at the door, where a steward looks  *)
(* a ticket or a group up and then confirms what was looked up, taking the  *)
(* money.  Meanwhile tickets are handed on, cancelled unpaid, withdrawn and *)
(* refunded, and the event is cancelled.  A booking whose fee a referral    *)
(* code waived gives the code's use back once, when it ends unused.         *)
(*                                                                         *)
(* A transaction is one step where its locks let nothing of another come   *)
(* between.  Three are not: placing a booking reads the event before it    *)
(* counts, and counts before it commits, with the advisory lock held;      *)
(* a lookup is a request of its own; cancelling the event lists the        *)
(* bookings, and its own status is seen by nobody until it commits.        *)
(*                                                                         *)
(* A booking is one line, of one tier.  What is left of the booking fee is *)
(* not counted: a refund may be asked while the line has tickets left.     *)
(* VALID stands for a ticket being offered to somebody as well (Tickets).  *)
(***************************************************************************)
EXTENDS Integers, FiniteSets, FiniteSetsExt

CONSTANTS
  Orders,      \* bookings that may be made
  Coded,       \* those whose fee a referral code waives: nothing is paid online
  Size,        \* tickets of each
  DoorPrice,   \* what each owes at the door, in cents
  Switches,    \* positions of the switch an administrator may set
  Limits,      \* limits an administrator may set
  MaxUses,     \* ReferralCode.maxUses
  Nights,      \* EventSession rows
  Own,         \* the night each booking's tier is for; NoNight: every night
  Stewards,
  MaxHandOns   \* bound: how often one ticket changes hands

NoNight == "every night"

ASSUME VenueAssumption ==
  /\ IsFiniteSet(Orders) /\ Coded \subseteq Orders
  /\ Size \in [Orders -> Nat \ {0}] /\ DoorPrice \in [Orders -> Nat \ {0}]
  /\ Switches \subseteq BOOLEAN
  /\ Limits \subseteq Nat /\ MaxUses \in Nat /\ MaxHandOns \in Nat
  /\ Own \in [Orders -> Nights \cup {NoNight}] /\ NoNight \notin Nights

VARIABLES
  order,     \* Order.status, and how far a booking being placed has come
  counted,   \* the limit read under the advisory lock
  ticket,    \* Ticket rows, by place, with the nights of their CheckIn rows
  refund,    \* what a refund in flight withdraws; 0: the booking fee on its own
  sold,      \* TicketType.quantitySold
  uses,      \* ReferralCode.useCount
  returned,  \* Order.referralUseReturnedAt is set
  takings,   \* the sum of the VenuePayment rows, in cents
  terms,     \* Event.venuePaymentEnabled, Event.venuePaymentLimit
  event,     \* Event.status, as committed
  cancelling,\* the cancellation of the event in progress, and the bookings it read
  look       \* the preview reference each steward holds

vars == <<order, counted, ticket, refund, sold, uses, returned, takings, terms,
          event, cancelling, look>>

booking == <<order, counted>>
referral == <<uses, returned>>
events == <<terms, event, cancelling>>

----------------------------------------------------------------------------
(* The rows                                                                *)

OrderStates == {"NONE", "PRICED", "COUNTED", "PENDING", "PAID", "CANCELLED"}
TicketStates == {"NONE", "VALID", "CHECKED_IN", "REVOKED", "REFUNDED"}

PlacesOf(o) == {<<o, i>> : i \in 1..Size[o]}
Places == UNION {PlacesOf(o) : o \in Orders}

(* Equal shares, the first tickets taking the extra cents. *)
Share(p) ==
  LET quotient == DoorPrice[p[1]] \div Size[p[1]]
      extra == DoorPrice[p[1]] % Size[p[1]]
  IN  IF p[2] <= extra THEN quotient + 1 ELSE quotient

UnitsWithShare(o) == IF DoorPrice[o] < Size[o] THEN DoorPrice[o] ELSE Size[o]

NoTicket == [status |-> "NONE", admitted |-> {}, paid |-> FALSE, cancelled |-> FALSE,
             handedOn |-> 0]
Issued == [NoTicket EXCEPT !.status = "VALID"]
NoLook == [group |-> FALSE, night |-> NoNight, tickets |-> {}, owing |-> {}, handedOn |-> 0]

Stands(p) == ticket[p].status \in {"VALID", "CHECKED_IN"}
Unpaid(p) == Share(p) > 0 /\ ~ticket[p].paid
Due(S) == MapThenSumSet(Share, S)

----------------------------------------------------------------------------
(* The event's limit                                                       *)

(* Tickets waiting to be paid at the door: those a PENDING booking will    *)
(* carry a share for, and the standing unpaid ones of a PAID one.          *)
Waiting ==
  {p \in Places : \/ order[p[1]] = "PENDING" /\ p[2] <= UnitsWithShare(p[1])
                  \/ order[p[1]] = "PAID" /\ ticket[p].status = "VALID" /\ Unpaid(p)}

(* The event and its terms are read before any lock. *)
PriceCheckout(o) ==
  /\ order[o] = "NONE"
  /\ event = "ON_SALE" /\ terms.enabled
  /\ order' = [order EXCEPT ![o] = "PRICED"]
  /\ UNCHANGED <<counted, ticket, refund, sold, referral, takings, events, look>>

(* Under the advisory lock, which is held until the booking commits; the   *)
(* limit is read again.                                                    *)
Count_Mutant(o) ==
  /\ order[o] = "PRICED"
  /\ Cardinality(Waiting) + UnitsWithShare(o) <= terms.limit
  /\ order' = [order EXCEPT ![o] = "COUNTED"]
  /\ counted' = [counted EXCEPT ![o] = terms.limit]
  /\ UNCHANGED <<ticket, refund, sold, referral, takings, events, look>>

Count(o) ==
  /\ order[o] = "PRICED"
  /\ \A other \in Orders : order[other] # "COUNTED"
  /\ Cardinality(Waiting) + UnitsWithShare(o) <= terms.limit
  /\ order' = [order EXCEPT ![o] = "COUNTED"]
  /\ counted' = [counted EXCEPT ![o] = terms.limit]
  /\ UNCHANGED <<ticket, refund, sold, referral, takings, events, look>>

Place(o) ==
  /\ order[o] = "COUNTED"
  /\ o \in Coded => uses < MaxUses
  /\ order' = [order EXCEPT ![o] = "PENDING"]
  /\ uses' = IF o \in Coded THEN uses + 1 ELSE uses
  /\ UNCHANGED <<counted, ticket, refund, sold, returned, takings, events, look>>

(* Refused, or its process died: rolled back. *)
NotPlaced(o) ==
  /\ order[o] \in {"PRICED", "COUNTED"}
  /\ order' = [order EXCEPT ![o] = "NONE"]
  /\ UNCHANGED <<counted, ticket, refund, sold, referral, takings, events, look>>

----------------------------------------------------------------------------
(* Referral uses                                                           *)

(* Of a booking with nothing to pay online, whose total is 0: it ended, or *)
(* nobody was let in and nothing of it stands, or its event is cancelled.  *)
OrderEndedWithoutUse(o) ==
  \/ order[o] = "CANCELLED"
  \/ /\ order[o] = "PAID"
     /\ \A p \in PlacesOf(o) : ticket[p].admitted = {}
     /\ (\A p \in PlacesOf(o) : ~Stands(p)) \/ event = "CANCELLED"

(* Once each, by the marker; never below zero. *)
GivesBack_Mutant(S) ==
  LET back == {o \in S \cap Coded : OrderEndedWithoutUse(o)'}
      n == Cardinality(back)
  IN  /\ returned' = returned \cup back
      /\ uses' = IF n <= uses THEN uses - n ELSE 0

GivesBack(S) ==
  LET back == {o \in (S \cap Coded) \ returned : OrderEndedWithoutUse(o)'}
      n == Cardinality(back)
  IN  /\ returned' = returned \cup back
      /\ uses' = IF n <= uses THEN uses - n ELSE 0

----------------------------------------------------------------------------
(* Settling                                                                *)

Settle_Mutant(o) ==
  /\ order[o] = "PENDING"
  /\ order' = [order EXCEPT ![o] = "PAID"]
  /\ ticket' = [p \in Places |-> IF p \in PlacesOf(o) THEN Issued ELSE ticket[p]]
  /\ sold' = sold + Size[o]
  /\ UNCHANGED <<counted, refund, referral, takings, events, look>>

Settle(o) ==
  /\ order[o] = "PENDING"
  /\ order' = [order EXCEPT ![o] = "PAID"]
  /\ ticket' = [p \in Places |-> IF p \in PlacesOf(o) THEN Issued ELSE ticket[p]]
  /\ sold' = sold + Size[o]
  /\ UNCHANGED event
  /\ GivesBack({o})
  /\ UNCHANGED <<counted, refund, takings, terms, cancelling, look>>

(* The card was declined, or a booking without a payment could not be      *)
(* settled.                                                                *)
NotCompleted(o) ==
  /\ order[o] = "PENDING"
  /\ order' = [order EXCEPT ![o] = "CANCELLED"]
  /\ UNCHANGED <<ticket, event>>
  /\ GivesBack({o})
  /\ UNCHANGED <<counted, refund, sold, takings, terms, cancelling, look>>

----------------------------------------------------------------------------
(* The door                                                                *)

AlreadyIn(p, n) == n \in ticket[p].admitted

MayEnter(p, n) ==
  /\ order[p[1]] = "PAID" /\ event = "ON_SALE"
  /\ ticket[p].status = "VALID"
  /\ Own[p[1]] \in {n, NoNight}
  /\ ~AlreadyIn(p, n)

(* Members of a group are the tickets the buyer still holds. *)
Members(o) == {p \in PlacesOf(o) : ticket[p].handedOn = 0}

LookUp(s, p, n) ==
  /\ MayEnter(p, n)
  /\ look' = [look EXCEPT ![s] =
       [group |-> FALSE, night |-> n, tickets |-> {p},
        owing |-> {p} \cap {r \in Places : Unpaid(r)}, handedOn |-> ticket[p].handedOn]]
  /\ UNCHANGED <<booking, ticket, refund, sold, referral, takings, events>>

LookUpGroup(s, o, n) ==
  LET admissible == {p \in Members(o) : MayEnter(p, n)}
  IN  /\ admissible # {}
      /\ look' = [look EXCEPT ![s] =
           [group |-> TRUE, night |-> n, tickets |-> admissible,
            owing |-> {p \in admissible : Unpaid(p)}, handedOn |-> 0]]
      /\ UNCHANGED <<booking, ticket, refund, sold, referral, takings, events>>

(* The payment and the admission are one transaction. *)
LetIn(S, paying, n) ==
  ticket' = [p \in Places |->
    IF p \notin S THEN ticket[p]
    ELSE [ticket[p] EXCEPT !.admitted = @ \cup {n}, !.paid = @ \/ p \in paying,
            !.status = IF Own[p[1]] = NoNight THEN @ ELSE "CHECKED_IN"]]

(* A reference is good until it expires or the next lookup: a steward who  *)
(* never saw the answer confirms again.  The pass must still be the one    *)
(* looked up; a ticket paid on an earlier night pays nothing.              *)
Confirm_Mutant(s, p) ==
  LET owing == look[s].owing
  IN  /\ ~look[s].group /\ p \in look[s].tickets
      /\ ticket[p].handedOn = look[s].handedOn
      /\ MayEnter(p, look[s].night)
      /\ LetIn({p}, owing, look[s].night)
      /\ takings' = takings + Due(owing)
      /\ UNCHANGED <<booking, refund, sold, referral, events, look>>

Confirm(s, p) ==
  LET unpaid == {p} \cap {r \in Places : Unpaid(r)}
  IN  /\ ~look[s].group /\ p \in look[s].tickets
      /\ ticket[p].handedOn = look[s].handedOn
      /\ MayEnter(p, look[s].night)
      /\ unpaid \subseteq look[s].owing
      /\ LetIn({p}, unpaid, look[s].night)
      /\ takings' = takings + Due(unpaid)
      /\ UNCHANGED <<booking, refund, sold, referral, events, look>>

(* The tickets named, of those looked up: the ones not in yet must all be  *)
(* admissible, and those of them unpaid exactly those the lookup found     *)
(* unpaid among the tickets named.                                         *)
ConfirmGroup(s, S) ==
  LET n == look[s].night
      entering == {p \in S : ~AlreadyIn(p, n)}
      unpaid == {p \in entering : Unpaid(p)}
  IN  /\ look[s].group /\ S \subseteq look[s].tickets
      /\ \A p \in S : ticket[p].handedOn = 0
      /\ entering # {} /\ \A p \in entering : MayEnter(p, n)
      /\ S \cap look[s].owing = unpaid
      /\ LetIn(entering, unpaid, n)
      /\ takings' = takings + Due(S \cap look[s].owing)
      /\ UNCHANGED <<booking, refund, sold, referral, events, look>>

ReferenceExpires(s) ==
  /\ look[s] # NoLook
  /\ look' = [look EXCEPT ![s] = NoLook]
  /\ UNCHANGED <<booking, ticket, refund, sold, referral, takings, events>>

----------------------------------------------------------------------------
(* What becomes of the tickets                                             *)

(* The successor owes what its predecessor owed; a ticket paid at the door *)
(* was let in, and is never handed on.                                     *)
HandOn(p) ==
  /\ ticket[p].status = "VALID" /\ ticket[p].admitted = {}
  /\ ticket[p].handedOn < MaxHandOns
  /\ ticket' = [ticket EXCEPT ![p].handedOn = @ + 1]
  /\ UNCHANGED <<booking, refund, sold, referral, takings, events, look>>

Cancellable_Mutant(p) == ticket[p].status \in {"VALID", "REVOKED"} /\ Unpaid(p)

Cancellable(p) ==
  /\ ticket[p].status = "VALID"
  /\ Unpaid(p) /\ ~ticket[p].cancelled /\ ticket[p].admitted = {}

(* All or nothing.  Asked again for tickets it cancelled, it writes        *)
(* nothing.                                                                *)
CancelUnpaid(o, S) ==
  /\ event = "ON_SALE" /\ order[o] = "PAID" /\ refund[o] = {}
  /\ S # {} /\ \A p \in S : Cancellable(p)
  /\ ticket' = [p \in Places |-> IF p \notin S THEN ticket[p]
                 ELSE [ticket[p] EXCEPT !.status = "REVOKED", !.cancelled = TRUE]]
  /\ sold' = sold - Cardinality(S)
  /\ UNCHANGED <<order, event>>
  /\ GivesBack({o})
  /\ UNCHANGED <<counted, refund, takings, terms, cancelling, look>>

(* Withdrawn by the organiser: the place is not sold again. *)
RevokeTicket(p) ==
  /\ ticket[p].status = "VALID"
  /\ ticket' = [ticket EXCEPT ![p].status = "REVOKED"]
  /\ UNCHANGED <<order, event>>
  /\ GivesBack({p[1]})
  /\ UNCHANGED <<counted, refund, sold, takings, terms, cancelling, look>>

LeftOn(o) == {p \in PlacesOf(o) : ticket[p].status # "REFUNDED" /\ ~ticket[p].cancelled}

(* Bound: one refund of a booking in flight.  A booking without a fee has  *)
(* nothing to refund.                                                      *)
AskRefund(o, q) ==
  /\ order[o] = "PAID" /\ o \notin Coded /\ refund[o] = {}
  /\ q <= Cardinality(LeftOn(o))
  /\ refund' = [refund EXCEPT ![o] = {q}]
  /\ UNCHANGED <<booking, ticket, sold, referral, takings, events, look>>

RefundFails(o) ==
  /\ refund[o] # {}
  /\ refund' = [refund EXCEPT ![o] = {}]
  /\ UNCHANGED <<booking, ticket, sold, referral, takings, events, look>>

(* Tickets not paid at the door first. *)
SettleRefund(o, S) ==
  LET refundable == {p \in PlacesOf(o) : ticket[p].status = "VALID"}
      n == Cardinality(S)
  IN  /\ \E q \in refund[o] : n = q \/ (n < q /\ S = refundable)
      /\ S \subseteq refundable
      /\ (\A p \in S : ~ticket[p].paid) \/ \A p \in refundable \ S : ticket[p].paid
      /\ ticket' = [p \in Places |-> IF p \in S THEN [ticket[p] EXCEPT !.status = "REFUNDED"]
                                     ELSE ticket[p]]
      /\ refund' = [refund EXCEPT ![o] = {}]
      /\ UNCHANGED <<booking, sold, referral, takings, events, look>>

----------------------------------------------------------------------------
(* The event                                                               *)

(* Both hold the event's row.  Switched off, it keeps its limit. *)
SetTerms(enabled, limit) ==
  /\ event = "ON_SALE" /\ ~cancelling.open
  /\ terms' = [enabled |-> enabled, limit |-> IF enabled THEN limit ELSE terms.limit]
  /\ terms' # terms
  /\ UNCHANGED <<booking, ticket, refund, sold, referral, takings, event, cancelling, look>>

CancelLists ==
  /\ event = "ON_SALE" /\ ~cancelling.open
  /\ cancelling' = [open |-> TRUE, listed |-> {o \in Orders : order[o] \in {"PENDING", "PAID"}}]
  /\ UNCHANGED <<booking, ticket, refund, sold, referral, takings, terms, event, look>>

(* A refund of the whole booking is asked for those that have some of      *)
(* their fee left.                                                         *)
CancelCommits(R) ==
  LET paid == {o \in cancelling.listed : order[o] = "PAID"}
  IN  /\ cancelling.open
      /\ R \subseteq {o \in paid \ Coded : refund[o] = {}}
      /\ event' = "CANCELLED"
      /\ cancelling' = [cancelling EXCEPT !.open = FALSE]
      /\ refund' = [o \in Orders |-> IF o \in R THEN {Cardinality(LeftOn(o))} ELSE refund[o]]
      /\ UNCHANGED <<order, ticket>>
      /\ GivesBack(paid)
      /\ UNCHANGED <<counted, sold, takings, terms, look>>

CancelRollsBack ==
  /\ cancelling.open
  /\ cancelling' = [open |-> FALSE, listed |-> {}]
  /\ UNCHANGED <<booking, ticket, refund, sold, referral, takings, terms, event, look>>

----------------------------------------------------------------------------

Init ==
  /\ order = [o \in Orders |-> "NONE"]
  /\ counted = [o \in Orders |-> 0]
  /\ ticket = [p \in Places |-> NoTicket]
  /\ refund = [o \in Orders |-> {}]
  /\ sold = 0
  /\ uses = 0
  /\ returned = {}
  /\ takings = 0
  /\ \E l \in Limits : terms = [enabled |-> TRUE, limit |-> l]
  /\ event = "ON_SALE"
  /\ cancelling = [open |-> FALSE, listed |-> {}]
  /\ look = [s \in Stewards |-> NoLook]

Next ==
  \/ \E o \in Orders :
       \/ PriceCheckout(o) \/ Count(o) \/ Place(o) \/ NotPlaced(o)
       \/ Settle(o) \/ NotCompleted(o)
       \/ RefundFails(o)
       \/ \E q \in 0..Size[o] : AskRefund(o, q)
       \/ \E S \in SUBSET PlacesOf(o) : CancelUnpaid(o, S) \/ SettleRefund(o, S)
  \/ \E p \in Places : HandOn(p) \/ RevokeTicket(p)
  \/ \E s \in Stewards :
       \/ \E n \in Nights :
            \/ \E p \in Places : LookUp(s, p, n)
            \/ \E o \in Orders : LookUpGroup(s, o, n)
       \/ \E p \in look[s].tickets : Confirm(s, p)
       \/ \E S \in SUBSET look[s].tickets : ConfirmGroup(s, S)
       \/ ReferenceExpires(s)
  \/ \E enabled \in Switches, limit \in Limits : SetTerms(enabled, limit)
  \/ CancelLists
  \/ \E R \in SUBSET cancelling.listed : CancelCommits(R)
  \/ CancelRollsBack

Spec == Init /\ [][Next]_vars

----------------------------------------------------------------------------
(* Properties                                                              *)

(* Types, but of takings, which Dues accounts for; a ticket is there when  *)
(* its booking is PAID, was paid at the door only if it owed something     *)
(* there and was let in, was let in on the nights its tier is for, and one *)
(* cancelled unpaid is REVOKED.                                            *)
TypeOK ==
  /\ order \in [Orders -> OrderStates]
  /\ counted \in [Orders -> Nat]
  /\ ticket \in [Places -> [status : TicketStates, admitted : SUBSET Nights, paid : BOOLEAN,
                            cancelled : BOOLEAN, handedOn : 0..MaxHandOns]]
  /\ \A p \in Places :
       /\ (ticket[p].status = "NONE") <=> (order[p[1]] # "PAID")
       /\ ticket[p].paid <=> (Share(p) > 0 /\ ticket[p].admitted # {})
       /\ ticket[p].admitted # {} => Own[p[1]] \in ticket[p].admitted \cup {NoNight}
       /\ ticket[p].cancelled => ticket[p].status = "REVOKED" /\ ~ticket[p].paid
       /\ ticket[p].status = "NONE" => ticket[p] = NoTicket
  /\ refund \in [Orders -> SUBSET Nat]
  /\ sold \in Nat /\ uses \in Nat /\ returned \subseteq Coded
  /\ terms \in [enabled : BOOLEAN, limit : Nat]
  /\ event \in {"ON_SALE", "CANCELLED"}
  /\ cancelling \in [open : BOOLEAN, listed : SUBSET Orders]
  /\ look \in [Stewards -> [group : BOOLEAN, night : Nights \cup {NoNight},
                            tickets : SUBSET Places, owing : SUBSET Places,
                            handedOn : 0..MaxHandOns]]

(* No booking is placed past the limit it was counted against, though      *)
(* bookings are counted, placed, settled and paid at the same time; and    *)
(* nothing but placing a booking makes more tickets wait to be paid        *)
(* (assertVenueBookingLimits, settleCheckout).                             *)
LimitHolds ==
  [][/\ \A o \in Orders : order[o] = "COUNTED" /\ order'[o] = "PENDING"
          => Cardinality(Waiting') <= counted[o]
     /\ \A p \in Waiting' \ Waiting : order[p[1]] = "COUNTED"]_vars

(* The places the tier counts as sold are the tickets issued, without      *)
(* those cancelled unpaid: a cancellation repeated, or racing the door, a  *)
(* withdrawal or a refund, returns no place twice (settleCheckout,         *)
(* cancelUnpaidVenueTickets).                                              *)
SoldIsWhatIsBooked ==
  sold = Cardinality({p \in Places : ticket[p].status # "NONE" /\ ~ticket[p].cancelled})

(* The code counts the bookings placed with it that did not give their use *)
(* back, never past its limit (consumeReferralUse, returnReferralUseOnce). *)
UsesAreCounted ==
  /\ uses = Cardinality({o \in Coded : order[o] \in {"PENDING", "PAID", "CANCELLED"}} \ returned)
  /\ uses <= MaxUses

(* A booking gave its use back only if it ended unused, whatever happens   *)
(* to it later, and every one that did gave it back, but one the           *)
(* cancellation of its event never read (settleReferralUsesIfEnded and its *)
(* callers).                                                               *)
MissedByCancellation(o) == event = "CANCELLED" /\ o \notin cancelling.listed

UseComesBack ==
  \A o \in Coded :
    /\ o \in returned => OrderEndedWithoutUse(o)
    /\ OrderEndedWithoutUse(o) => o \in returned \/ MissedByCancellation(o)

(* What the code says of a cancellation: a booking that becomes PAID while *)
(* its event is being cancelled is not left without anything asked for it  *)
(* (cancellationWork, settleCheckout).                                     *)
EveryUseComesBack == \A o \in Coded : OrderEndedWithoutUse(o) => o \in returned

(* Whatever is looked up, confirmed, handed on, cancelled, withdrawn and   *)
(* refunded in between, the door keeps its promise about the money: Dues.  *)
DueOf(p) ==
  IF ticket[p].status = "NONE" THEN "none"
  ELSE IF Share(p) = 0 THEN "nothing"
  ELSE IF ticket[p].paid THEN "paid"
  ELSE IF Stands(p) THEN "owed" ELSE "excused"

Dues == INSTANCE Dues WITH
  Priced <- {p \in Places : Share(p) > 0},
  Worth <- Due,
  due <- [p \in Places |-> DueOf(p)],
  inside <- {p \in Places : ticket[p].admitted # {}},
  till <- takings

ImplementsDues == Dues!Spec
=============================================================================
