----------------------------- MODULE VenueProofs -----------------------------
(***************************************************************************)
(* For every number of bookings, tickets, nights and stewards: the limit   *)
(* of tickets waiting to be paid holds, places and referral uses are       *)
(* counted, a use comes back when it should, and the door takes each price *)
(* once.                                                                   *)
(*                                                                         *)
(* The limit needs the advisory lock in the invariant: one booking at a    *)
(* time stands between its count and its commit, and meanwhile what waits  *)
(* only shrinks.  A use given back needs that nobody enters an ended       *)
(* booking, and that a cancellation read its bookings before it committed. *)
(***************************************************************************)
EXTENDS Venue, FiniteSetTheorems, TLAPS

(* A lookup that found something was for a night. *)
LooksFit == \A s \in Stewards : look[s].tickets # {} => look[s].night \in Nights

(* A booking without a fee has nothing to refund. *)
RefundsFit == \A o \in Orders : refund[o] # {} => o \notin Coded

CancellingFits == cancelling.open => event = "ON_SALE"

(* The advisory lock, and what was counted under it. *)
CountFits ==
  \A o \in Orders : order[o] = "COUNTED" =>
    /\ \A other \in Orders : order[other] = "COUNTED" => other = o
    /\ Cardinality(Waiting) + UnitsWithShare(o) <= counted[o]

IInv ==
  /\ TypeOK
  /\ LooksFit
  /\ RefundsFit
  /\ CancellingFits
  /\ CountFits
  /\ SoldIsWhatIsBooked
  /\ UsesAreCounted
  /\ UseComesBack

----------------------------------------------------------------------------
(* The sets that are counted                                               *)

Booked(f) == {p \in Places : f[p].status # "NONE" /\ ~f[p].cancelled}
Using(f) == {o \in Coded : f[o] \in {"PENDING", "PAID", "CANCELLED"}}

FirstOf(o, n) == {<<o, i>> : i \in 1..n}

LEMMA FirstAreCounted ==
  ASSUME NEW o, NEW n \in Nat
  PROVE  IsFiniteSet(FirstOf(o, n)) /\ Cardinality(FirstOf(o, n)) = n
<1> DEFINE g == [i \in 1..n |-> <<o, i>>]
<1>1. g \in [1..n -> FirstOf(o, n)] /\ IsInjective(g)
  BY DEF FirstOf, IsInjective
<1>2. \A t \in FirstOf(o, n) : \E i \in 1..n : g[i] = t
  BY DEF FirstOf
<1>3. g \in Bijection(1..n, FirstOf(o, n))
  BY <1>1, <1>2 DEF Bijection, Injection, Surjection
<1>4. ExistsBijection(1..n, FirstOf(o, n))
  BY <1>3 DEF ExistsBijection
<1> QED
  BY <1>4, FS_NatBijection, FS_CountingElements

LEMMA OneBooking ==
  ASSUME NEW o \in Orders
  PROVE  /\ IsFiniteSet(PlacesOf(o)) /\ Cardinality(PlacesOf(o)) = Size[o]
         /\ PlacesOf(o) \subseteq Places
         /\ \A p \in PlacesOf(o) : p[1] = o /\ p[2] \in 1..Size[o]
<1>1. Size[o] \in Nat /\ PlacesOf(o) = FirstOf(o, Size[o])
  BY VenueAssumption DEF PlacesOf, FirstOf
<1>2. IsFiniteSet(PlacesOf(o)) /\ Cardinality(PlacesOf(o)) = Size[o]
  BY <1>1, FirstAreCounted
<1> QED
  BY <1>2 DEF PlacesOf, Places

LEMMA PlacesAre ==
  /\ IsFiniteSet(Places)
  /\ \A p \in Places : /\ p[1] \in Orders /\ p[2] \in 1..Size[p[1]]
                       /\ p \in PlacesOf(p[1]) /\ p = <<p[1], p[2]>>
<1> DEFINE T == {PlacesOf(o) : o \in Orders}
           g == [o \in Orders |-> PlacesOf(o)]
<1>1. g \in Surjection(Orders, T)
  BY DEF Surjection
<1>2. IsFiniteSet(T)
  BY <1>1, FS_Surjection, VenueAssumption
<1>3. IsFiniteSet(Places)
  BY <1>2, OneBooking, FS_UNION DEF Places
<1> QED
  BY <1>3 DEF PlacesOf, Places

LEMMA CodedIsFinite == IsFiniteSet(Coded)
BY VenueAssumption, FS_Subset

LEMMA CountsAreNat ==
  /\ \A S \in SUBSET Places : IsFiniteSet(S) /\ Cardinality(S) \in Nat
  /\ \A S \in SUBSET Coded : IsFiniteSet(S) /\ Cardinality(S) \in Nat
BY PlacesAre, CodedIsFinite, FS_Subset, FS_CardinalityType

(* Only the first UnitsWithShare(o) tickets of a booking owe anything. *)
LEMMA SharesAreFew ==
  ASSUME NEW p \in Places
  PROVE  /\ Share(p) \in Nat
         /\ Share(p) > 0 => p[2] <= UnitsWithShare(p[1])
<1> DEFINE d == DoorPrice[p[1]]
           s == Size[p[1]]
<1>1. d \in Nat /\ s \in Nat /\ d > 0 /\ s > 0 /\ p[2] \in 1..s
  BY PlacesAre, VenueAssumption
<1>2. d \div s \in Nat /\ d % s \in Nat
  BY <1>1
<1>3. d < s => d \div s = 0 /\ d % s = d
  BY <1>1
<1> QED
  BY <1>1, <1>2, <1>3 DEF Share, UnitsWithShare

----------------------------------------------------------------------------
(* What a step may do to each count                                        *)

LEMMA KeepsSold ==
  ASSUME SoldIsWhatIsBooked, sold' = sold,
         \A p \in Places : /\ ticket'[p].status = "NONE" <=> ticket[p].status = "NONE"
                          /\ ticket'[p].cancelled = ticket[p].cancelled
  PROVE  SoldIsWhatIsBooked'
<1>1. Booked(ticket') = Booked(ticket)
  BY DEF Booked
<1> QED
  BY <1>1 DEF SoldIsWhatIsBooked, Booked

(* What waits only shrinks, and no booking is counted.                     *)
LEMMA KeepsCount ==
  ASSUME TypeOK, CountFits, Waiting' \subseteq Waiting,
         \A o \in Orders : order'[o] = "COUNTED" => order[o] = "COUNTED" /\ counted'[o] = counted[o]
  PROVE  CountFits'
<1>1. Cardinality(Waiting') <= Cardinality(Waiting)
  <2>1. Waiting \in SUBSET Places
    BY DEF Waiting
  <2> QED
    BY <2>1, CountsAreNat, FS_Subset
<1>2. Cardinality(Waiting') \in Nat /\ Cardinality(Waiting) \in Nat
  <2>1. Waiting \in SUBSET Places
    BY DEF Waiting
  <2> QED
    BY <2>1, CountsAreNat
<1>3. \A o \in Orders : UnitsWithShare(o) \in Nat /\ counted[o] \in Nat
  BY VenueAssumption DEF UnitsWithShare, TypeOK
<1> QED
  BY <1>1, <1>2, <1>3 DEF CountFits

LEMMA KeepsUses ==
  ASSUME UsesAreCounted, uses' = uses, returned' = returned, Using(order') = Using(order)
  PROVE  UsesAreCounted'
BY DEF UsesAreCounted, Using

LEMMA GivingBackCounts ==
  ASSUME TypeOK, UsesAreCounted, NEW S, GivesBack(S), Using(order') = Using(order)
  PROVE  UsesAreCounted' /\ uses' \in Nat /\ returned' \subseteq Coded
<1> DEFINE back == {o \in (S \cap Coded) \ returned : OrderEndedWithoutUse(o)'}
           n == Cardinality(back)
           held == Using(order) \ returned
<1>1. returned' = returned \cup back /\ uses' = IF n <= uses THEN uses - n ELSE 0
  BY DEF GivesBack
<1>2. back \subseteq held
  BY DEF OrderEndedWithoutUse, Using
<1>3. uses = Cardinality(held) /\ uses <= MaxUses /\ uses \in Nat
  BY DEF UsesAreCounted, Using, TypeOK
<1>4. back \in SUBSET Coded /\ held \in SUBSET Coded
  BY DEF Using
<1>5. n \in Nat /\ n <= uses
  BY <1>2, <1>3, <1>4, CountsAreNat, FS_Subset
<1>6. Using(order') \ returned' = held \ back
  BY <1>1
<1>7. held \cap back = back
  BY <1>2
<1> HIDE DEF back
<1>8. Cardinality(held \ back) = uses - n
  BY <1>3, <1>4, <1>7, CountsAreNat, FS_Difference
<1>9. uses' = uses - n
  BY <1>1, <1>5
<1>10. returned' \subseteq Coded
  BY <1>1, <1>4 DEF TypeOK
<1> HIDE DEF n, held
<1>11. uses' = Cardinality(Using(order') \ returned')
  BY <1>6, <1>8, <1>9
<1>12. uses' \in Nat /\ uses' <= MaxUses
  BY <1>3, <1>5, <1>9, VenueAssumption
<1>13. UsesAreCounted'
  BY <1>11, <1>12 DEF UsesAreCounted, Using
<1> QED
  BY <1>10, <1>12, <1>13

LEMMA KeepsUseBack ==
  ASSUME UseComesBack, returned \subseteq returned',
         \A o \in Coded :
           /\ o \in returned' => o \in returned \/ OrderEndedWithoutUse(o)'
           /\ OrderEndedWithoutUse(o) => OrderEndedWithoutUse(o)'
           /\ OrderEndedWithoutUse(o)' =>
                OrderEndedWithoutUse(o) \/ o \in returned' \/ MissedByCancellation(o)'
           /\ MissedByCancellation(o) => MissedByCancellation(o)'
  PROVE  UseComesBack'
BY Zenon DEF UseComesBack

(* No step but Place makes more tickets wait.                              *)
Shrinks ==
  /\ Waiting' \subseteq Waiting
  /\ \A o \in Orders : order[o] = "COUNTED" => order'[o] # "PENDING"

(* What ended stays ended: nobody enters a booking none of whose tickets   *)
(* stands, or whose event is cancelled.                                    *)
EndsStay ==
  /\ \A o \in Orders : order[o] \in {"PAID", "CANCELLED"} => order'[o] = order[o]
  /\ event = "CANCELLED" => event' = "CANCELLED"
  /\ \A p \in Places : order[p[1]] = "PAID" =>
       /\ ticket'[p].admitted = ticket[p].admitted \/ (Stands(p) /\ event # "CANCELLED")
       /\ Stands(p)' => Stands(p)

LEMMA EndedStaysEnded ==
  ASSUME NEW o \in Coded, EndsStay, OrderEndedWithoutUse(o)
  PROVE  OrderEndedWithoutUse(o)'
<1>1. o \in Orders /\ \A p \in PlacesOf(o) : p \in Places /\ p[1] = o
  BY VenueAssumption, OneBooking
<1> QED
  BY <1>1 DEF EndsStay, OrderEndedWithoutUse

(* A step that gives the uses of some bookings back, and ends no other.    *)
LEMMA GivingBackIsDue ==
  ASSUME UseComesBack, EndsStay, NEW S, GivesBack(S),
         \A o \in Coded :
           /\ OrderEndedWithoutUse(o)' =>
                OrderEndedWithoutUse(o) \/ o \in S \/ MissedByCancellation(o)'
           /\ MissedByCancellation(o) => MissedByCancellation(o)'
  PROVE  UseComesBack'
<1>1. returned \subseteq returned'
  BY DEF GivesBack
<1>2. ASSUME NEW o \in Coded, o \in returned'
      PROVE  o \in returned \/ OrderEndedWithoutUse(o)'
  BY <1>2 DEF GivesBack
<1>3. ASSUME NEW o \in Coded, o \in S, OrderEndedWithoutUse(o)'
      PROVE  o \in returned'
  BY <1>3 DEF GivesBack
<1> QED
  BY <1>1, <1>2, <1>3, EndedStaysEnded, KeepsUseBack

----------------------------------------------------------------------------
(* Steps that end no booking and move no ticket                            *)

Row == [status : TicketStates, admitted : SUBSET Nights, paid : BOOLEAN,
        cancelled : BOOLEAN, handedOn : 0..MaxHandOns]

RowFits(f, g, p) ==
  /\ (f[p].status = "NONE") <=> (g[p[1]] # "PAID")
  /\ f[p].paid <=> (Share(p) > 0 /\ f[p].admitted # {})
  /\ f[p].admitted # {} => Own[p[1]] \in f[p].admitted \cup {NoNight}
  /\ f[p].cancelled => f[p].status = "REVOKED" /\ ~f[p].paid
  /\ f[p].status = "NONE" => f[p] = NoTicket

RowsFit(f, g) == f \in [Places -> Row] /\ \A p \in Places : RowFits(f, g, p)

LEMMA RowsAre == TypeOK => RowsFit(ticket, order)
BY DEF TypeOK, RowsFit, RowFits, Row

Open == {"NONE", "PRICED", "COUNTED"}

Quiet ==
  /\ UNCHANGED <<ticket, sold, referral, event>>
  /\ \A o \in Orders : order'[o] # order[o] => order[o] \in Open /\ order'[o] \in Open
  /\ event = "CANCELLED" => UNCHANGED cancelling

LEMMA QuietKeeps ==
  ASSUME IInv, Quiet
  PROVE  /\ Waiting' = Waiting
         /\ SoldIsWhatIsBooked' /\ UsesAreCounted' /\ UseComesBack'
<1>1. \A p \in Places : p[1] \in Orders
  BY PlacesAre
<1>2. Waiting' = Waiting
  BY <1>1 DEF Waiting, Unpaid, Quiet, Open
<1>3. SoldIsWhatIsBooked'
  BY KeepsSold DEF IInv, Quiet
<1>4. \A o \in Coded : o \in Orders
  BY VenueAssumption
<1>5. Using(order') = Using(order)
  BY <1>4 DEF Using, Quiet, Open
<1>6. UsesAreCounted'
  BY <1>5, KeepsUses DEF IInv, Quiet, referral
<1>7. \A o \in Coded : OrderEndedWithoutUse(o)' <=> OrderEndedWithoutUse(o)
  BY <1>4 DEF OrderEndedWithoutUse, Stands, Quiet, Open
<1>8. \A o \in Coded : MissedByCancellation(o)' <=> MissedByCancellation(o)
  BY DEF MissedByCancellation, Quiet
<1>9. UseComesBack'
  BY <1>7, <1>8, KeepsUseBack DEF IInv, Quiet, referral
<1> QED
  BY <1>2, <1>3, <1>6, <1>9

(* The rows of TypeOK and the smaller facts, when they do not change.      *)
LEMMA QuietHolds ==
  ASSUME IInv, Quiet, order' \in [Orders -> OrderStates], counted' \in [Orders -> Nat],
         LooksFit', RefundsFit', CancellingFits', CountFits',
         refund' \in [Orders -> SUBSET Nat],
         terms' \in [enabled : BOOLEAN, limit : Nat],
         cancelling' \in [open : BOOLEAN, listed : SUBSET Orders],
         look' \in [Stewards -> [group : BOOLEAN, night : Nights \cup {NoNight},
                                 tickets : SUBSET Places, owing : SUBSET Places,
                                 handedOn : 0..MaxHandOns]]
  PROVE  IInv' /\ Shrinks
<1>1. \A p \in Places : p[1] \in Orders
  BY PlacesAre
<1>2. \A p \in Places : (order'[p[1]] = "PAID") <=> (order[p[1]] = "PAID")
  BY <1>1 DEF Quiet, Open
<1>3. RowsFit(ticket', order')
  BY <1>2, RowsAre DEF IInv, RowsFit, RowFits, Quiet
<1>4. TypeOK'
  BY <1>3 DEF IInv, TypeOK, RowsFit, RowFits, Row, Quiet, referral
<1>5. Shrinks
  BY QuietKeeps DEF Shrinks, Quiet, Open
<1> QED
  BY <1>4, <1>5, QuietKeeps DEF IInv

LEMMA PriceHolds ==
  ASSUME IInv, NEW o \in Orders, PriceCheckout(o) \/ NotPlaced(o)
  PROVE  IInv' /\ Shrinks
<1>1. Quiet /\ order' \in [Orders -> OrderStates]
  BY DEF PriceCheckout, NotPlaced, Quiet, Open, events, referral, IInv, TypeOK, OrderStates
<1>2. \A x \in Orders : order'[x] = "COUNTED" => order[x] = "COUNTED" /\ counted'[x] = counted[x]
  BY DEF PriceCheckout, NotPlaced, IInv, TypeOK
<1>3. CountFits'
  BY <1>1, <1>2, QuietKeeps, KeepsCount DEF IInv
<1>4. UNCHANGED <<counted, refund, events, look>>
  BY DEF PriceCheckout, NotPlaced
<1> QED
  BY <1>1, <1>3, <1>4, QuietHolds
    DEF IInv, TypeOK, LooksFit, RefundsFit, CancellingFits, events

LEMMA CountHolds ==
  ASSUME IInv, NEW o \in Orders, Count(o)
  PROVE  IInv' /\ Shrinks
<1>1. Quiet /\ order' \in [Orders -> OrderStates]
  BY DEF Count, Quiet, Open, events, referral, IInv, TypeOK, OrderStates
<1>2. /\ order'[o] = "COUNTED" /\ counted'[o] = terms.limit
      /\ \A x \in Orders : order'[x] = "COUNTED" => x = o
      /\ Cardinality(Waiting) + UnitsWithShare(o) <= terms.limit
      /\ counted' \in [Orders -> Nat]
  BY DEF Count, IInv, TypeOK
<1>3. CountFits'
  BY <1>1, <1>2, QuietKeeps DEF CountFits
<1>4. UNCHANGED <<refund, events, look>>
  BY DEF Count
<1> QED
  BY <1>1, <1>2, <1>3, <1>4, QuietHolds
    DEF IInv, TypeOK, LooksFit, RefundsFit, CancellingFits, events

(* Bookings, tickets and the event stay as they are.                       *)
LEMMA StillKeeps ==
  ASSUME IInv, UNCHANGED <<order, counted, ticket, sold, referral, event>>,
         event = "CANCELLED" => UNCHANGED cancelling
  PROVE  /\ Quiet /\ CountFits'
         /\ order' \in [Orders -> OrderStates] /\ counted' \in [Orders -> Nat]
<1>1. Quiet
  BY DEF Quiet
<1>2. CountFits'
  BY <1>1, QuietKeeps, KeepsCount DEF IInv
<1> QED
  BY <1>1, <1>2 DEF IInv, TypeOK

LEMMA LookingHolds ==
  ASSUME IInv, NEW s \in Stewards,
         UNCHANGED <<booking, ticket, refund, sold, referral, events>>,
         NEW l \in [group : BOOLEAN, night : Nights \cup {NoNight}, tickets : SUBSET Places,
                    owing : SUBSET Places, handedOn : 0..MaxHandOns],
         look' = [look EXCEPT ![s] = l], l.tickets # {} => l.night \in Nights
  PROVE  IInv' /\ Shrinks
<1>1. UNCHANGED <<order, counted, terms, event, cancelling>>
  BY DEF booking, events
<1>2. Quiet /\ CountFits'
  BY <1>1, StillKeeps
<1>3. LooksFit'
  BY DEF IInv, TypeOK, LooksFit
<1> QED
  BY <1>1, <1>2, <1>3, QuietHolds DEF IInv, TypeOK, RefundsFit, CancellingFits

LEMMA LookUpHolds ==
  ASSUME IInv, NEW s \in Stewards, NEW p \in Places, NEW n \in Nights, LookUp(s, p, n)
  PROVE  IInv' /\ Shrinks
<1> DEFINE l == [group |-> FALSE, night |-> n, tickets |-> {p},
                 owing |-> {p} \cap {r \in Places : Unpaid(r)}, handedOn |-> ticket[p].handedOn]
<1>1. l \in [group : BOOLEAN, night : Nights \cup {NoNight}, tickets : SUBSET Places,
             owing : SUBSET Places, handedOn : 0..MaxHandOns]
  BY DEF IInv, TypeOK
<1> QED
  BY <1>1, LookingHolds DEF LookUp

LEMMA LookUpGroupHolds ==
  ASSUME IInv, NEW s \in Stewards, NEW o \in Orders, NEW n \in Nights, LookUpGroup(s, o, n)
  PROVE  IInv' /\ Shrinks
<1> DEFINE admissible == {p \in Members(o) : MayEnter(p, n)}
           l == [group |-> TRUE, night |-> n, tickets |-> admissible,
                 owing |-> {p \in admissible : Unpaid(p)}, handedOn |-> 0]
<1>1. l \in [group : BOOLEAN, night : Nights \cup {NoNight}, tickets : SUBSET Places,
             owing : SUBSET Places, handedOn : 0..MaxHandOns]
  BY OneBooking, VenueAssumption DEF Members
<1> QED
  BY <1>1, LookingHolds DEF LookUpGroup

LEMMA ExpiresHolds ==
  ASSUME IInv, NEW s \in Stewards, ReferenceExpires(s)
  PROVE  IInv' /\ Shrinks
<1>1. NoLook \in [group : BOOLEAN, night : Nights \cup {NoNight}, tickets : SUBSET Places,
                  owing : SUBSET Places, handedOn : 0..MaxHandOns]
  BY VenueAssumption DEF NoLook
<1> QED
  BY <1>1, LookingHolds DEF ReferenceExpires, NoLook

LEMMA AskHolds ==
  ASSUME IInv, NEW o \in Orders, NEW q \in 0..Size[o], AskRefund(o, q) \/ RefundFails(o)
  PROVE  IInv' /\ Shrinks
<1>1. /\ UNCHANGED <<order, counted, ticket, sold, referral, terms, event, cancelling, look>>
      /\ refund' \in [Orders -> SUBSET Nat]
  BY VenueAssumption DEF AskRefund, RefundFails, booking, events, IInv, TypeOK
<1>2. Quiet /\ CountFits'
  BY <1>1, StillKeeps
<1>3. RefundsFit'
  BY DEF AskRefund, RefundFails, IInv, TypeOK, RefundsFit
<1> QED
  BY <1>1, <1>2, <1>3, QuietHolds DEF IInv, TypeOK, LooksFit, CancellingFits

LEMMA TermsHold ==
  ASSUME IInv, NEW enabled \in Switches, NEW limit \in Limits, SetTerms(enabled, limit)
  PROVE  IInv' /\ Shrinks
<1>1. /\ UNCHANGED <<order, counted, ticket, refund, sold, referral, event, cancelling, look>>
      /\ terms' \in [enabled : BOOLEAN, limit : Nat]
  BY VenueAssumption DEF SetTerms, booking, IInv, TypeOK
<1>2. Quiet /\ CountFits'
  BY <1>1, StillKeeps
<1> QED
  BY <1>1, <1>2, QuietHolds DEF IInv, TypeOK, LooksFit, RefundsFit, CancellingFits

LEMMA ListsHold ==
  ASSUME IInv, CancelLists \/ CancelRollsBack
  PROVE  IInv' /\ Shrinks
<1>1. /\ UNCHANGED <<order, counted, ticket, refund, sold, referral, terms, event, look>>
      /\ event = "ON_SALE"
      /\ cancelling' \in [open : BOOLEAN, listed : SUBSET Orders]
  <2>1. UNCHANGED <<order, counted, ticket, refund, sold, referral, terms, event, look>>
    BY DEF CancelLists, CancelRollsBack, booking
  <2>2. event = "ON_SALE"
    BY DEF CancelLists, CancelRollsBack, IInv, CancellingFits
  <2>3. CASE CancelLists
    <3>1. {o \in Orders : order[o] \in {"PENDING", "PAID"}} \in SUBSET Orders
      OBVIOUS
    <3> QED
      BY <2>1, <2>2, <2>3, <3>1 DEF CancelLists
  <2>4. CASE CancelRollsBack
    BY <2>1, <2>2, <2>4 DEF CancelRollsBack
  <2> QED
    BY <2>3, <2>4
<1>2. Quiet /\ CountFits'
  BY <1>1, StillKeeps
<1> QED
  BY <1>1, <1>2, QuietHolds DEF IInv, TypeOK, LooksFit, RefundsFit, CancellingFits

----------------------------------------------------------------------------
(* Placing and settling                                                    *)

LEMMA PlaceHolds ==
  ASSUME IInv, NEW o \in Orders, Place(o)
  PROVE  IInv'
<1>1. /\ order[o] = "COUNTED" /\ order' = [order EXCEPT ![o] = "PENDING"]
      /\ order' \in [Orders -> OrderStates]
      /\ order'[o] = "PENDING" /\ \A x \in Orders : x # o => order'[x] = order[x]
      /\ UNCHANGED <<counted, ticket, refund, sold, returned, terms, event, cancelling, look>>
  BY DEF Place, IInv, TypeOK, OrderStates, events
<1>2. RowsFit(ticket', order')
  BY <1>1, RowsAre, PlacesAre DEF IInv, RowsFit, RowFits
<1>3. uses' \in Nat
  BY DEF Place, IInv, TypeOK
<1>4. TypeOK'
  BY <1>1, <1>2, <1>3 DEF IInv, TypeOK, RowsFit, RowFits, Row
<1>5. CountFits'
  <2>1. \A x \in Orders : order'[x] # "COUNTED"
    BY <1>1 DEF IInv, CountFits
  <2> QED
    BY <2>1 DEF CountFits
<1>6. SoldIsWhatIsBooked'
  BY <1>1, KeepsSold DEF IInv
<1>7. UsesAreCounted'
  <2>1. CASE o \in Coded
    <3>1. o \notin returned
      BY <2>1, <1>1 DEF IInv, UseComesBack, OrderEndedWithoutUse
    <3>2. Using(order') = Using(order) \cup {o} /\ o \notin Using(order)
      BY <1>1, <2>1, VenueAssumption DEF Using
    <3> DEFINE held == Using(order) \ returned
    <3>3. Using(order') \ returned' = held \cup {o} /\ o \notin held /\ held \in SUBSET Coded
      BY <1>1, <3>1, <3>2 DEF Using
    <3>4. uses = Cardinality(held) /\ uses < MaxUses /\ uses' = uses + 1
      BY <2>1 DEF Place, IInv, UsesAreCounted, Using
    <3> HIDE DEF held
    <3>5. Cardinality(held \cup {o}) = Cardinality(held) + 1
      BY <3>3, CountsAreNat, FS_AddElement
    <3>6. uses' = Cardinality(Using(order') \ returned')
      BY <3>3, <3>4, <3>5
    <3>7. uses' <= MaxUses
      BY <3>4, VenueAssumption DEF IInv, TypeOK
    <3> QED
      BY <3>6, <3>7 DEF UsesAreCounted, Using
  <2>2. CASE o \notin Coded
    <3>1. Using(order') = Using(order)
      BY <1>1, <2>2, VenueAssumption DEF Using
    <3> QED
      BY <1>1, <2>2, <3>1, KeepsUses DEF Place, IInv
  <2> QED
    BY <2>1, <2>2
<1>8. UseComesBack'
  <2>1. \A x \in Coded : OrderEndedWithoutUse(x)' <=> OrderEndedWithoutUse(x)
    BY <1>1, VenueAssumption DEF OrderEndedWithoutUse, Stands
  <2>2. \A x \in Coded : MissedByCancellation(x)' <=> MissedByCancellation(x)
    BY <1>1 DEF MissedByCancellation
  <2> QED
    BY <1>1, <2>1, <2>2, KeepsUseBack DEF IInv
<1> QED
  BY <1>1, <1>4, <1>5, <1>6, <1>7, <1>8 DEF IInv, LooksFit, RefundsFit, CancellingFits

LEMMA PlacedWithinLimit ==
  ASSUME IInv, NEW o \in Orders, Place(o)
  PROVE  Cardinality(Waiting') <= counted[o] /\ \A p \in Waiting' \ Waiting : p[1] = o
<1> DEFINE new == FirstOf(o, UnitsWithShare(o))
<1>1. /\ order[o] = "COUNTED" /\ order'[o] = "PENDING" /\ UNCHANGED ticket
      /\ \A x \in Orders : x # o => order'[x] = order[x]
  BY DEF Place, IInv, TypeOK
<1>2. UnitsWithShare(o) \in Nat /\ counted[o] \in Nat
  BY VenueAssumption DEF UnitsWithShare, IInv, TypeOK
<1>3. IsFiniteSet(new) /\ Cardinality(new) = UnitsWithShare(o)
  BY <1>2, FirstAreCounted
<1>4. \A p \in Waiting' : p \in Waiting \/ (p \in new /\ p[1] = o)
  BY <1>1, PlacesAre, VenueAssumption DEF Waiting, Unpaid, FirstOf
<1> HIDE DEF new
<1>5. Waiting \in SUBSET Places
  BY DEF Waiting
<1>6. IsFiniteSet(Waiting) /\ Cardinality(Waiting) \in Nat
  BY <1>5, CountsAreNat
<1>7. /\ IsFiniteSet(Waiting \cup new)
      /\ Cardinality(Waiting \cup new) =
           Cardinality(Waiting) + Cardinality(new) - Cardinality(Waiting \cap new)
  BY <1>3, <1>6, FS_Union
<1>8. Cardinality(Waiting \cap new) \in Nat
  BY <1>6, FS_Intersection, FS_CardinalityType
<1>9. Cardinality(Waiting') \in Nat /\ Cardinality(Waiting') <= Cardinality(Waiting \cup new)
  BY <1>4, <1>7, FS_Subset, FS_CardinalityType
<1>10. Cardinality(Waiting) + UnitsWithShare(o) <= counted[o]
  BY <1>1 DEF IInv, CountFits
<1> QED
  BY <1>2, <1>3, <1>4, <1>6, <1>7, <1>8, <1>9, <1>10

(* A step that gives uses back, from what it does to each count.           *)
LEMMA GivingBackHolds ==
  ASSUME IInv, NEW S, GivesBack(S),
         order' \in [Orders -> OrderStates], RowsFit(ticket', order'),
         \A o \in Orders :
           /\ order'[o] = "COUNTED" <=> order[o] = "COUNTED"
           /\ order'[o] \in Open <=> order[o] \in Open,
         Waiting' \subseteq Waiting, EndsStay, SoldIsWhatIsBooked', sold' \in Nat,
         refund' \in [Orders -> SUBSET Nat], RefundsFit',
         UNCHANGED <<counted, terms, look>>,
         CancellingFits', event' \in {"ON_SALE", "CANCELLED"},
         cancelling' \in [open : BOOLEAN, listed : SUBSET Orders],
         \A o \in Coded :
           /\ OrderEndedWithoutUse(o)' =>
                OrderEndedWithoutUse(o) \/ o \in S \/ MissedByCancellation(o)'
           /\ MissedByCancellation(o) => MissedByCancellation(o)'
  PROVE  IInv' /\ Shrinks
<1>1. Using(order') = Using(order)
  BY VenueAssumption DEF Using, Open, OrderStates, IInv, TypeOK
<1>2. UsesAreCounted' /\ uses' \in Nat /\ returned' \subseteq Coded
  BY <1>1, GivingBackCounts DEF IInv
<1>3. UseComesBack'
  BY GivingBackIsDue DEF IInv
<1>4. CountFits'
  BY KeepsCount DEF IInv
<1>5. TypeOK'
  BY <1>2 DEF IInv, TypeOK, RowsFit, RowFits, Row
<1>6. Shrinks
  BY DEF Shrinks
<1> QED
  BY <1>2, <1>3, <1>4, <1>5, <1>6 DEF IInv, LooksFit

LEMMA SettleHolds ==
  ASSUME IInv, NEW o \in Orders, Settle(o)
  PROVE  IInv' /\ Shrinks
<1>1. /\ order[o] = "PENDING" /\ order'[o] = "PAID"
      /\ order' \in [Orders -> OrderStates]
      /\ \A x \in Orders : x # o => order'[x] = order[x]
      /\ UNCHANGED <<counted, refund, terms, event, cancelling, look>>
      /\ sold' = sold + Size[o] /\ GivesBack({o})
  BY DEF Settle, IInv, TypeOK, OrderStates
<1>2. \A p \in Places : (p \in PlacesOf(o)) <=> (p[1] = o)
  BY PlacesAre, OneBooking
<1>2a. \A p \in Places : p[1] = o => ticket[p] = NoTicket
  BY <1>1 DEF IInv, TypeOK
<1>2b. \A p \in Places : p[1] = o => ticket'[p] = Issued
  BY <1>2 DEF Settle
<1>2c. \A p \in Places : p[1] # o => ticket'[p] = ticket[p]
  BY <1>2 DEF Settle
<1>3. /\ Issued \in Row /\ Issued.status = "VALID" /\ Issued.admitted = {} /\ ~Issued.paid
      /\ ~Issued.cancelled /\ NoTicket.status = "NONE"
  <2>1. NoTicket \in Row /\ NoTicket.admitted = {} /\ ~NoTicket.paid /\ ~NoTicket.cancelled
    BY VenueAssumption DEF NoTicket, Row, TicketStates
  <2>2. Issued \in Row
    BY <2>1 DEF Issued, Row, TicketStates
  <2>3. /\ Issued.status = "VALID" /\ Issued.admitted = NoTicket.admitted
        /\ Issued.paid = NoTicket.paid /\ Issued.cancelled = NoTicket.cancelled
    BY <2>1 DEF Issued, Row
  <2> QED
    BY <2>1, <2>2, <2>3 DEF NoTicket
<1>4. RowsFit(ticket', order')
  <2>1. ticket' \in [Places -> Row]
    <3>1. ticket' = [p \in Places |-> IF p \in PlacesOf(o) THEN Issued ELSE ticket[p]]
      BY DEF Settle
    <3>2. ticket \in [Places -> Row]
      BY RowsAre DEF IInv, RowsFit
    <3> QED
      BY <1>3, <3>1, <3>2
  <2>2. ASSUME NEW p \in Places
        PROVE  RowFits(ticket', order', p)
    BY <1>1, <1>2, <1>2a, <1>2b, <1>2c, <1>3, RowsAre, PlacesAre DEF IInv, RowsFit, RowFits
  <2> QED
    BY <2>1, <2>2 DEF RowsFit
<1>5. Waiting' \subseteq Waiting
  <2>1. ASSUME NEW p \in Places, p \in Waiting'
        PROVE  p \in Waiting
    <3>1. CASE p[1] = o
      BY <1>1, <2>1, <3>1, SharesAreFew DEF Waiting, Unpaid
    <3>2. CASE p[1] # o
      BY <1>1, <1>2, <1>2a, <1>2b, <1>2c, <1>3, <2>1, <3>2, PlacesAre DEF Waiting, Unpaid
    <3> QED
      BY <3>1, <3>2
  <2> QED
    BY <2>1 DEF Waiting
<1>6. EndsStay
  BY <1>1, <1>2, <1>2a, <1>2b, <1>2c, <1>3, PlacesAre DEF EndsStay, Stands
<1>7. SoldIsWhatIsBooked' /\ sold' \in Nat
  <2>1. Booked(ticket') = Booked(ticket) \cup PlacesOf(o)
    BY <1>2, <1>2a, <1>2b, <1>2c, <1>3, OneBooking DEF Booked
  <2>2. Booked(ticket) \cap PlacesOf(o) = {}
    BY <1>2, <1>2a, <1>2b, <1>2c, <1>3, OneBooking DEF Booked
  <2>3. Booked(ticket) \in SUBSET Places
    BY DEF Booked
  <2>4. Cardinality(Booked(ticket')) = Cardinality(Booked(ticket)) + Size[o]
    <3>1. IsFiniteSet(Booked(ticket)) /\ Cardinality(Booked(ticket)) \in Nat
      BY <2>3, CountsAreNat
    <3>2. IsFiniteSet(PlacesOf(o)) /\ Cardinality(PlacesOf(o)) = Size[o] /\ Size[o] \in Nat
      BY OneBooking, VenueAssumption
    <3>3. Cardinality(Booked(ticket) \cap PlacesOf(o)) = 0
      BY <2>2, FS_EmptySet
    <3>4. Cardinality(Booked(ticket) \cup PlacesOf(o)) =
            Cardinality(Booked(ticket)) + Cardinality(PlacesOf(o))
              - Cardinality(Booked(ticket) \cap PlacesOf(o))
      BY <3>1, <3>2, FS_Union
    <3> QED
      BY <2>1, <3>1, <3>2, <3>3, <3>4
  <2>5. sold = Cardinality(Booked(ticket))
    BY DEF IInv, SoldIsWhatIsBooked, Booked
  <2>6. sold' = Cardinality(Booked(ticket'))
    BY <1>1, <2>4, <2>5
  <2> QED
    BY <1>1, <2>6, VenueAssumption DEF SoldIsWhatIsBooked, Booked, IInv, TypeOK
<1>8. ASSUME NEW x \in Coded
      PROVE  /\ OrderEndedWithoutUse(x)' => OrderEndedWithoutUse(x) \/ x \in {o}
             /\ MissedByCancellation(x) => MissedByCancellation(x)'
  <2>1. x \in Orders /\ \A p \in PlacesOf(x) : p \in Places /\ p[1] = x
    BY VenueAssumption, OneBooking
  <2> QED
    BY <1>1, <1>2, <1>2a, <1>2b, <1>2c, <1>3, <2>1 DEF OrderEndedWithoutUse, MissedByCancellation, Stands
<1> QED
  BY <1>1, <1>4, <1>5, <1>6, <1>7, <1>8, GivingBackHolds
    DEF IInv, TypeOK, RefundsFit, CancellingFits, Open

LEMMA NotCompletedHolds ==
  ASSUME IInv, NEW o \in Orders, NotCompleted(o)
  PROVE  IInv' /\ Shrinks
<1>1. /\ order[o] = "PENDING" /\ order'[o] = "CANCELLED"
      /\ order' \in [Orders -> OrderStates]
      /\ \A x \in Orders : x # o => order'[x] = order[x]
      /\ UNCHANGED <<counted, ticket, refund, sold, terms, event, cancelling, look>>
      /\ GivesBack({o})
  BY DEF NotCompleted, IInv, TypeOK, OrderStates
<1>2. RowsFit(ticket', order')
  BY <1>1, RowsAre, PlacesAre DEF IInv, RowsFit, RowFits
<1>3. Waiting' \subseteq Waiting
  BY <1>1, PlacesAre DEF Waiting, Unpaid
<1>4. EndsStay
  BY <1>1 DEF EndsStay, Stands
<1>5. SoldIsWhatIsBooked'
  BY <1>1, KeepsSold DEF IInv
<1>6. \A x \in Coded :
        /\ OrderEndedWithoutUse(x)' => OrderEndedWithoutUse(x) \/ x \in {o}
        /\ MissedByCancellation(x) => MissedByCancellation(x)'
  BY <1>1, VenueAssumption DEF OrderEndedWithoutUse, MissedByCancellation, Stands
<1> QED
  BY <1>1, <1>2, <1>3, <1>4, <1>5, <1>6, GivingBackHolds
    DEF IInv, TypeOK, RefundsFit, CancellingFits, Open

----------------------------------------------------------------------------
(* The door                                                                *)

DoorStep(S, n) ==
  /\ S \subseteq Places /\ n \in Nights
  /\ \A p \in S : MayEnter(p, n)
  /\ LetIn(S, {p \in S : Unpaid(p)}, n)
  /\ UNCHANGED <<booking, refund, sold, referral, events, look>>

LEMMA DoorOthers ==
  ASSUME IInv, NEW S, NEW n, DoorStep(S, n), NEW p \in Places, p \notin S
  PROVE  ticket'[p] = ticket[p]
BY DEF DoorStep, LetIn

LEMMA DoorRow ==
  ASSUME IInv, NEW S, NEW n, DoorStep(S, n), NEW p \in S
  PROVE  /\ p \in Places /\ n \in Nights
         /\ ticket[p].status = "VALID" /\ order[p[1]] = "PAID" /\ event = "ON_SALE"
         /\ Own[p[1]] \in {n, NoNight}
         /\ ticket'[p] \in Row
         /\ ticket'[p].admitted = ticket[p].admitted \cup {n}
         /\ (ticket'[p].paid <=> (Share(p) > 0))
         /\ ticket'[p].status \in {"VALID", "CHECKED_IN"}
         /\ ticket'[p].cancelled = ticket[p].cancelled
<1> DEFINE b == ticket[p].paid \/ p \in {r \in S : Unpaid(r)}
           t == IF Own[p[1]] = NoNight THEN ticket[p].status ELSE "CHECKED_IN"
<1>1. p \in Places /\ n \in Nights /\ MayEnter(p, n)
  BY DEF DoorStep
<1>2. ticket[p] \in Row /\ (ticket[p].paid => (Share(p) > 0))
  BY <1>1, RowsAre DEF IInv, RowsFit, RowFits
<1>3. ticket'[p] = [ticket[p] EXCEPT !.admitted = @ \cup {n}, !.paid = b, !.status = t]
  BY <1>1 DEF DoorStep, LetIn
<1>4. b \in BOOLEAN /\ (b <=> (Share(p) > 0))
  BY <1>2 DEF Unpaid
<1>5. t \in {"VALID", "CHECKED_IN"} /\ ticket[p].status = "VALID"
  BY <1>1 DEF MayEnter
<1> HIDE DEF b, t
<1>6. ticket'[p] \in Row
  <2> DEFINE a == ticket[p].admitted \cup {n}
  <2>1. a \in SUBSET Nights /\ t \in TicketStates
    BY <1>1, <1>2, <1>5 DEF Row, TicketStates
  <2>2. ticket'[p] = [ticket[p] EXCEPT !.admitted = a, !.paid = b, !.status = t]
    BY <1>3
  <2> HIDE DEF a
  <2> QED
    BY <1>2, <1>4, <2>1, <2>2 DEF Row
<1>7. /\ ticket'[p].admitted = ticket[p].admitted \cup {n}
      /\ ticket'[p].paid = b /\ ticket'[p].status = t
      /\ ticket'[p].cancelled = ticket[p].cancelled
  BY <1>2, <1>3 DEF Row
<1>8. ticket'[p].paid <=> (Share(p) > 0)
  BY <1>4, <1>7
<1> QED
  BY <1>1, <1>5, <1>6, <1>7, <1>8 DEF MayEnter

LEMMA DoorHolds ==
  ASSUME IInv, NEW S, NEW n, DoorStep(S, n)
  PROVE  IInv' /\ Shrinks
<1>1. UNCHANGED <<order, counted, refund, sold, uses, returned, terms, event, cancelling, look>>
  BY DEF DoorStep, booking, referral, events
<1>2. RowsFit(ticket', order')
  <2>1. ticket' \in [Places -> Row]
    <3>1. ticket' = [p \in Places |-> ticket'[p]]
      BY DEF DoorStep, LetIn
    <3>2. \A p \in Places : ticket[p] \in Row
      BY RowsAre DEF IInv, RowsFit
    <3>3. \A p \in Places : ticket'[p] \in Row
      BY <3>2, DoorOthers, DoorRow
    <3> QED
      BY <3>1, <3>3
  <2>2. ASSUME NEW p \in Places
        PROVE  RowFits(ticket', order', p)
    <3>1. CASE p \notin S
      BY <1>1, <3>1, DoorOthers, DoorRow, RowsAre DEF IInv, RowsFit, RowFits
    <3>2. CASE p \in S
      BY <1>1, <3>2, DoorOthers, DoorRow, RowsAre DEF IInv, RowsFit, RowFits
    <3> QED
      BY <3>1, <3>2
  <2> QED
    BY <2>1, <2>2 DEF RowsFit
<1>3. TypeOK'
  BY <1>1, <1>2 DEF IInv, TypeOK, RowsFit, RowFits, Row
<1>4. Waiting' \subseteq Waiting
  <2>1. ASSUME NEW p \in Places, p \in Waiting'
        PROVE  p \in Waiting
    <3>1. CASE p \notin S
      BY <1>1, <2>1, <3>1, DoorOthers, DoorRow DEF Waiting, Unpaid
    <3>2. CASE p \in S
      BY <1>1, <2>1, <3>2, DoorOthers, DoorRow DEF Waiting, Unpaid
    <3> QED
      BY <3>1, <3>2
  <2> QED
    BY <2>1 DEF Waiting
<1>5. CountFits'
  BY <1>1, <1>4, KeepsCount DEF IInv
<1>6. SoldIsWhatIsBooked'
  BY <1>1, DoorOthers, DoorRow, KeepsSold DEF IInv
<1>7. UsesAreCounted'
  BY <1>1, KeepsUses DEF IInv
<1>8. EndsStay
  <2>1. ASSUME NEW p \in Places
        PROVE  /\ ticket'[p].admitted = ticket[p].admitted \/ (Stands(p) /\ event # "CANCELLED")
               /\ Stands(p)' => Stands(p)
    BY DoorOthers, DoorRow DEF Stands
  <2> QED
    BY <1>1, <2>1 DEF EndsStay
<1>9. UseComesBack'
  <2>1. ASSUME NEW o \in Coded, OrderEndedWithoutUse(o)'
        PROVE  OrderEndedWithoutUse(o)
    <3>1. \A p \in PlacesOf(o) : p \in Places
      BY OneBooking, VenueAssumption
    <3>2. ASSUME order[o] = "PAID", NEW p \in PlacesOf(o)
          PROVE  ticket'[p] = ticket[p]
      <4>1. ticket'[p].admitted = {}
        BY <1>1, <2>1, <3>2 DEF OrderEndedWithoutUse
      <4> QED
        BY <3>1, <4>1, DoorOthers, DoorRow
    <3> QED
      BY <1>1, <2>1, <3>2 DEF OrderEndedWithoutUse, Stands
  <2> QED
    BY <1>1, <1>8, <2>1, EndedStaysEnded, KeepsUseBack DEF IInv, MissedByCancellation
<1>10. Shrinks
  BY <1>1, <1>4 DEF Shrinks
<1> QED
  BY <1>1, <1>3, <1>5, <1>6, <1>7, <1>9, <1>10
    DEF IInv, LooksFit, RefundsFit, CancellingFits

(* Both confirmations let in, and are paid for, what is still owed.        *)
LEMMA ConfirmIsDoor ==
  ASSUME IInv, NEW s \in Stewards, NEW p \in look[s].tickets, Confirm(s, p)
  PROVE  /\ DoorStep({p}, look[s].night)
         /\ takings' = takings + Due({r \in {p} : Unpaid(r)})
<1>1. look[s].tickets \subseteq Places /\ look[s].night \in Nights
  BY DEF IInv, TypeOK, LooksFit
<1>2. {p} \cap {r \in Places : Unpaid(r)} = {r \in {p} : Unpaid(r)}
  BY <1>1
<1> QED
  BY <1>1, <1>2 DEF Confirm, DoorStep

LEMMA ConfirmGroupIsDoor ==
  ASSUME IInv, NEW s \in Stewards, NEW S \in SUBSET look[s].tickets, ConfirmGroup(s, S)
  PROVE  \E E \in SUBSET S :
           /\ DoorStep(E, look[s].night)
           /\ takings' = takings + Due({r \in E : Unpaid(r)})
<1> DEFINE E == {p \in S : ~AlreadyIn(p, look[s].night)}
<1>1. look[s].tickets \subseteq Places /\ E # {} /\ E \in SUBSET S
  BY DEF IInv, TypeOK, ConfirmGroup
<1>2. look[s].night \in Nights
  BY <1>1 DEF IInv, LooksFit
<1> QED
  BY <1>1, <1>2 DEF ConfirmGroup, DoorStep

----------------------------------------------------------------------------
(* What becomes of the tickets                                             *)

(* Standing tickets end, or are handed on; nothing else of a row changes.  *)
RowEnds(p) ==
  \/ ticket'[p] = ticket[p]
  \/ /\ ticket[p].status = "VALID" /\ ticket'[p] \in Row
     /\ ticket'[p].status \in {"VALID", "REVOKED", "REFUNDED"}
     /\ ticket'[p].admitted = ticket[p].admitted
     /\ (ticket'[p].paid <=> ticket[p].paid)
     /\ (ticket'[p].cancelled => ticket'[p].status = "REVOKED" /\ ~ticket[p].paid)

TicketsEnd ==
  /\ UNCHANGED <<order, counted, event, terms, cancelling, look>>
  /\ ticket' = [p \in Places |-> ticket'[p]]
  /\ \A p \in Places : RowEnds(p)

LEMMA EndingKeeps ==
  ASSUME IInv, TicketsEnd
  PROVE  /\ RowsFit(ticket', order') /\ Waiting' \subseteq Waiting /\ EndsStay
         /\ CancellingFits' /\ LooksFit'
         /\ \A o \in Coded : MissedByCancellation(o)' <=> MissedByCancellation(o)
<1>1. ASSUME NEW p \in Places
      PROVE  /\ ticket'[p] \in Row /\ RowFits(ticket', order', p)
             /\ (p \in Waiting' => p \in Waiting)
             /\ ticket'[p].admitted = ticket[p].admitted
             /\ (Stands(p)' => Stands(p))
  <2>1. ticket[p] \in Row /\ RowFits(ticket, order, p) /\ order' = order
    BY RowsAre DEF IInv, RowsFit, TicketsEnd
  <2>2. CASE ticket'[p] = ticket[p]
    BY <2>1, <2>2 DEF RowFits, Waiting, Unpaid, Stands
  <2>3. CASE /\ ticket[p].status = "VALID" /\ ticket'[p] \in Row
             /\ ticket'[p].status \in {"VALID", "REVOKED", "REFUNDED"}
             /\ ticket'[p].admitted = ticket[p].admitted
             /\ (ticket'[p].paid <=> ticket[p].paid)
             /\ (ticket'[p].cancelled => ticket'[p].status = "REVOKED" /\ ~ticket[p].paid)
    BY <2>1, <2>3 DEF RowFits, Waiting, Unpaid, Stands
  <2> QED
    BY <2>2, <2>3 DEF TicketsEnd, RowEnds
<1>2. RowsFit(ticket', order')
  BY <1>1 DEF RowsFit, TicketsEnd
<1>3. Waiting' \subseteq Waiting
  BY <1>1 DEF Waiting
<1>4. EndsStay
  BY <1>1 DEF EndsStay, TicketsEnd
<1> QED
  BY <1>2, <1>3, <1>4
    DEF IInv, CancellingFits, LooksFit, MissedByCancellation, TicketsEnd

(* Nobody's use is given back: bookings without a code, and hand-ons.      *)
LEMMA EndingHolds ==
  ASSUME IInv, TicketsEnd, UNCHANGED <<sold, referral>>,
         refund' \in [Orders -> SUBSET Nat], RefundsFit',
         \A p \in Places : ticket'[p].cancelled = ticket[p].cancelled,
         \A p \in Places : p[1] \in Coded => (Stands(p)' <=> Stands(p))
  PROVE  IInv' /\ Shrinks
<1>1. UNCHANGED <<order, counted, uses, returned, terms, event, cancelling, look>>
  BY DEF TicketsEnd, referral
<1>2. RowsFit(ticket', order') /\ Waiting' \subseteq Waiting
  BY EndingKeeps
<1>3. TypeOK'
  BY <1>1, <1>2 DEF IInv, TypeOK, RowsFit, RowFits, Row
<1>4. CountFits'
  BY <1>1, <1>2, KeepsCount DEF IInv
<1>5. SoldIsWhatIsBooked'
  <2>1. \A p \in Places : ticket'[p].status = "NONE" <=> ticket[p].status = "NONE"
    BY DEF TicketsEnd, RowEnds
  <2> QED
    BY <2>1, KeepsSold DEF IInv
<1>6. UsesAreCounted'
  BY <1>1, KeepsUses DEF IInv
<1>7. UseComesBack'
  <2>1. ASSUME NEW o \in Coded
        PROVE  OrderEndedWithoutUse(o)' => OrderEndedWithoutUse(o)
    <3>1. \A p \in PlacesOf(o) : p \in Places /\ p[1] = o
      BY OneBooking, VenueAssumption
    <3>2. \A p \in PlacesOf(o) : ticket'[p].admitted = ticket[p].admitted
      BY <3>1 DEF TicketsEnd, RowEnds
    <3>3. \A p \in PlacesOf(o) : Stands(p)' <=> Stands(p)
      BY <3>1
    <3> QED
      BY <1>1, <3>2, <3>3 DEF OrderEndedWithoutUse
  <2> QED
    BY <1>1, <2>1, EndingKeeps, EndedStaysEnded, KeepsUseBack DEF IInv
<1>8. Shrinks
  BY <1>1, EndingKeeps DEF Shrinks
<1> QED
  BY <1>1, <1>3, <1>4, <1>5, <1>6, <1>7, <1>8, EndingKeeps DEF IInv

LEMMA HandOnHolds ==
  ASSUME IInv, NEW p \in Places, HandOn(p)
  PROVE  IInv' /\ Shrinks /\ TicketsEnd
<1>1. ticket[p] \in Row /\ ticket \in [Places -> Row]
  BY RowsAre DEF IInv, RowsFit
<1>2. ticket' = [ticket EXCEPT ![p] = [ticket[p] EXCEPT !.handedOn = ticket[p].handedOn + 1]]
  BY DEF HandOn
<1>3. ticket[p].status = "VALID" /\ ticket[p].handedOn + 1 \in 0..MaxHandOns
  BY <1>1, VenueAssumption DEF HandOn, Row
<1>4. [ticket[p] EXCEPT !.handedOn = ticket[p].handedOn + 1] \in Row
  BY <1>1, <1>3 DEF Row
<1>5. /\ ticket'[p] \in Row /\ ticket'[p].status = ticket[p].status
      /\ ticket'[p].admitted = ticket[p].admitted /\ ticket'[p].paid = ticket[p].paid
      /\ ticket'[p].cancelled = ticket[p].cancelled
  BY <1>1, <1>2, <1>4 DEF Row
<1>6. \A r \in Places : r # p => ticket'[r] = ticket[r]
  BY <1>1, <1>2
<1>7. ~ticket[p].cancelled
  BY <1>3, RowsAre DEF IInv, RowsFit, RowFits
<1>8. TicketsEnd
  <2>1. ticket' = [r \in Places |-> ticket'[r]]
    BY <1>1, <1>2
  <2>2. \A r \in Places : RowEnds(r)
    BY <1>3, <1>5, <1>6, <1>7 DEF RowEnds
  <2> QED
    BY <2>1, <2>2 DEF HandOn, booking, events, TicketsEnd
<1>9. \A r \in Places : /\ ticket'[r].cancelled = ticket[r].cancelled
                       /\ (Stands(r)' <=> Stands(r))
  BY <1>5, <1>6 DEF Stands
<1>10. UNCHANGED <<sold, referral, refund>>
  BY DEF HandOn
<1> QED
  BY <1>8, <1>9, <1>10, EndingHolds DEF IInv, TypeOK, RefundsFit

LEMMA SettleRefundHolds ==
  ASSUME IInv, NEW o \in Orders, NEW S, SettleRefund(o, S)
  PROVE  IInv' /\ Shrinks /\ TicketsEnd
<1>1. S \subseteq PlacesOf(o) /\ (\A p \in S : ticket[p].status = "VALID") /\ refund[o] # {}
  BY DEF SettleRefund
<1>2. ticket' = [p \in Places |-> IF p \in S THEN [ticket[p] EXCEPT !.status = "REFUNDED"]
                                 ELSE ticket[p]]
  BY DEF SettleRefund
<1>3. ticket \in [Places -> Row]
  BY RowsAre DEF IInv, RowsFit
<1>4. ASSUME NEW p \in Places, p \in S
      PROVE  /\ ticket'[p] \in Row /\ ticket'[p].status = "REFUNDED"
             /\ ticket'[p].admitted = ticket[p].admitted /\ ticket'[p].paid = ticket[p].paid
             /\ ticket'[p].cancelled = ticket[p].cancelled
             /\ ~ticket[p].cancelled /\ ticket[p].status = "VALID"
  <2>1. ticket[p] \in Row /\ ticket'[p] = [ticket[p] EXCEPT !.status = "REFUNDED"]
    BY <1>2, <1>3, <1>4
  <2>2. ticket'[p] \in Row
    BY <2>1 DEF Row, TicketStates
  <2>3. ~ticket[p].cancelled /\ ticket[p].status = "VALID"
    BY <1>1, <1>4, RowsAre DEF IInv, RowsFit, RowFits
  <2> QED
    BY <2>1, <2>2, <2>3 DEF Row
<1>5. \A p \in Places : p \notin S => ticket'[p] = ticket[p]
  BY <1>2
<1>6. TicketsEnd
  <2>1. ticket' = [r \in Places |-> ticket'[r]]
    BY <1>2
  <2>2. \A r \in Places : RowEnds(r)
    BY <1>4, <1>5 DEF RowEnds
  <2> QED
    BY <2>1, <2>2 DEF SettleRefund, booking, events, TicketsEnd
<1>7. \A p \in Places : ticket'[p].cancelled = ticket[p].cancelled
  BY <1>4, <1>5
<1>8. \A p \in Places : p[1] \in Coded => (Stands(p)' <=> Stands(p))
  <2>1. o \notin Coded
    BY <1>1 DEF IInv, RefundsFit
  <2>2. \A p \in S : p[1] = o
    BY <1>1, OneBooking
  <2> QED
    BY <1>5, <2>1, <2>2 DEF Stands
<1>9. UNCHANGED <<sold, referral>> /\ refund' = [refund EXCEPT ![o] = {}]
  BY DEF SettleRefund
<1>10. RefundsFit' /\ refund' \in [Orders -> SUBSET Nat]
  BY <1>9 DEF IInv, TypeOK, RefundsFit
<1> QED
  BY <1>6, <1>7, <1>8, <1>9, <1>10, EndingHolds

(* Tickets of one booking end, which may end it unused.                    *)
LEMMA EndingGivesBack ==
  ASSUME IInv, NEW o \in Orders, TicketsEnd, GivesBack({o}), UNCHANGED refund,
         \A p \in Places : p[1] # o => ticket'[p] = ticket[p],
         SoldIsWhatIsBooked', sold' \in Nat
  PROVE  IInv' /\ Shrinks
<1>1. UNCHANGED <<order, counted, terms, event, cancelling, look>>
  BY DEF TicketsEnd
<1>2. ASSUME NEW x \in Coded
      PROVE  OrderEndedWithoutUse(x)' => OrderEndedWithoutUse(x) \/ x \in {o}
  <2>1. \A p \in PlacesOf(x) : p \in Places /\ p[1] = x
    BY OneBooking, VenueAssumption
  <2> QED
    BY <1>1, <2>1 DEF OrderEndedWithoutUse, Stands
<1>3. \A x \in Coded : MissedByCancellation(x)' <=> MissedByCancellation(x)
  BY EndingKeeps
<1>4. RowsFit(ticket', order') /\ Waiting' \subseteq Waiting /\ EndsStay /\ CancellingFits'
  BY EndingKeeps
<1> QED
  BY <1>1, <1>2, <1>3, <1>4, GivingBackHolds DEF IInv, TypeOK, RefundsFit

LEMMA RevokeHolds ==
  ASSUME IInv, NEW p \in Places, RevokeTicket(p)
  PROVE  IInv' /\ Shrinks /\ TicketsEnd
<1>1. ticket \in [Places -> Row] /\ ticket[p].status = "VALID" /\ p[1] \in Orders
  BY RowsAre, PlacesAre DEF IInv, RowsFit, RevokeTicket
<1>2. ticket' = [ticket EXCEPT ![p] = [ticket[p] EXCEPT !.status = "REVOKED"]]
  BY DEF RevokeTicket
<1>3. [ticket[p] EXCEPT !.status = "REVOKED"] \in Row
  BY <1>1 DEF Row, TicketStates
<1>4. /\ ticket'[p] \in Row /\ ticket'[p].status = "REVOKED"
      /\ ticket'[p].admitted = ticket[p].admitted /\ ticket'[p].paid = ticket[p].paid
      /\ ticket'[p].cancelled = ticket[p].cancelled
  BY <1>1, <1>2, <1>3 DEF Row
<1>5. \A r \in Places : r # p => ticket'[r] = ticket[r]
  BY <1>1, <1>2
<1>6. ~ticket[p].cancelled
  BY <1>1, RowsAre DEF IInv, RowsFit, RowFits
<1>7. TicketsEnd
  <2>1. ticket' = [r \in Places |-> ticket'[r]]
    BY <1>1, <1>2
  <2>2. \A r \in Places : RowEnds(r)
    BY <1>1, <1>4, <1>5, <1>6 DEF RowEnds
  <2> QED
    BY <2>1, <2>2 DEF RevokeTicket, TicketsEnd
<1>8. SoldIsWhatIsBooked' /\ sold' \in Nat
  BY <1>1, <1>4, <1>5, KeepsSold DEF RevokeTicket, IInv, TypeOK
<1>9. GivesBack({p[1]}) /\ UNCHANGED refund
  BY DEF RevokeTicket
<1> QED
  BY <1>1, <1>5, <1>7, <1>8, <1>9, EndingGivesBack

LEMMA CancelUnpaidHolds ==
  ASSUME IInv, NEW o \in Orders, NEW S \in SUBSET PlacesOf(o), CancelUnpaid(o, S)
  PROVE  IInv' /\ Shrinks /\ TicketsEnd
<1>1. /\ \A p \in S : p \in Places /\ p[1] = o /\ Cancellable(p)
      /\ ticket \in [Places -> Row]
  BY OneBooking, RowsAre DEF IInv, RowsFit, CancelUnpaid
<1>2. ticket' = [p \in Places |-> IF p \notin S THEN ticket[p]
                  ELSE [ticket[p] EXCEPT !.status = "REVOKED", !.cancelled = TRUE]]
  BY DEF CancelUnpaid
<1>3. ASSUME NEW p \in S
      PROVE  /\ ticket'[p] \in Row /\ ticket'[p].status = "REVOKED"
             /\ ticket'[p].admitted = ticket[p].admitted /\ ticket'[p].paid = ticket[p].paid
             /\ ticket'[p].cancelled
             /\ ticket[p].status = "VALID" /\ ~ticket[p].cancelled /\ ~ticket[p].paid
  <2>1. /\ ticket[p] \in Row
        /\ ticket'[p] = [ticket[p] EXCEPT !.status = "REVOKED", !.cancelled = TRUE]
    BY <1>1, <1>2
  <2>2. ticket'[p] \in Row
    BY <2>1 DEF Row, TicketStates
  <2>3. ticket[p].status = "VALID" /\ ~ticket[p].cancelled /\ ~ticket[p].paid
    BY <1>1 DEF Cancellable, Unpaid
  <2> QED
    BY <2>1, <2>2, <2>3 DEF Row
<1>4. \A p \in Places : p \notin S => ticket'[p] = ticket[p]
  BY <1>2
<1>5. TicketsEnd
  <2>1. ticket' = [r \in Places |-> ticket'[r]]
    BY <1>2
  <2>2. \A r \in Places : RowEnds(r)
    BY <1>3, <1>4 DEF RowEnds
  <2> QED
    BY <2>1, <2>2 DEF CancelUnpaid, TicketsEnd
<1>6. SoldIsWhatIsBooked' /\ sold' \in Nat
  <2>1. Booked(ticket') = Booked(ticket) \ S
    BY <1>1, <1>3, <1>4 DEF Booked
  <2>2. S \subseteq Booked(ticket)
    BY <1>1, <1>3 DEF Booked
  <2>3. Booked(ticket) \in SUBSET Places /\ S \in SUBSET Places /\ Booked(ticket) \cap S = S
    BY <1>1, <2>2 DEF Booked
  <2>4. IsFiniteSet(Booked(ticket)) /\ Cardinality(Booked(ticket)) \in Nat
    BY <2>3, CountsAreNat
  <2>5. Cardinality(Booked(ticket) \ S) = Cardinality(Booked(ticket)) - Cardinality(S)
    BY <2>3, <2>4, FS_Difference
  <2>6. sold = Cardinality(Booked(ticket)) /\ sold' = sold - Cardinality(S)
    BY DEF CancelUnpaid, IInv, SoldIsWhatIsBooked, Booked
  <2>7. sold' = Cardinality(Booked(ticket'))
    BY <2>1, <2>5, <2>6
  <2>8. Booked(ticket') \in SUBSET Places
    BY DEF Booked
  <2> QED
    BY <2>7, <2>8, CountsAreNat DEF SoldIsWhatIsBooked, Booked
<1>7. GivesBack({o}) /\ UNCHANGED refund
  BY DEF CancelUnpaid
<1>8. \A p \in Places : p[1] # o => ticket'[p] = ticket[p]
  BY <1>1, <1>4
<1> QED
  BY <1>5, <1>6, <1>7, <1>8, EndingGivesBack

LEMMA CancelCommitsHolds ==
  ASSUME IInv, NEW R \in SUBSET cancelling.listed, CancelCommits(R)
  PROVE  IInv' /\ Shrinks
<1> DEFINE paid == {o \in cancelling.listed : order[o] = "PAID"}
<1>1. /\ cancelling.open /\ event = "ON_SALE" /\ event' = "CANCELLED"
      /\ cancelling' = [cancelling EXCEPT !.open = FALSE]
      /\ UNCHANGED <<order, ticket, counted, sold, terms, look>>
      /\ GivesBack(paid) /\ R \cap Coded = {}
  BY DEF CancelCommits, IInv, CancellingFits
<1>2. /\ cancelling' \in [open : BOOLEAN, listed : SUBSET Orders]
      /\ ~cancelling'.open /\ cancelling'.listed = cancelling.listed
  BY <1>1 DEF IInv, TypeOK
<1>3. refund' \in [Orders -> SUBSET Nat] /\ RefundsFit'
  <2>1. refund' = [o \in Orders |-> IF o \in R THEN {Cardinality(LeftOn(o))} ELSE refund[o]]
    BY DEF CancelCommits
  <2>2. \A o \in Orders : LeftOn(o) \in SUBSET Places
    BY OneBooking DEF LeftOn
  <2>3. \A o \in Orders : Cardinality(LeftOn(o)) \in Nat
    BY <2>2, CountsAreNat
  <2> QED
    BY <1>1, <2>1, <2>3 DEF IInv, TypeOK, RefundsFit
<1>4. RowsFit(ticket', order') /\ Waiting' \subseteq Waiting
  BY <1>1, RowsAre DEF IInv, RowsFit, RowFits, Waiting, Unpaid
<1>5. EndsStay
  BY <1>1 DEF EndsStay, Stands
<1>6. SoldIsWhatIsBooked'
  BY <1>1, KeepsSold DEF IInv
<1>7. ASSUME NEW x \in Coded
      PROVE  /\ OrderEndedWithoutUse(x)' =>
                  OrderEndedWithoutUse(x) \/ x \in paid \/ MissedByCancellation(x)'
             /\ MissedByCancellation(x) => MissedByCancellation(x)'
  BY <1>1, <1>2 DEF OrderEndedWithoutUse, MissedByCancellation
<1> HIDE DEF paid
<1> QED
  BY <1>1, <1>2, <1>3, <1>4, <1>5, <1>6, <1>7, GivingBackHolds
    DEF IInv, TypeOK, CancellingFits

----------------------------------------------------------------------------
(* The invariant, and what follows from it                                 *)

LEMMA InitHolds == Init => IInv
<1> SUFFICES ASSUME Init PROVE IInv
  OBVIOUS
<1>1. RowsFit(ticket, order)
  BY VenueAssumption, PlacesAre DEF Init, RowsFit, RowFits, NoTicket, Row, TicketStates
<1>2. look \in [Stewards -> [group : BOOLEAN, night : Nights \cup {NoNight},
                            tickets : SUBSET Places, owing : SUBSET Places,
                            handedOn : 0..MaxHandOns]]
  BY VenueAssumption DEF Init, NoLook
<1>3. terms \in [enabled : BOOLEAN, limit : Nat]
  BY VenueAssumption DEF Init
<1>4. TypeOK
  BY <1>1, <1>2, <1>3, VenueAssumption
    DEF Init, TypeOK, RowsFit, RowFits, Row, OrderStates
<1>5. Booked(ticket) = {} /\ Using(order) = {}
  BY VenueAssumption DEF Init, NoTicket, Booked, Using
<1>6. SoldIsWhatIsBooked
  BY <1>5, FS_EmptySet DEF Init, SoldIsWhatIsBooked, Booked
<1>7. UsesAreCounted
  <2>1. Using(order) \ returned = {}
    BY <1>5
  <2>2. Cardinality(Using(order) \ returned) = 0
    BY <2>1, FS_EmptySet
  <2>3. uses = 0 /\ uses <= MaxUses
    BY VenueAssumption DEF Init
  <2> QED
    BY <2>2, <2>3 DEF UsesAreCounted, Using
<1>8. LooksFit /\ RefundsFit /\ CancellingFits /\ CountFits /\ UseComesBack
  BY VenueAssumption
    DEF Init, LooksFit, RefundsFit, CancellingFits, CountFits, UseComesBack,
        OrderEndedWithoutUse, NoLook
<1> QED
  BY <1>4, <1>6, <1>7, <1>8 DEF IInv

LEMMA StutterHolds == IInv /\ UNCHANGED vars => IInv' /\ Shrinks
<1> SUFFICES ASSUME IInv, UNCHANGED vars PROVE IInv' /\ Shrinks
  OBVIOUS
<1>1. UNCHANGED <<order, counted, ticket, refund, sold, referral, terms, event, cancelling, look>>
  BY DEF vars, referral
<1>2. Quiet /\ CountFits'
  BY <1>1, StillKeeps
<1> QED
  BY <1>1, <1>2, QuietHolds DEF IInv, TypeOK, LooksFit, RefundsFit, CancellingFits

(* Every step is one of these: the actions of Next, one by one.            *)
LEMMA StepHolds ==
  IInv /\ [Next]_vars => IInv' /\ (Shrinks \/ \E o \in Orders : Place(o))
<1> SUFFICES ASSUME IInv, [Next]_vars
             PROVE  IInv' /\ (Shrinks \/ \E o \in Orders : Place(o))
  OBVIOUS
<1>1. ASSUME NEW o \in Orders, PriceCheckout(o) \/ NotPlaced(o)
      PROVE  IInv' /\ (Shrinks \/ \E x \in Orders : Place(x))
  BY <1>1, PriceHolds
<1>2. ASSUME NEW o \in Orders, Count(o) \/ Place(o) \/ Settle(o) \/ NotCompleted(o)
      PROVE  IInv' /\ (Shrinks \/ \E x \in Orders : Place(x))
  BY <1>2, CountHolds, PlaceHolds, SettleHolds, NotCompletedHolds
<1>3. ASSUME NEW o \in Orders, RefundFails(o)
      PROVE  IInv' /\ (Shrinks \/ \E x \in Orders : Place(x))
  <2>1. 0 \in 0..Size[o]
    BY VenueAssumption
  <2> QED
    BY <1>3, <2>1, AskHolds
<1>4. ASSUME NEW o \in Orders, NEW q \in 0..Size[o], AskRefund(o, q)
      PROVE  IInv' /\ (Shrinks \/ \E x \in Orders : Place(x))
  BY <1>4, AskHolds
<1>5. ASSUME NEW o \in Orders, NEW S \in SUBSET PlacesOf(o), CancelUnpaid(o, S) \/ SettleRefund(o, S)
      PROVE  IInv' /\ (Shrinks \/ \E x \in Orders : Place(x))
  BY <1>5, CancelUnpaidHolds, SettleRefundHolds
<1>6. ASSUME NEW p \in Places, HandOn(p) \/ RevokeTicket(p)
      PROVE  IInv' /\ (Shrinks \/ \E x \in Orders : Place(x))
  BY <1>6, HandOnHolds, RevokeHolds
<1>7. ASSUME NEW s \in Stewards, NEW n \in Nights, NEW p \in Places, LookUp(s, p, n)
      PROVE  IInv' /\ (Shrinks \/ \E x \in Orders : Place(x))
  BY <1>7, LookUpHolds
<1>8. ASSUME NEW s \in Stewards, NEW n \in Nights, NEW o \in Orders, LookUpGroup(s, o, n)
      PROVE  IInv' /\ (Shrinks \/ \E x \in Orders : Place(x))
  BY <1>8, LookUpGroupHolds
<1>9. ASSUME NEW s \in Stewards, NEW p \in look[s].tickets, Confirm(s, p)
      PROVE  IInv' /\ (Shrinks \/ \E x \in Orders : Place(x))
  BY <1>9, ConfirmIsDoor, DoorHolds
<1>10. ASSUME NEW s \in Stewards, NEW S \in SUBSET look[s].tickets, ConfirmGroup(s, S)
       PROVE  IInv' /\ (Shrinks \/ \E x \in Orders : Place(x))
  BY <1>10, ConfirmGroupIsDoor, DoorHolds
<1>11. ASSUME NEW s \in Stewards, ReferenceExpires(s)
       PROVE  IInv' /\ (Shrinks \/ \E x \in Orders : Place(x))
  BY <1>11, ExpiresHolds
<1>12. ASSUME NEW enabled \in Switches, NEW limit \in Limits, SetTerms(enabled, limit)
       PROVE  IInv' /\ (Shrinks \/ \E x \in Orders : Place(x))
  BY <1>12, TermsHold
<1>13. ASSUME CancelLists \/ CancelRollsBack
       PROVE  IInv' /\ (Shrinks \/ \E x \in Orders : Place(x))
  BY <1>13, ListsHold
<1>14. ASSUME NEW R \in SUBSET cancelling.listed, CancelCommits(R)
       PROVE  IInv' /\ (Shrinks \/ \E x \in Orders : Place(x))
  BY <1>14, CancelCommitsHolds
<1>15. CASE UNCHANGED vars
  BY <1>15, StutterHolds
<1> QED
  BY <1>1, <1>2, <1>3, <1>4, <1>5, <1>6, <1>7, <1>8, <1>9, <1>10, <1>11, <1>12, <1>13,
     <1>14, <1>15 DEF Next

LEMMA Invariant == Spec => []IInv
BY InitHolds, StepHolds, PTL DEF Spec

(* Every variable keeps its type; nobody pays who was not let in, and a    *)
(* ticket cancelled unpaid never paid.                                     *)
THEOREM Typed == Spec => []TypeOK
<1>1. IInv => TypeOK
  BY DEF IInv
<1> QED
  BY <1>1, Invariant, PTL

(* The places the tier counts are the tickets that were issued and not     *)
(* cancelled unpaid, whatever races the cancellation.                      *)
THEOREM PlacesCounted == Spec => []SoldIsWhatIsBooked
<1>1. IInv => SoldIsWhatIsBooked
  BY DEF IInv
<1> QED
  BY <1>1, Invariant, PTL

(* A code's count is the bookings that hold a use of it.                   *)
THEOREM UsesCounted == Spec => []UsesAreCounted
<1>1. IInv => UsesAreCounted
  BY DEF IInv
<1> QED
  BY <1>1, Invariant, PTL

(* A use comes back once, when its booking ended unused.                   *)
THEOREM UsesComeBack == Spec => []UseComesBack
<1>1. IInv => UseComesBack
  BY DEF IInv
<1> QED
  BY <1>1, Invariant, PTL

(* A booking is placed within the limit counted under the advisory lock,   *)
(* and nothing else makes more tickets wait.                               *)
THEOREM LimitKept == Spec => LimitHolds
<1>1. ASSUME IInv, [Next]_vars
      PROVE  [/\ \A o \in Orders : order[o] = "COUNTED" /\ order'[o] = "PENDING"
                   => Cardinality(Waiting') <= counted[o]
              /\ \A p \in Waiting' \ Waiting : order[p[1]] = "COUNTED"]_vars
  <2>1. CASE Shrinks
    BY <2>1 DEF Shrinks
  <2>2. ASSUME NEW o \in Orders, Place(o)
        PROVE  /\ \A x \in Orders : order[x] = "COUNTED" /\ order'[x] = "PENDING"
                     => Cardinality(Waiting') <= counted[x]
               /\ \A p \in Waiting' \ Waiting : order[p[1]] = "COUNTED"
    <3>1. order[o] = "COUNTED" /\ \A x \in Orders : order[x] = "COUNTED" => x = o
      BY <1>1, <2>2 DEF Place, IInv, CountFits
    <3> QED
      BY <1>1, <2>2, <3>1, PlacedWithinLimit
  <2> QED
    BY <1>1, <2>1, <2>2, StepHolds
<1> QED
  BY <1>1, Invariant, PTL DEF Spec, LimitHolds

----------------------------------------------------------------------------
(* The door keeps its promise                                              *)

Inside == {p \in Places : ticket[p].admitted # {}}

(* Nothing moves but what a standing ticket owed, which may be excused.    *)
LEMMA Excuses ==
  ASSUME UNCHANGED takings, Inside' = Inside,
         \A p \in Places : DueOf(p)' = DueOf(p) \/ (DueOf(p) = "owed" /\ DueOf(p)' = "excused")
  PROVE  [Dues!Next]_(Dues!vars)
<1> DEFINE S == {p \in Places : DueOf(p)' # DueOf(p)}
<1>1. S \in SUBSET Places
  OBVIOUS
<1>2. Dues!Excuse(S)
  BY DEF Dues!Excuse, Inside
<1> QED
  BY <1>1, <1>2 DEF Dues!Next

LEMMA SameRows ==
  ASSUME UNCHANGED <<ticket, takings>>
  PROVE  [Dues!Next]_(Dues!vars)
<1>1. Inside' = Inside /\ \A p \in Places : DueOf(p)' = DueOf(p)
  BY DEF Inside, DueOf, Stands
<1> QED
  BY <1>1, Excuses

LEMMA SettlingIssues ==
  ASSUME IInv, NEW o \in Orders, Settle(o)
  PROVE  [Dues!Next]_(Dues!vars)
<1>1. ticket' = [p \in Places |-> IF p \in PlacesOf(o) THEN Issued ELSE ticket[p]]
  BY DEF Settle
<1>2. UNCHANGED takings /\ order[o] = "PENDING" /\ PlacesOf(o) \in SUBSET Places
  BY OneBooking DEF Settle
<1>3. \A p \in PlacesOf(o) : ticket[p] = NoTicket
  BY <1>2, OneBooking DEF IInv, TypeOK
<1>4. Issued.status = "VALID" /\ Issued.admitted = {} /\ ~Issued.paid
  BY DEF Issued, NoTicket
<1>5. NoTicket.status = "NONE" /\ NoTicket.admitted = {}
  BY DEF NoTicket
<1>6. \A p \in Places : Share(p) \in Nat
  BY SharesAreFew
<1>7. ASSUME NEW p \in PlacesOf(o)
      PROVE  /\ DueOf(p) = "none"
             /\ DueOf(p)' = IF p \in {r \in Places : Share(r) > 0} THEN "owed" ELSE "nothing"
  <2>1. ticket[p].status = "NONE" /\ ticket'[p] = Issued /\ p \in Places
    BY <1>1, <1>2, <1>3, <1>5
  <2> QED
    BY <1>4, <1>6, <2>1 DEF DueOf, Stands
<1>8. ASSUME NEW p \in Places, p \notin PlacesOf(o)
      PROVE  DueOf(p)' = DueOf(p)
  <2>1. ticket'[p] = ticket[p]
    BY <1>1, <1>8
  <2> QED
    BY <2>1 DEF DueOf, Stands
<1>9. Inside' = Inside
  BY <1>1, <1>3, <1>4, <1>5 DEF Inside
<1>10. Dues!Issue(PlacesOf(o))
  BY <1>2, <1>7, <1>8, <1>9 DEF Dues!Issue, Inside
<1> QED
  BY <1>2, <1>10 DEF Dues!Next

LEMMA DoorLetsIn ==
  ASSUME IInv, NEW S, NEW n, DoorStep(S, n),
         takings' = takings + Due({r \in S : Unpaid(r)})
  PROVE  [Dues!Next]_(Dues!vars)
<1>1. \A p \in Places : Share(p) \in Nat
  BY SharesAreFew
<1>2. S \in SUBSET Places
  BY DEF DoorStep
<1>3. ASSUME NEW p \in S
      PROVE  /\ (DueOf(p) = "owed") <=> Unpaid(p)
             /\ DueOf(p) \in {"owed", "paid", "nothing"}
             /\ DueOf(p)' = IF DueOf(p) = "owed" THEN "paid" ELSE DueOf(p)
  <2>1. ticket[p].status = "VALID" /\ p \in Places
    BY DoorRow
  <2>2. ticket'[p].status \in {"VALID", "CHECKED_IN"} /\ (ticket'[p].paid <=> (Share(p) > 0))
    BY DoorRow
  <2> QED
    BY <1>1, <2>1, <2>2 DEF DueOf, Unpaid, Stands
<1>4. ASSUME NEW p \in Places, p \notin S
      PROVE  DueOf(p)' = DueOf(p)
  BY <1>4, DoorOthers DEF DueOf, Stands
<1>5. Inside' = Inside \cup S
  <2>1. \A p \in S : ticket'[p].admitted # {} /\ p \in Places
    BY DoorRow
  <2>2. \A p \in Places : p \notin S => ticket'[p] = ticket[p]
    BY DoorOthers
  <2> QED
    BY <2>1, <2>2 DEF Inside
<1>6. {r \in S : Unpaid(r)} = {p \in S : [r \in Places |-> DueOf(r)][p] = "owed"}
  BY <1>2, <1>3
<1>7. Dues!LetIn(S)
  BY <1>2, <1>3, <1>4, <1>5, <1>6 DEF Dues!LetIn, Inside
<1> QED
  BY <1>2, <1>7 DEF Dues!Next

LEMMA EndingExcuses ==
  ASSUME IInv, TicketsEnd, UNCHANGED takings
  PROVE  [Dues!Next]_(Dues!vars)
<1>1. ASSUME NEW p \in Places
      PROVE  /\ DueOf(p)' = DueOf(p) \/ (DueOf(p) = "owed" /\ DueOf(p)' = "excused")
             /\ ticket'[p].admitted = ticket[p].admitted
  <2>1. RowEnds(p)
    BY DEF TicketsEnd
  <2> QED
    BY <2>1 DEF RowEnds, DueOf, Stands
<1>2. Inside' = Inside
  BY <1>1 DEF Inside
<1> QED
  BY <1>1, <1>2, Excuses

LEMMA StepKeepsPromise == IInv /\ [Next]_vars => [Dues!Next]_(Dues!vars)
<1> SUFFICES ASSUME IInv, [Next]_vars
             PROVE  [Dues!Next]_(Dues!vars)
  OBVIOUS
<1>1. ASSUME NEW o \in Orders,
             PriceCheckout(o) \/ Count(o) \/ Place(o) \/ NotPlaced(o) \/ NotCompleted(o)
               \/ RefundFails(o) \/ \E q \in 0..Size[o] : AskRefund(o, q)
      PROVE  UNCHANGED <<ticket, takings>>
  BY <1>1 DEF PriceCheckout, Count, Place, NotPlaced, NotCompleted, RefundFails, AskRefund
<1>2. ASSUME NEW o \in Orders, Settle(o)
      PROVE  [Dues!Next]_(Dues!vars)
  BY <1>2, SettlingIssues
<1>3. ASSUME NEW o \in Orders, NEW S \in SUBSET PlacesOf(o), CancelUnpaid(o, S) \/ SettleRefund(o, S)
      PROVE  [Dues!Next]_(Dues!vars)
  <2>1. UNCHANGED takings
    BY <1>3 DEF CancelUnpaid, SettleRefund
  <2> QED
    BY <1>3, <2>1, CancelUnpaidHolds, SettleRefundHolds, EndingExcuses
<1>4. ASSUME NEW p \in Places, HandOn(p) \/ RevokeTicket(p)
      PROVE  [Dues!Next]_(Dues!vars)
  <2>1. UNCHANGED takings
    BY <1>4 DEF HandOn, RevokeTicket
  <2> QED
    BY <1>4, <2>1, HandOnHolds, RevokeHolds, EndingExcuses
<1>5. ASSUME NEW s \in Stewards,
             \/ \E n \in Nights, p \in Places : LookUp(s, p, n)
             \/ \E n \in Nights, o \in Orders : LookUpGroup(s, o, n)
             \/ ReferenceExpires(s)
      PROVE  UNCHANGED <<ticket, takings>>
  BY <1>5 DEF LookUp, LookUpGroup, ReferenceExpires
<1>6. ASSUME NEW s \in Stewards, NEW p \in look[s].tickets, Confirm(s, p)
      PROVE  [Dues!Next]_(Dues!vars)
  BY <1>6, ConfirmIsDoor, DoorLetsIn
<1>7. ASSUME NEW s \in Stewards, NEW S \in SUBSET look[s].tickets, ConfirmGroup(s, S)
      PROVE  [Dues!Next]_(Dues!vars)
  BY <1>7, ConfirmGroupIsDoor, DoorLetsIn
<1>8. ASSUME \/ \E enabled \in Switches, limit \in Limits : SetTerms(enabled, limit)
             \/ CancelLists \/ CancelRollsBack
             \/ \E R \in SUBSET cancelling.listed : CancelCommits(R)
      PROVE  UNCHANGED <<ticket, takings>>
  BY <1>8 DEF SetTerms, CancelLists, CancelRollsBack, CancelCommits
<1>9. CASE UNCHANGED vars
  BY <1>9, SameRows DEF vars
<1> QED
  BY <1>1, <1>2, <1>3, <1>4, <1>5, <1>6, <1>7, <1>8, <1>9, SameRows DEF Next

(* The door takes each price once, whole, when the ticket is first let in, *)
(* and never from a ticket that was excused.                               *)
THEOREM Implements == Spec => ImplementsDues
<1>1. Init => Dues!Init
  BY DEF Init, Dues!Init, DueOf, NoTicket
<1> QED
  BY <1>1, Invariant, StepKeepsPromise, PTL DEF Spec, ImplementsDues, Dues!Spec
=============================================================================
