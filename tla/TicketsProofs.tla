---------------------------- MODULE TicketsProofs ----------------------------
(***************************************************************************)
(* For every number of tickets, nights, offers and requests: an offer and  *)
(* its ticket agree, nothing stands that was withdrawn, refunds count what *)
(* they take, and the rows behave as Attendance says.                      *)
(*                                                                         *)
(* Each step is seen twice: as what it does to the rows of Ticket (nothing *)
(* that counts, admissions, an end, or a successor), from which RowsFit    *)
(* and the step of Attendance follow, and as what it does to the rows that *)
(* speak of tickets: offers, requests and the settlement.                  *)
(***************************************************************************)
EXTENDS Tickets, FiniteSetTheorems, TLAPS

RowType == [status : TICKET_STATES, place : Places \cup {NoPlace}, admitted : SUBSET Nights]
Current(f, t) == f[t].status \notin {"NONE", "TRANSFERRED"}
Stands == ADMISSIBLE_STATES \cup {"CHECKED_IN"}

(* Each place has one current row, and only a current row was let in. *)
RowsFit(f) ==
  /\ f \in [Tickets -> RowType]
  /\ \A t \in Tickets : (f[t].status = "NONE") <=> (f[t].place = NoPlace)
  /\ \A t \in Tickets : f[t].admitted # {} => Current(f, t)
  /\ \A p \in Places : \E t \in Tickets : f[t].place = p /\ Current(f, t)
  /\ \A t, u \in Tickets :
       Current(f, t) /\ Current(f, u) /\ f[t].place = f[u].place => t = u

OffersFit == \A o \in Offers : offer[o].status # "NONE" => offer[o].ticket \in Tickets

(* What a request read stays true of what cannot change: which ticket its  *)
(* offer is of.                                                            *)
RequestsFit ==
  \A q \in Requests : request[q].kind # "none" =>
    /\ request[q].ticket \in Tickets
    /\ request[q].kind = "offer" => request[q].read = "VALID"
    /\ request[q].kind = "revoke" => request[q].read \in ADMISSIBLE_STATES
    /\ request[q].kind \in {"accept", "end"} =>
         /\ request[q].read = "TRANSFER_PENDING"
         /\ request[q].offer \in Offers
         /\ offer[request[q].offer].status # "NONE"
         /\ offer[request[q].offer].ticket = request[q].ticket

(* What a settlement read is still settleable when it writes. *)
SettlementFits ==
  settling.open => \A t \in settling.taken : Settleable(t, settling.owed)

IInv ==
  /\ TypeOK
  /\ RowsFit(ticket)
  /\ OffersFit
  /\ OfferMatchesTicket
  /\ RequestsFit
  /\ NothingStandsWithdrawn
  /\ SettlementFits
  /\ RefundsTakeWhatTheyCount

----------------------------------------------------------------------------
(* The pass of each place, read off any rows                               *)

PassIn(f, p) ==
  CHOOSE t \in {t \in Tickets : f[t].status # "NONE" /\ f[t].place = p} :
    f[t].status # "TRANSFERRED"
StandIn(f) ==
  {p \in Places : \E t \in {t \in Tickets : f[t].status # "NONE" /\ f[t].place = p} :
     f[t].status \in Stands}
SpentIn(f) == {t \in Tickets : f[t].status = "TRANSFERRED"}
EnteredIn(f, p) ==
  UNION {f[t].admitted : t \in {t \in Tickets : f[t].status # "NONE" /\ f[t].place = p}}

Mapped == <<StandingPlaces, [p \in Places |-> PassOf(p)],
            {t \in Tickets : Status(t) = "TRANSFERRED"},
            [p \in Places |-> UNION {ticket[t].admitted : t \in RowsOf(p)}]>>

LEMMA MappedIs ==
  /\ StandingPlaces = StandIn(ticket)
  /\ [p \in Places |-> PassOf(p)] = [p \in Places |-> PassIn(ticket, p)]
  /\ {t \in Tickets : Status(t) = "TRANSFERRED"} = SpentIn(ticket)
  /\ [p \in Places |-> UNION {ticket[t].admitted : t \in RowsOf(p)}]
       = [p \in Places |-> EnteredIn(ticket, p)]
BY DEF StandingPlaces, StandIn, PassOf, PassIn, RowsOf, SpentIn, EnteredIn, Status, Stands

LEMMA MappedWillBe ==
  /\ StandingPlaces' = StandIn(ticket')
  /\ [p \in Places |-> PassOf(p)]' = [p \in Places |-> PassIn(ticket', p)]
  /\ {t \in Tickets : Status(t) = "TRANSFERRED"}' = SpentIn(ticket')
  /\ [p \in Places |-> UNION {ticket[t].admitted : t \in RowsOf(p)}]'
       = [p \in Places |-> EnteredIn(ticket', p)]
BY DEF StandingPlaces, StandIn, PassOf, PassIn, RowsOf, SpentIn, EnteredIn, Status, Stands

(* The current row of a place says everything about it. *)
LEMMA PlaceIs ==
  ASSUME NEW f, RowsFit(f), NEW t \in Tickets, Current(f, t)
  PROVE  /\ f[t].place \in Places
         /\ PassIn(f, f[t].place) = t
         /\ (f[t].place \in StandIn(f)) <=> (f[t].status \in Stands)
         /\ EnteredIn(f, f[t].place) = f[t].admitted
<1> DEFINE p == f[t].place
           rows == {u \in Tickets : f[u].status # "NONE" /\ f[u].place = p}
<1>1. p \in Places
  BY DEF RowsFit, RowType, Current
<1>2. \A u \in rows : u # t => f[u].status = "TRANSFERRED" /\ f[u].admitted = {}
  BY DEF RowsFit, Current
<1>3. t \in rows /\ f[t].status # "TRANSFERRED"
  BY DEF Current
<1>4. PassIn(f, p) = t
  BY <1>2, <1>3 DEF PassIn
<1>5. (p \in StandIn(f)) <=> (f[t].status \in Stands)
  BY <1>1, <1>2, <1>3 DEF StandIn, Stands, ADMISSIBLE_STATES
<1>6. EnteredIn(f, p) = f[t].admitted
  <2>1. \A n \in EnteredIn(f, p) : n \in f[t].admitted
    BY <1>2 DEF EnteredIn
  <2>2. \A n \in f[t].admitted : n \in EnteredIn(f, p)
    BY <1>3 DEF EnteredIn
  <2>. QED
    BY <2>1, <2>2
<1>. QED
  BY <1>1, <1>4, <1>5, <1>6

----------------------------------------------------------------------------
(* What a step does to the rows of Ticket, and what Attendance sees of it  *)

(* Rows keep their place, their being current, and admit only as current.  *)
SameRows(f, g) ==
  \A t \in Tickets :
    /\ g[t].place = f[t].place
    /\ (g[t].status = "NONE") <=> (f[t].status = "NONE")
    /\ (g[t].status = "TRANSFERRED") <=> (f[t].status = "TRANSFERRED")
    /\ g[t].admitted # f[t].admitted => Current(f, t)

LEMMA SameRowsFit ==
  ASSUME NEW f, RowsFit(f), NEW g \in [Tickets -> RowType], SameRows(f, g)
  PROVE  /\ RowsFit(g)
         /\ \A p \in Places : PassIn(g, p) = PassIn(f, p)
         /\ SpentIn(g) = SpentIn(f)
         /\ \A p \in Places : \E t \in Tickets :
              /\ f[t].place = p /\ Current(f, t)
              /\ EnteredIn(f, p) = f[t].admitted
              /\ EnteredIn(g, p) = g[t].admitted
<1>1. \A t \in Tickets : Current(g, t) <=> Current(f, t)
  BY DEF SameRows, Current
<1>2. RowsFit(g)
  <2>1. \A t \in Tickets : (g[t].status = "NONE") <=> (g[t].place = NoPlace)
    BY DEF SameRows, RowsFit
  <2>2. \A t \in Tickets : g[t].admitted # {} => Current(g, t)
    BY <1>1 DEF SameRows, RowsFit
  <2>3. \A p \in Places : \E t \in Tickets : g[t].place = p /\ Current(g, t)
    BY <1>1 DEF SameRows, RowsFit
  <2>4. \A t, u \in Tickets :
          Current(g, t) /\ Current(g, u) /\ g[t].place = g[u].place => t = u
    BY <1>1 DEF SameRows, RowsFit
  <2>. QED
    BY <2>1, <2>2, <2>3, <2>4 DEF RowsFit
<1>3. ASSUME NEW p \in Places
      PROVE  /\ PassIn(g, p) = PassIn(f, p)
             /\ \E t \in Tickets :
                  /\ f[t].place = p /\ Current(f, t)
                  /\ EnteredIn(f, p) = f[t].admitted
                  /\ EnteredIn(g, p) = g[t].admitted
  <2>1. PICK t \in Tickets : f[t].place = p /\ Current(f, t)
    BY DEF RowsFit
  <2>2. PassIn(f, p) = t /\ EnteredIn(f, p) = f[t].admitted
    BY <2>1, PlaceIs
  <2>3. Current(g, t) /\ g[t].place = p
    BY <1>1, <2>1 DEF SameRows
  <2>4. PassIn(g, p) = t /\ EnteredIn(g, p) = g[t].admitted
    BY <1>2, <2>3, PlaceIs
  <2>. QED
    BY <2>1, <2>2, <2>4
<1>4. SpentIn(g) = SpentIn(f)
  BY DEF SameRows, SpentIn
<1>. QED
  BY <1>2, <1>3, <1>4

(* Offers come and go without Attendance noticing. *)
LEMMA QuietRows ==
  ASSUME RowsFit(ticket), ticket' \in [Tickets -> RowType], SameRows(ticket, ticket'),
         \A t \in Tickets :
           /\ ticket'[t].admitted = ticket[t].admitted
           /\ (ticket'[t].status \in Stands) <=> (ticket[t].status \in Stands)
  PROVE  RowsFit(ticket') /\ UNCHANGED Mapped
<1>1. /\ RowsFit(ticket')
      /\ \A p \in Places : PassIn(ticket', p) = PassIn(ticket, p)
      /\ SpentIn(ticket') = SpentIn(ticket)
  BY SameRowsFit
<1>2. StandIn(ticket') = StandIn(ticket)
  BY DEF StandIn, SameRows, Stands
<1>3. \A p \in Places : EnteredIn(ticket', p) = EnteredIn(ticket, p)
  BY SameRowsFit
<1>. QED
  BY <1>1, <1>2, <1>3, MappedIs, MappedWillBe DEF Mapped

(* Tickets that stood, or were withdrawn, are taken back for good. *)
LEMMA EndRows ==
  ASSUME RowsFit(ticket), ticket' \in [Tickets -> RowType], SameRows(ticket, ticket'),
         \A t \in Tickets :
           /\ ticket'[t].admitted = ticket[t].admitted
           /\ ticket'[t].status \in Stands => ticket[t].status \in Stands
  PROVE  RowsFit(ticket') /\ Attendance!Next
<1>1. /\ RowsFit(ticket')
      /\ \A p \in Places : PassIn(ticket', p) = PassIn(ticket, p)
      /\ SpentIn(ticket') = SpentIn(ticket)
  BY SameRowsFit
<1>2. StandIn(ticket') \subseteq StandIn(ticket)
  BY DEF StandIn, SameRows, Stands
<1>3. \A p \in Places : EnteredIn(ticket', p) = EnteredIn(ticket, p)
  BY SameRowsFit
<1> DEFINE S == StandIn(ticket) \ StandIn(ticket')
<1>4. S \in SUBSET Places /\ StandIn(ticket') = StandIn(ticket) \ S
  BY <1>2 DEF StandIn
<1>5. Attendance!End(S)
  BY <1>1, <1>3, <1>4, MappedIs, MappedWillBe DEF Attendance!End
<1>. QED
  BY <1>1, <1>4, <1>5 DEF Attendance!Next

(* The tickets of S let in on night n. *)
LEMMA AdmitRows ==
  ASSUME RowsFit(ticket), ticket' \in [Tickets -> RowType], SameRows(ticket, ticket'),
         NEW S \in SUBSET Tickets, NEW n \in Nights,
         \A t \in S : MayEnter(t, n),
         \A t \in Tickets :
           /\ ticket'[t].admitted = IF t \in S THEN ticket[t].admitted \cup {n}
                                    ELSE ticket[t].admitted
           /\ (ticket'[t].status \in Stands) <=> (ticket[t].status \in Stands)
  PROVE  RowsFit(ticket') /\ Attendance!Next
<1>1. /\ RowsFit(ticket')
      /\ \A p \in Places : PassIn(ticket', p) = PassIn(ticket, p)
      /\ SpentIn(ticket') = SpentIn(ticket)
  BY SameRowsFit
<1>2. StandIn(ticket') = StandIn(ticket)
  BY DEF StandIn, SameRows, Stands
<1> DEFINE P == {ticket[t].place : t \in S}
<1>3. \A t \in S : Current(ticket, t) /\ ticket[t].status \in Stands
  BY DEF MayEnter, Standing, Status, ADMISSIBLE_STATES, Stands, Current
<1>4. \A t \in S :
        /\ ticket[t].place \in StandIn(ticket)
        /\ Own[ticket[t].place] \in {n, NoNight}
        /\ n \notin EnteredIn(ticket, ticket[t].place)
  BY <1>3, PlaceIs DEF MayEnter
<1>5. /\ P \in SUBSET Places
      /\ P \subseteq StandIn(ticket)
      /\ \A p \in P : Own[p] \in {n, NoNight} /\ n \notin EnteredIn(ticket, p)
  BY <1>4 DEF StandIn
<1>6. ASSUME NEW p \in Places
      PROVE  EnteredIn(ticket', p) = IF p \in P THEN EnteredIn(ticket, p) \cup {n}
                                     ELSE EnteredIn(ticket, p)
  <2>1. PICK t \in Tickets : ticket[t].place = p /\ Current(ticket, t)
    BY DEF RowsFit
  <2>2. EnteredIn(ticket, p) = ticket[t].admitted
    BY <2>1, PlaceIs
  <2>3. ticket'[t].place = p /\ Current(ticket', t)
    BY <2>1 DEF SameRows, Current
  <2>4. EnteredIn(ticket', p) = ticket'[t].admitted
    BY <1>1, <2>3, PlaceIs
  <2>5. p \in P <=> t \in S
    BY <1>3, <2>1 DEF RowsFit
  <2>. QED
    BY <2>2, <2>4, <2>5
<1> HIDE DEF P
<1>7. [p \in Places |-> EnteredIn(ticket', p)] =
        [p \in Places |-> IF p \in P THEN [r \in Places |-> EnteredIn(ticket, r)][p] \cup {n}
                                     ELSE [r \in Places |-> EnteredIn(ticket, r)][p]]
  BY <1>6
<1>8. \A p \in P : n \notin [r \in Places |-> EnteredIn(ticket, r)][p]
  BY <1>5
<1>9. Attendance!LetIn(P, n)
  BY <1>1, <1>2, <1>5, <1>7, <1>8, MappedIs, MappedWillBe DEF Attendance!LetIn
<1>. QED
  BY <1>1, <1>5, <1>9 DEF Attendance!Next

(* A ticket is handed on: its successor is the pass of its place from now. *)
LEMMA HandOnRows ==
  ASSUME TypeOK, RowsFit(ticket), NEW t \in Tickets, NEW s \in Tickets,
         Status(t) \in Stands, Status(s) = "NONE", ~AdmittedAlready(t),
         ticket' = [ticket EXCEPT ![t].status = "TRANSFERRED", ![s] = Successor(t)]
  PROVE  RowsFit(ticket') /\ Attendance!Next
<1> DEFINE p == ticket[t].place
<1>1. /\ t # s /\ Current(ticket, t) /\ p \in Places
      /\ PassIn(ticket, p) = t /\ p \in StandIn(ticket) /\ EnteredIn(ticket, p) = {}
  BY PlaceIs DEF Stands, ADMISSIBLE_STATES, Status, Current, AdmittedAlready
<1>2. /\ DOMAIN ticket' = Tickets /\ ticket' = [u \in Tickets |-> ticket'[u]]
      /\ ticket'[t] = [ticket[t] EXCEPT !.status = "TRANSFERRED"]
      /\ ticket'[s] = [status |-> "VALID", place |-> p, admitted |-> {}]
      /\ \A u \in Tickets \ {t, s} : ticket'[u] = ticket[u]
  BY <1>1 DEF RowsFit, Successor, NewRow
<1>3. /\ ticket'[t].status = "TRANSFERRED" /\ ticket'[t].place = p
      /\ ticket'[t].admitted = {} /\ ticket'[t] \in RowType
  BY <1>2 DEF RowsFit, RowType, AdmittedAlready, TICKET_STATES
<1>4. /\ ticket'[s].status = "VALID" /\ ticket'[s].place = p
      /\ ticket'[s].admitted = {} /\ ticket'[s] \in RowType
  BY <1>1, <1>2 DEF RowType, TICKET_STATES
<1>5. ticket' \in [Tickets -> RowType]
  BY <1>2, <1>3, <1>4 DEF RowsFit
<1>6. \A u \in Tickets \ {t, s} : Current(ticket', u) <=> Current(ticket, u)
  BY <1>2 DEF Current
<1>7. Current(ticket', s) /\ ~Current(ticket', t) /\ ~Current(ticket, s)
  BY <1>3, <1>4 DEF Current, Status
<1>8. RowsFit(ticket')
  <2>1. \A u \in Tickets : (ticket'[u].status = "NONE") <=> (ticket'[u].place = NoPlace)
    BY <1>1, <1>2, <1>3, <1>4, TicketsAssumption DEF RowsFit
  <2>2. \A u \in Tickets : ticket'[u].admitted # {} => Current(ticket', u)
    BY <1>2, <1>3, <1>4, <1>6 DEF RowsFit
  <2>3. ASSUME NEW r \in Places
        PROVE  \E u \in Tickets : ticket'[u].place = r /\ Current(ticket', u)
    <3>1. CASE r = p
      BY <1>4, <1>7, <3>1
    <3>2. CASE r # p
      <4>1. PICK u \in Tickets : ticket[u].place = r /\ Current(ticket, u)
        BY DEF RowsFit
      <4>2. u \in Tickets \ {t, s}
        BY <1>7, <3>2, <4>1
      <4>. QED
        BY <1>2, <1>6, <4>1, <4>2
    <3>. QED
      BY <3>1, <3>2
  <2>4. ASSUME NEW u \in Tickets, NEW v \in Tickets, Current(ticket', u), Current(ticket', v),
               ticket'[u].place = ticket'[v].place
        PROVE  u = v
    <3>1. \A w \in Tickets \ {t, s} :
            Current(ticket', w) => /\ Current(ticket, w) /\ ticket'[w] = ticket[w]
                                   /\ ticket'[w].place # p
      BY <1>1, <1>2, <1>6 DEF RowsFit
    <3>2. u # t /\ v # t
      BY <1>7, <2>4
    <3>3. u = s <=> v = s
      BY <1>4, <2>4, <3>1, <3>2
    <3>4. CASE u # s
      BY <2>4, <3>1, <3>2, <3>3, <3>4 DEF RowsFit
    <3>. QED
      BY <3>3, <3>4
  <2>. QED
    BY <1>5, <2>1, <2>2, <2>3, <2>4 DEF RowsFit
<1>9. StandIn(ticket') = StandIn(ticket) /\ s \notin SpentIn(ticket)
      /\ SpentIn(ticket') = SpentIn(ticket) \cup {t}
  <2>1. \A r \in Places : r \in StandIn(ticket') <=> r \in StandIn(ticket)
    <3>1. p \in StandIn(ticket')
      BY <1>1, <1>4, <1>7, <1>8, PlaceIs DEF Stands, ADMISSIBLE_STATES
    <3>2. ASSUME NEW r \in Places \ {p}
          PROVE  r \in StandIn(ticket') <=> r \in StandIn(ticket)
      <4>1. PICK u \in Tickets : ticket[u].place = r /\ Current(ticket, u)
        BY DEF RowsFit
      <4>2. u \in Tickets \ {t, s}
        BY <1>7, <4>1
      <4>3. ticket'[u] = ticket[u] /\ Current(ticket', u)
        BY <1>2, <1>6, <4>1, <4>2
      <4>4. r \in StandIn(ticket) <=> ticket[u].status \in Stands
        BY <4>1, PlaceIs
      <4>5. r \in StandIn(ticket') <=> ticket'[u].status \in Stands
        BY <1>8, <4>1, <4>3, PlaceIs
      <4>. QED
        BY <4>3, <4>4, <4>5
    <3>. QED
      BY <1>1, <3>1, <3>2
  <2>. QED
    BY <1>1, <1>2, <1>3, <1>4, <2>1 DEF StandIn, SpentIn, Status
<1>10. ASSUME NEW r \in Places
       PROVE  /\ PassIn(ticket', r) = IF r = p THEN s ELSE PassIn(ticket, r)
              /\ EnteredIn(ticket', r) = EnteredIn(ticket, r)
              /\ PassIn(ticket, r) # s
  <2>1. PICK u \in Tickets : ticket[u].place = r /\ Current(ticket, u)
    BY DEF RowsFit
  <2>2. PassIn(ticket, r) = u /\ EnteredIn(ticket, r) = ticket[u].admitted /\ u # s
    BY <1>7, <2>1, PlaceIs
  <2>3. CASE r = p
    <3>1. /\ PassIn(ticket', ticket'[s].place) = s
          /\ EnteredIn(ticket', ticket'[s].place) = ticket'[s].admitted
      BY <1>7, <1>8, PlaceIs, ZenonT(60)
    <3>2. PassIn(ticket', p) = s /\ EnteredIn(ticket', p) = {}
      BY <1>4, <1>7, <3>1
    <3>. QED
      BY <1>1, <2>2, <2>3, <3>2
  <2>4. CASE r # p
    <3>1. ticket'[u] = ticket[u] /\ Current(ticket', u)
      BY <1>2, <1>6, <2>1, <2>2, <2>4
    <3>2. /\ PassIn(ticket', ticket'[u].place) = u
          /\ EnteredIn(ticket', ticket'[u].place) = ticket'[u].admitted
      BY <1>8, <3>1, PlaceIs, ZenonT(60)
    <3>3. PassIn(ticket', r) = u /\ EnteredIn(ticket', r) = ticket[u].admitted
      BY <2>1, <3>1, <3>2
    <3>. QED
      BY <2>2, <2>4, <3>3
  <2>. QED
    BY <2>3, <2>4
<1> HIDE DEF p
<1> DEFINE pass == [r \in Places |-> PassIn(ticket, r)]
           letIn == [r \in Places |-> EnteredIn(ticket, r)]
<1>11. [r \in Places |-> PassIn(ticket', r)] = [pass EXCEPT ![p] = s]
  BY <1>10
<1>12. /\ [r \in Places |-> EnteredIn(ticket', r)] = letIn
       /\ letIn[p] = {} /\ pass[p] = t /\ \A r \in Places : pass[r] # s
  BY <1>1, <1>10
<1> HIDE DEF pass, letIn
<1>13. Attendance!HandOn(p, s)
  BY <1>1, <1>9, <1>11, <1>12, MappedIs, MappedWillBe DEF Attendance!HandOn, pass, letIn
<1>. QED
  BY <1>1, <1>8, <1>13 DEF Attendance!Next

----------------------------------------------------------------------------
(* What a step does to offers, requests and counts                         *)

OfferType == [status : OfferStates, ticket : Tickets \cup {NoTicket}]
RequestType == [kind : Kinds, ticket : Tickets \cup {NoTicket}, offer : Offers \cup {NoOffer},
                read : TICKET_STATES]
SettlingType == [open : BOOLEAN, owed : BOOLEAN, taken : SUBSET Tickets]

(* Offers keep the ticket they are of. *)
OffersKeep ==
  /\ offer' \in [Offers -> OfferType]
  /\ OffersFit'
  /\ \A o \in Offers : offer[o].status # "NONE" =>
       offer'[o].status # "NONE" /\ offer'[o].ticket = offer[o].ticket

LEMMA TypeNext ==
  ASSUME RowsFit(ticket'), offer' \in [Offers -> OfferType],
         request' \in [Requests -> RequestType], settling' \in SettlingType,
         refunded' \in Nat, event' \in {"ON_SALE", "DELETED"}, cancelled' \in SUBSET Nights
  PROVE  TypeOK'
BY DEF TypeOK, RowsFit, RowType, OfferType, RequestType, SettlingType, Status

LEMMA TypeNow ==
  ASSUME IInv
  PROVE  /\ ticket \in [Tickets -> RowType] /\ offer \in [Offers -> OfferType]
         /\ request \in [Requests -> RequestType] /\ settling \in SettlingType
         /\ refunded \in Nat /\ event \in {"ON_SALE", "DELETED"}
         /\ cancelled \in SUBSET Nights
BY DEF IInv, TypeOK, RowType, OfferType, RequestType, SettlingType

LEMMA OffersStay == ASSUME IInv, UNCHANGED offer PROVE OffersKeep
BY TypeNow DEF OffersKeep, OffersFit, IInv

LEMMA RequestsStay ==
  ASSUME IInv, OffersKeep, UNCHANGED request
  PROVE  RequestsFit' /\ request' \in [Requests -> RequestType]
BY TypeNow DEF IInv, RequestsFit, OffersKeep

LEMMA RequestAnswered ==
  ASSUME IInv, OffersKeep, NEW q \in Requests, Answered(q)
  PROVE  RequestsFit' /\ request' \in [Requests -> RequestType]
<1>1. Idle \in RequestType /\ Idle.kind = "none"
  BY DEF Idle, RequestType, Kinds, TICKET_STATES
<1>. QED
  BY <1>1, TypeNow DEF IInv, RequestsFit, OffersKeep, Answered

LEMMA RequestMade ==
  ASSUME IInv, OffersKeep, NEW q \in Requests, NEW kind \in Kinds, NEW t \in Tickets,
         NEW o \in Offers \cup {NoOffer}, NEW read \in TICKET_STATES,
         request' = [request EXCEPT ![q] = Asks(kind, t, o, read)],
         kind = "offer" => read = "VALID",
         kind = "revoke" => read \in ADMISSIBLE_STATES,
         kind \in {"accept", "end"} =>
           /\ read = "TRANSFER_PENDING"
           /\ o \in Offers /\ offer'[o].status # "NONE" /\ offer'[o].ticket = t
  PROVE  RequestsFit' /\ request' \in [Requests -> RequestType]
<1>1. /\ Asks(kind, t, o, read) \in RequestType
      /\ Asks(kind, t, o, read).kind = kind /\ Asks(kind, t, o, read).ticket = t
      /\ Asks(kind, t, o, read).offer = o /\ Asks(kind, t, o, read).read = read
  BY DEF Asks, RequestType
<1>2. /\ request' \in [Requests -> RequestType]
      /\ request'[q] = Asks(kind, t, o, read)
      /\ \A r \in Requests \ {q} : request'[r] = request[r]
  BY <1>1, TypeNow
<1>. QED
  BY <1>1, <1>2 DEF IInv, RequestsFit, OffersKeep

LEMMA SameCount ==
  ASSUME IInv, UNCHANGED refunded,
         \A t \in Tickets :
           (ticket'[t].status = "REFUNDED") <=> (ticket[t].status = "REFUNDED")
  PROVE  RefundsTakeWhatTheyCount'
<1>1. {t \in Tickets : ticket'[t].status = "REFUNDED"}
        = {t \in Tickets : ticket[t].status = "REFUNDED"}
  OBVIOUS
<1>. QED
  BY <1>1 DEF IInv, RefundsTakeWhatTheyCount, Status

(* Only the status of some tickets moves, to one and the same. *)
Moved(S, to) ==
  /\ ticket' \in [Tickets -> RowType]
  /\ \A t \in Tickets :
       /\ ticket'[t].place = ticket[t].place
       /\ ticket'[t].admitted = ticket[t].admitted
       /\ ticket'[t].status = IF t \in S THEN to ELSE ticket[t].status

LEMMA StatusesMove ==
  ASSUME IInv, NEW S \in SUBSET Tickets, NEW to \in TICKET_STATES,
         ticket' = [t \in Tickets |-> IF t \in S THEN [ticket[t] EXCEPT !.status = to]
                                      ELSE ticket[t]]
  PROVE  Moved(S, to)
<1>1. \A t \in Tickets : ticket[t] \in RowType
  BY TypeNow
<1>. QED
  BY <1>1 DEF Moved, RowType

LEMMA OneStatusMoves ==
  ASSUME IInv, NEW t \in Tickets, NEW to \in TICKET_STATES,
         ticket' = [ticket EXCEPT ![t].status = to]
  PROVE  Moved({t}, to)
<1>1. ticket' = [u \in Tickets |-> IF u \in {t} THEN [ticket[u] EXCEPT !.status = to]
                                   ELSE ticket[u]]
  BY TypeNow
<1>. QED
  BY <1>1, StatusesMove

LEMMA EndsSeen ==
  ASSUME IInv, NEW S \in SUBSET Tickets, NEW to \in {"REVOKED", "REFUNDED", "CANCELLED"},
         Moved(S, to), \A t \in S : Status(t) \in {"VALID", "TRANSFER_PENDING", "CANCELLED"}
  PROVE  RowsFit(ticket') /\ Attendance!Next
<1>1. SameRows(ticket, ticket')
  BY DEF Moved, SameRows, Status
<1>2. \A t \in Tickets :
        /\ ticket'[t].admitted = ticket[t].admitted
        /\ ticket'[t].status \in Stands => ticket[t].status \in Stands
  BY DEF Moved, Stands, ADMISSIBLE_STATES
<1>. QED
  BY <1>1, <1>2, EndRows DEF Moved, IInv

LEMMA OffersSeen ==
  ASSUME IInv, NEW S \in SUBSET Tickets, NEW to \in ADMISSIBLE_STATES,
         Moved(S, to), \A t \in S : Standing(t)
  PROVE  RowsFit(ticket') /\ UNCHANGED Mapped
<1>1. SameRows(ticket, ticket')
  BY DEF Moved, SameRows, Status, Standing, ADMISSIBLE_STATES
<1>2. \A t \in Tickets :
        /\ ticket'[t].admitted = ticket[t].admitted
        /\ (ticket'[t].status \in Stands) <=> (ticket[t].status \in Stands)
  BY DEF Moved, Stands, ADMISSIBLE_STATES, Standing, Status
<1>. QED
  BY <1>1, <1>2, QuietRows DEF Moved, IInv

----------------------------------------------------------------------------
(* One lemma per action                                                    *)

Good == IInv' /\ [Attendance!Next]_Mapped

(* A step that only reads, or is refused. *)
LEMMA ReadingGood ==
  ASSUME IInv, UNCHANGED <<ticket, offer, refunded, event, cancelled>>,
         request' \in [Requests -> RequestType], RequestsFit',
         settling' \in SettlingType, SettlementFits'
  PROVE  Good
<1>1. RowsFit(ticket') /\ OffersFit' /\ OfferMatchesTicket'
      /\ NothingStandsWithdrawn' /\ RefundsTakeWhatTheyCount'
  BY DEF IInv, OffersFit, OfferMatchesTicket, NothingStandsWithdrawn, Standing, Status,
         RefundsTakeWhatTheyCount
<1>2. TypeOK'
  BY <1>1, TypeNow, TypeNext
<1>3. UNCHANGED Mapped
  BY MappedIs, MappedWillBe DEF Mapped
<1>. QED
  BY <1>1, <1>2, <1>3 DEF Good, IInv

LEMMA SettlementStays ==
  ASSUME IInv, UNCHANGED settling,
         \A t \in Tickets : Standing(t) \/ Status(t) = "CANCELLED" =>
           \/ ticket'[t].status = ticket[t].status
           \/ Status(t) \in ADMISSIBLE_STATES /\ ticket'[t].status \in ADMISSIBLE_STATES
  PROVE  SettlementFits' /\ settling' \in SettlingType
<1>1. settling' \in SettlingType /\ settling.taken \in SUBSET Tickets
  BY TypeNow DEF SettlingType
<1>. QED
  BY <1>1 DEF IInv, SettlementFits, Settleable, Standing, Status, ADMISSIBLE_STATES

LEMMA SettlementClosed ==
  ASSUME IInv, UNCHANGED settling, LineIsFree
  PROVE  SettlementFits' /\ settling' \in SettlingType
BY TypeNow DEF SettlementFits, LineIsFree

LEMMA AskingGood ==
  ASSUME IInv, NEW q \in Requests,
         \/ \E t \in Tickets : AskOffer(q, t) \/ AskRevoke(q, t)
         \/ \E o \in Offers, kind \in {"accept", "end"} : AskAnswer(q, kind, o)
         \/ Refused(q)
  PROVE  Good
<1>1. UNCHANGED <<ticket, offer, settling, refunded, event, cancelled>>
  BY DEF AskOffer, AskRevoke, AskAnswer, Refused
<1>2. OffersKeep
  BY <1>1, OffersStay
<1>3. SettlementFits' /\ settling' \in SettlingType
  BY <1>1, SettlementStays
<1>4. RequestsFit' /\ request' \in [Requests -> RequestType]
  <2>1. CASE Refused(q)
    BY <1>2, <2>1, RequestAnswered DEF Refused
  <2>2. ASSUME NEW t \in Tickets, AskOffer(q, t)
        PROVE  RequestsFit' /\ request' \in [Requests -> RequestType]
    BY <1>2, <2>2, RequestMade DEF AskOffer, Kinds, TICKET_STATES
  <2>3. ASSUME NEW t \in Tickets, AskRevoke(q, t)
        PROVE  RequestsFit' /\ request' \in [Requests -> RequestType]
    BY <1>2, <2>3, RequestMade
       DEF AskRevoke, Kinds, TICKET_STATES, Standing, ADMISSIBLE_STATES
  <2>4. ASSUME NEW o \in Offers, NEW kind \in {"accept", "end"}, AskAnswer(q, kind, o)
        PROVE  RequestsFit' /\ request' \in [Requests -> RequestType]
    <3>1. /\ offer[o].status = "PENDING" /\ offer[o].ticket \in Tickets
          /\ request' = [request EXCEPT ![q] =
               Asks(kind, offer[o].ticket, o, "TRANSFER_PENDING")]
      BY <2>4 DEF AskAnswer, IInv, OffersFit
    <3>2. kind \in Kinds /\ "TRANSFER_PENDING" \in TICKET_STATES /\ kind \notin {"offer", "revoke"}
      BY DEF Kinds, TICKET_STATES
    <3>3. offer'[o].status # "NONE" /\ offer'[o].ticket = offer[o].ticket
      BY <1>1, <3>1
    <3>. QED
      BY <1>2, <3>1, <3>2, <3>3, RequestMade
  <2>. QED
    BY <2>1, <2>2, <2>3, <2>4
<1>. QED
  BY <1>1, <1>3, <1>4, ReadingGood

LEMMA SettleReadsGood ==
  ASSUME IInv, NEW S \in SUBSET Tickets, NEW owed \in BOOLEAN, SettleReads(S, owed)
  PROVE  Good
<1>1. UNCHANGED <<ticket, offer, request, refunded, event, cancelled>>
  BY DEF SettleReads
<1>2. RequestsFit' /\ request' \in [Requests -> RequestType]
  BY <1>1, OffersStay, RequestsStay
<1>3. settling' = [open |-> TRUE, owed |-> owed, taken |-> S] /\ \A t \in S : Settleable(t, owed)
  BY DEF SettleReads
<1>4. settling' \in SettlingType
  BY <1>3 DEF SettlingType
<1>5. SettlementFits'
  BY <1>1, <1>3, Zenon DEF SettlementFits, Settleable, Standing, Status
<1>. QED
  BY <1>1, <1>2, <1>4, <1>5, ReadingGood

LEMMA NothingStandsStill ==
  ASSUME IInv, UNCHANGED <<event, cancelled>>,
         \A t \in Tickets : ticket'[t].status \in ADMISSIBLE_STATES =>
           Standing(t) /\ ticket'[t].place = ticket[t].place
  PROVE  NothingStandsWithdrawn'
BY DEF IInv, NothingStandsWithdrawn, Standing, Status

LEMMA StartTransferGood ==
  ASSUME IInv, NEW q \in Requests, NEW o \in Offers, StartTransfer(q, o)
  PROVE  Good
<1> DEFINE t == request[q].ticket
<1>1. t \in Tickets /\ request[q].read = "VALID" /\ request[q].kind = "offer"
  BY DEF StartTransfer, IInv, RequestsFit
<1>2. /\ Status(t) = "VALID" /\ ticket' = [ticket EXCEPT ![t].status = "TRANSFER_PENDING"]
      /\ offer[o] = NoOfferRow
      /\ offer' = [offer EXCEPT ![o] = [status |-> "PENDING", ticket |-> t]]
      /\ UNCHANGED <<settling, refunded, event, cancelled>>
      /\ \/ Answered(q)
         \/ request' = [request EXCEPT ![q] = Asks("end", t, o, "TRANSFER_PENDING")]
  BY <1>1 DEF StartTransfer, Moves
<1> HIDE DEF t
<1>3. /\ Moved({t}, "TRANSFER_PENDING")
      /\ RowsFit(ticket') /\ UNCHANGED Mapped
  <2>1. "TRANSFER_PENDING" \in TICKET_STATES /\ "TRANSFER_PENDING" \in ADMISSIBLE_STATES
    BY DEF TICKET_STATES, ADMISSIBLE_STATES
  <2>2. Moved({t}, "TRANSFER_PENDING")
    BY <1>1, <1>2, <2>1, OneStatusMoves
  <2>3. Standing(t)
    BY <1>2 DEF Standing, ADMISSIBLE_STATES
  <2>. QED
    BY <1>1, <2>1, <2>2, <2>3, OffersSeen
<1>4. /\ offer' \in [Offers -> OfferType] /\ offer[o].status = "NONE"
      /\ offer'[o].status = "PENDING" /\ offer'[o].ticket = t
      /\ \A other \in Offers \ {o} : offer'[other] = offer[other]
  BY <1>1, <1>2, TypeNow DEF OfferType, OfferStates, NoOfferRow
<1>5. OffersKeep
  BY <1>1, <1>4 DEF OffersKeep, OffersFit, IInv
<1>6. RequestsFit' /\ request' \in [Requests -> RequestType]
  <2>1. CASE Answered(q)
    BY <1>5, <2>1, RequestAnswered
  <2>2. CASE request' = [request EXCEPT ![q] = Asks("end", t, o, "TRANSFER_PENDING")]
    BY <1>1, <1>4, <1>5, <2>2, RequestMade DEF Kinds, TICKET_STATES
  <2>. QED
    BY <1>2, <2>1, <2>2
<1>7. OfferMatchesTicket'
  <2>1. ASSUME NEW other \in Offers \ {o}, offer[other].status = "PENDING"
        PROVE  offer[other].ticket \in Tickets /\ offer[other].ticket # t
    BY <1>2, <2>1 DEF IInv, OfferMatchesTicket, OffersFit
  <2>2. \A x \in Offers : offer'[x].status = "PENDING" =>
          ticket'[offer'[x].ticket].status
            \in {"TRANSFER_PENDING", "CHECKED_IN", "REVOKED", "REFUNDED"}
    BY <1>1, <1>3, <1>4, <2>1 DEF Moved, IInv, OfferMatchesTicket, Status
  <2>3. \A u \in Tickets : ticket'[u].status = "TRANSFER_PENDING" =>
          \E x \in Offers : offer'[x].status = "PENDING" /\ offer'[x].ticket = u
    BY <1>3, <1>4 DEF Moved, IInv, OfferMatchesTicket, Status
  <2>4. \A x, other \in Offers :
          /\ offer'[x].status = "PENDING" /\ offer'[other].status = "PENDING"
          /\ offer'[x].ticket = offer'[other].ticket
          => x = other
    BY <1>4, <2>1 DEF IInv, OfferMatchesTicket
  <2>. QED
    BY <2>2, <2>3, <2>4 DEF OfferMatchesTicket, Status
<1>8. NothingStandsWithdrawn'
  BY <1>2, <1>3, NothingStandsStill DEF Moved, Standing, Status, ADMISSIBLE_STATES
<1>9. SettlementFits' /\ settling' \in SettlingType
  BY <1>2, <1>3, SettlementStays DEF Moved, ADMISSIBLE_STATES
<1>10. RefundsTakeWhatTheyCount'
  BY <1>2, <1>3, SameCount DEF Moved, Status
<1>11. TypeOK'
  BY <1>2, <1>3, <1>4, <1>6, <1>9, TypeNow, TypeNext
<1>. QED
  BY <1>3, <1>5, <1>6, <1>7, <1>8, <1>9, <1>10, <1>11 DEF Good, IInv, OffersKeep

LEMMA EndTransferGood ==
  ASSUME IInv, NEW q \in Requests, EndTransfer(q)
  PROVE  Good
<1> DEFINE t == request[q].ticket
           o == request[q].offer
           S == {u \in {t} : Status(u) = "TRANSFER_PENDING"}
<1>1. t \in Tickets /\ o \in Offers /\ offer[o].ticket = t
  BY DEF EndTransfer, IInv, RequestsFit
<1>2. /\ offer[o].status = "PENDING" /\ offer' = [offer EXCEPT ![o].status = "ENDED"]
      /\ ticket' = [ticket EXCEPT ![t].status = IF @ = "TRANSFER_PENDING" THEN "VALID" ELSE @]
      /\ Answered(q)
      /\ UNCHANGED <<settling, refunded, event, cancelled>>
  BY DEF EndTransfer
<1>3. S \in SUBSET Tickets
  BY <1>1
<1>4. \A u \in Tickets : u \in S <=> u = t /\ Status(u) = "TRANSFER_PENDING"
  OBVIOUS
<1>5. ticket' = [u \in Tickets |-> IF u \in S THEN [ticket[u] EXCEPT !.status = "VALID"]
                                   ELSE ticket[u]]
  <2>1. ticket[t] \in RowType /\ ticket \in [Tickets -> RowType]
    BY <1>1, TypeNow
  <2>2. CASE Status(t) = "TRANSFER_PENDING"
    BY <1>1, <1>2, <1>4, <2>1, <2>2 DEF Status
  <2>3. CASE Status(t) # "TRANSFER_PENDING"
    <3>1. ticket' = [ticket EXCEPT ![t].status = ticket[t].status]
      BY <1>2, <2>3 DEF Status
    <3>2. [ticket[t] EXCEPT !.status = ticket[t].status] = ticket[t]
      BY <2>1 DEF RowType
    <3>. QED
      BY <1>1, <1>4, <2>1, <2>3, <3>1, <3>2
  <2>. QED
    BY <2>2, <2>3
<1> HIDE DEF S, t, o
<1>6. /\ Moved(S, "VALID")
      /\ RowsFit(ticket') /\ UNCHANGED Mapped
  <2>1. "VALID" \in TICKET_STATES /\ "VALID" \in ADMISSIBLE_STATES
    BY DEF TICKET_STATES, ADMISSIBLE_STATES
  <2>2. Moved(S, "VALID")
    BY <1>3, <1>5, <2>1, StatusesMove
  <2>3. \A u \in S : Standing(u)
    BY <1>3, <1>4 DEF Standing, ADMISSIBLE_STATES
  <2>. QED
    BY <1>3, <2>1, <2>2, <2>3, OffersSeen
<1>7. /\ offer' \in [Offers -> OfferType] /\ offer'[o].status = "ENDED" /\ offer'[o].ticket = t
      /\ \A other \in Offers \ {o} : offer'[other] = offer[other]
  BY <1>1, <1>2, TypeNow DEF OfferType, OfferStates
<1>8. OffersKeep
  BY <1>1, <1>7 DEF OffersKeep, OffersFit, IInv
<1>9. RequestsFit' /\ request' \in [Requests -> RequestType]
  BY <1>2, <1>8, RequestAnswered
<1>10. OfferMatchesTicket'
  <2>1. ASSUME NEW x \in Offers, offer'[x].status = "PENDING"
        PROVE  /\ x # o /\ offer[x].status = "PENDING" /\ offer'[x].ticket = offer[x].ticket
               /\ offer[x].ticket \in Tickets /\ offer[x].ticket # t
    BY <1>1, <1>2, <1>7, <2>1 DEF IInv, OfferMatchesTicket, OffersFit
  <2>2. \A x \in Offers : offer'[x].status = "PENDING" =>
          ticket'[offer'[x].ticket].status
            \in {"TRANSFER_PENDING", "CHECKED_IN", "REVOKED", "REFUNDED"}
    BY <1>4, <1>6, <2>1 DEF Moved, IInv, OfferMatchesTicket, Status
  <2>3. \A u \in Tickets : ticket'[u].status = "TRANSFER_PENDING" =>
          \E x \in Offers : offer'[x].status = "PENDING" /\ offer'[x].ticket = u
    BY <1>1, <1>4, <1>6, <1>7 DEF Moved, IInv, OfferMatchesTicket, Status
  <2>4. \A x, other \in Offers :
          /\ offer'[x].status = "PENDING" /\ offer'[other].status = "PENDING"
          /\ offer'[x].ticket = offer'[other].ticket
          => x = other
    BY <2>1 DEF IInv, OfferMatchesTicket
  <2>. QED
    BY <2>2, <2>3, <2>4 DEF OfferMatchesTicket, Status
<1>11. NothingStandsWithdrawn'
  BY <1>2, <1>4, <1>6, NothingStandsStill DEF Moved, Standing, Status, ADMISSIBLE_STATES
<1>12. SettlementFits' /\ settling' \in SettlingType
  BY <1>2, <1>4, <1>6, SettlementStays DEF Moved, ADMISSIBLE_STATES
<1>13. RefundsTakeWhatTheyCount'
  BY <1>2, <1>4, <1>6, SameCount DEF Moved, Status
<1>14. TypeOK'
  BY <1>2, <1>6, <1>7, <1>9, <1>12, TypeNow, TypeNext
<1>. QED
  BY <1>6, <1>8, <1>9, <1>10, <1>11, <1>12, <1>13, <1>14 DEF Good, IInv, OffersKeep

LEMMA AcceptTransferGood ==
  ASSUME IInv, NEW q \in Requests, NEW s \in Tickets, AcceptTransfer(q, s)
  PROVE  Good
<1> DEFINE t == request[q].ticket
           o == request[q].offer
<1>1. t \in Tickets /\ o \in Offers /\ offer[o].ticket = t /\ request[q].read = "TRANSFER_PENDING"
  BY DEF AcceptTransfer, IInv, RequestsFit
<1>2. /\ LineIsFree /\ ~AdmittedAlready(t) /\ offer[o].status = "PENDING"
      /\ Status(t) = "TRANSFER_PENDING" /\ Status(s) = "NONE"
      /\ ticket' = [ticket EXCEPT ![t].status = "TRANSFERRED", ![s] = Successor(t)]
      /\ offer' = [offer EXCEPT ![o].status = "ACCEPTED"]
      /\ Answered(q)
      /\ UNCHANGED <<settling, refunded, event, cancelled>>
  BY <1>1 DEF AcceptTransfer
<1> HIDE DEF t, o
<1>3. RowsFit(ticket') /\ Attendance!Next
  BY <1>1, <1>2, HandOnRows DEF IInv, Stands, ADMISSIBLE_STATES
<1>4. /\ t # s
      /\ ticket'[t].status = "TRANSFERRED"
      /\ ticket'[s].status = "VALID" /\ ticket'[s].place = ticket[t].place
      /\ \A u \in Tickets \ {t, s} : ticket'[u] = ticket[u]
  <2>1. ticket[t] \in RowType /\ ticket \in [Tickets -> RowType] /\ t # s
    BY <1>1, <1>2, TypeNow
  <2>2. ticket'[t] = [ticket[t] EXCEPT !.status = "TRANSFERRED"]
    BY <1>1, <1>2, <2>1
  <2>3. ticket'[s] = [status |-> "VALID", place |-> ticket[t].place, admitted |-> {}]
    BY <1>1, <1>2, <2>1 DEF Successor, NewRow
  <2>. QED
    BY <1>1, <1>2, <2>1, <2>2, <2>3 DEF RowType
<1>5. /\ offer' \in [Offers -> OfferType] /\ offer'[o].status = "ACCEPTED" /\ offer'[o].ticket = t
      /\ \A other \in Offers \ {o} : offer'[other] = offer[other]
  BY <1>1, <1>2, TypeNow DEF OfferType, OfferStates
<1>6. OffersKeep
  BY <1>1, <1>5 DEF OffersKeep, OffersFit, IInv
<1>7. RequestsFit' /\ request' \in [Requests -> RequestType]
  BY <1>2, <1>6, RequestAnswered
<1>8. OfferMatchesTicket'
  <2>1. ASSUME NEW x \in Offers, offer'[x].status = "PENDING"
        PROVE  /\ x # o /\ offer[x].status = "PENDING" /\ offer'[x].ticket = offer[x].ticket
               /\ offer[x].ticket \in Tickets \ {t, s}
    BY <1>1, <1>2, <1>5, <2>1 DEF IInv, OfferMatchesTicket, OffersFit
  <2>2. \A x \in Offers : offer'[x].status = "PENDING" =>
          ticket'[offer'[x].ticket].status
            \in {"TRANSFER_PENDING", "CHECKED_IN", "REVOKED", "REFUNDED"}
    BY <1>4, <2>1 DEF IInv, OfferMatchesTicket, Status
  <2>3. \A u \in Tickets : ticket'[u].status = "TRANSFER_PENDING" =>
          \E x \in Offers : offer'[x].status = "PENDING" /\ offer'[x].ticket = u
    BY <1>1, <1>4, <1>5 DEF IInv, OfferMatchesTicket, Status
  <2>4. \A x, other \in Offers :
          /\ offer'[x].status = "PENDING" /\ offer'[other].status = "PENDING"
          /\ offer'[x].ticket = offer'[other].ticket
          => x = other
    BY <2>1 DEF IInv, OfferMatchesTicket
  <2>. QED
    BY <2>2, <2>3, <2>4 DEF OfferMatchesTicket, Status
<1>9. NothingStandsWithdrawn'
  <2>1. Standing(t)
    BY <1>2 DEF Standing, ADMISSIBLE_STATES
  <2>2. \A u \in {t} \cup (Tickets \ {t, s}) : ticket[u].status \in ADMISSIBLE_STATES =>
          event # "DELETED" /\ Own[ticket[u].place] \notin cancelled
    BY <1>1 DEF IInv, NothingStandsWithdrawn, Standing, Status
  <2>3. event # "DELETED" /\ Own[ticket[t].place] \notin cancelled
    BY <2>1, <2>2 DEF Standing, Status
  <2>4. ASSUME NEW u \in Tickets, ticket'[u].status \in ADMISSIBLE_STATES
        PROVE  event # "DELETED" /\ Own[ticket'[u].place] \notin cancelled
    <3>1. u # t
      BY <1>4, <2>4 DEF ADMISSIBLE_STATES
    <3>. QED
      BY <1>4, <2>2, <2>3, <2>4, <3>1
  <2>. QED
    BY <1>2, <2>4 DEF NothingStandsWithdrawn, Standing, Status
<1>10. SettlementFits' /\ settling' \in SettlingType
  BY <1>2, SettlementClosed
<1>11. RefundsTakeWhatTheyCount'
  <2>1. \A u \in Tickets : (ticket'[u].status = "REFUNDED") <=> (ticket[u].status = "REFUNDED")
    BY <1>2, <1>4 DEF Status
  <2>. QED
    BY <1>2, <2>1, SameCount
<1>12. TypeOK'
  BY <1>2, <1>3, <1>5, <1>7, <1>10, TypeNow, TypeNext
<1>. QED
  BY <1>3, <1>6, <1>7, <1>8, <1>9, <1>10, <1>11, <1>12 DEF Good, IInv, OffersKeep

LEMMA AdmitGood ==
  ASSUME IInv, NEW S \in SUBSET Tickets, NEW n \in Nights, Admit(S, n)
  PROVE  Good
<1>1. /\ LineIsFree /\ \A t \in S : MayEnter(t, n)
      /\ UNCHANGED <<offer, request, settling, refunded, event, cancelled>>
  BY DEF Admit
<1>2. \A t \in Tickets :
        /\ ticket'[t] \in RowType
        /\ ticket'[t].place = ticket[t].place
        /\ ticket'[t].admitted = IF t \in S THEN ticket[t].admitted \cup {n}
                                 ELSE ticket[t].admitted
        /\ \/ ticket'[t].status = ticket[t].status
           \/ t \in S /\ ticket'[t].status = "CHECKED_IN"
  <2>2. ASSUME NEW t \in Tickets
        PROVE  /\ ticket'[t] \in RowType
               /\ ticket'[t].place = ticket[t].place
               /\ ticket'[t].admitted = IF t \in S THEN ticket[t].admitted \cup {n}
                                        ELSE ticket[t].admitted
               /\ \/ ticket'[t].status = ticket[t].status
                  \/ t \in S /\ ticket'[t].status = "CHECKED_IN"
    <3>1. ticket[t] \in RowType /\ ticket[t].status \in TICKET_STATES
          /\ "CHECKED_IN" \in TICKET_STATES
      BY TypeNow DEF RowType, TICKET_STATES
    <3>2. CASE t \notin S
      BY <3>1, <3>2 DEF Admit
    <3>3. CASE t \in S /\ Own[ticket[t].place] = NoNight
      <4>1. ticket'[t] = [ticket[t] EXCEPT !.admitted = @ \cup {n}, !.status = ticket[t].status]
        BY <3>3 DEF Admit
      <4>. QED
        BY <3>1, <3>3, <4>1 DEF RowType
    <3>4. CASE t \in S /\ Own[ticket[t].place] # NoNight
      <4>1. ticket'[t] = [ticket[t] EXCEPT !.admitted = @ \cup {n}, !.status = "CHECKED_IN"]
        BY <3>4 DEF Admit
      <4>2. ticket'[t].place = ticket[t].place /\ ticket'[t].status = "CHECKED_IN"
        BY <3>1, <4>1 DEF RowType
      <4>3. ticket'[t].admitted = ticket[t].admitted \cup {n}
        BY <3>1, <4>1 DEF RowType
      <4>4. ticket'[t] \in RowType
        <5>1. ticket[t].admitted \cup {n} \in SUBSET Nights
          BY <3>1 DEF RowType
        <5>2. \A a \in SUBSET Nights :
                [ticket[t] EXCEPT !.admitted = a, !.status = "CHECKED_IN"] \in RowType
          BY <3>1 DEF RowType
        <5>. QED
          BY <4>1, <5>1, <5>2
      <4>. QED
        BY <3>4, <4>2, <4>3, <4>4
    <3>. QED
      BY <3>2, <3>3, <3>4
  <2>. QED
    BY <2>2
<1>3. \A t \in S : Status(t) \in ADMISSIBLE_STATES
  BY <1>1 DEF MayEnter, Standing
<1>4. ticket' \in [Tickets -> RowType]
  BY <1>2 DEF Admit
<1>5. SameRows(ticket, ticket')
  BY <1>2, <1>3 DEF SameRows, Current, Status, ADMISSIBLE_STATES
<1>6. \A t \in Tickets :
        /\ ticket'[t].admitted = IF t \in S THEN ticket[t].admitted \cup {n}
                                 ELSE ticket[t].admitted
        /\ (ticket'[t].status \in Stands) <=> (ticket[t].status \in Stands)
  BY <1>2, <1>3 DEF Stands, ADMISSIBLE_STATES, Status
<1>7. RowsFit(ticket') /\ Attendance!Next
  BY <1>1, <1>4, <1>5, <1>6, AdmitRows DEF IInv
<1>8. OffersKeep
  BY <1>1, OffersStay
<1>9. RequestsFit' /\ request' \in [Requests -> RequestType]
  BY <1>1, <1>8, RequestsStay
<1>10. OfferMatchesTicket'
  <2>1. \A t \in Tickets : ticket'[t].status = "TRANSFER_PENDING" =>
          ticket[t].status = "TRANSFER_PENDING"
    BY <1>2
  <2>2. ASSUME NEW o \in Offers, offer[o].status = "PENDING"
        PROVE  ticket'[offer[o].ticket].status
                 \in {"TRANSFER_PENDING", "CHECKED_IN", "REVOKED", "REFUNDED"}
    <3>1. /\ offer[o].ticket \in Tickets
          /\ ticket[offer[o].ticket].status
               \in {"TRANSFER_PENDING", "CHECKED_IN", "REVOKED", "REFUNDED"}
      BY <2>2 DEF IInv, OfferMatchesTicket, OffersFit, Status
    <3>. QED
      BY <1>2, <3>1
  <2>3. \A t \in Tickets : ticket'[t].status = "TRANSFER_PENDING" =>
          \E o \in Offers : offer[o].status = "PENDING" /\ offer[o].ticket = t
    BY <2>1 DEF IInv, OfferMatchesTicket, Status
  <2>. QED
    BY <1>1, <2>2, <2>3 DEF IInv, OfferMatchesTicket, Status
<1>11. NothingStandsWithdrawn'
  BY <1>1, <1>2, NothingStandsStill DEF Standing, Status, ADMISSIBLE_STATES
<1>12. SettlementFits' /\ settling' \in SettlingType
  BY <1>1, SettlementClosed
<1>13. RefundsTakeWhatTheyCount'
  <2>1. \A t \in Tickets : (ticket'[t].status = "REFUNDED") <=> (ticket[t].status = "REFUNDED")
    BY <1>2, <1>3 DEF Status, ADMISSIBLE_STATES
  <2>. QED
    BY <1>1, <2>1, SameCount
<1>14. TypeOK'
  BY <1>1, <1>7, <1>9, <1>12, TypeNow, TypeNext
<1>. QED
  BY <1>7, <1>8, <1>9, <1>10, <1>11, <1>12, <1>13, <1>14 DEF Good, IInv, OffersKeep

(* A ticket is taken back, by a revocation or a refund: its offer, if it   *)
(* has one, stays as it is.                                                *)
LEMMA TakenBack ==
  ASSUME IInv, NEW S \in SUBSET Tickets, NEW to \in {"REVOKED", "REFUNDED"}, Moved(S, to),
         \A t \in S : Status(t) \in {"VALID", "TRANSFER_PENDING", "CANCELLED"},
         UNCHANGED <<offer, event, cancelled>>
  PROVE  RowsFit(ticket') /\ Attendance!Next /\ OfferMatchesTicket' /\ NothingStandsWithdrawn'
<1>1. RowsFit(ticket') /\ Attendance!Next
  BY EndsSeen
<1>2. OfferMatchesTicket'
  BY DEF Moved, IInv, OfferMatchesTicket, OffersFit, Status
<1>3. NothingStandsWithdrawn'
  BY NothingStandsStill DEF Moved, Standing, Status, ADMISSIBLE_STATES
<1>. QED
  BY <1>1, <1>2, <1>3

LEMMA RevokeTicketGood ==
  ASSUME IInv, NEW q \in Requests, RevokeTicket(q)
  PROVE  Good
<1> DEFINE t == request[q].ticket
<1>1. t \in Tickets /\ request[q].read \in ADMISSIBLE_STATES
  BY DEF RevokeTicket, IInv, RequestsFit
<1>2. /\ LineIsFree /\ Status(t) \in ADMISSIBLE_STATES
      /\ ticket' = [ticket EXCEPT ![t].status = "REVOKED"]
      /\ Answered(q) /\ UNCHANGED <<offer, settling, refunded, event, cancelled>>
  BY <1>1 DEF RevokeTicket, Moves
<1> HIDE DEF t
<1>3. Moved({t}, "REVOKED")
  BY <1>1, <1>2, OneStatusMoves DEF TICKET_STATES
<1>4. RowsFit(ticket') /\ Attendance!Next /\ OfferMatchesTicket' /\ NothingStandsWithdrawn'
  <2>1. /\ {t} \in SUBSET Tickets
        /\ \A u \in {t} : Status(u) \in {"VALID", "TRANSFER_PENDING", "CANCELLED"}
    BY <1>1, <1>2 DEF ADMISSIBLE_STATES
  <2>. QED
    BY <1>2, <1>3, <2>1, TakenBack
<1>5. OffersKeep
  BY <1>2, OffersStay
<1>6. RequestsFit' /\ request' \in [Requests -> RequestType]
  BY <1>2, <1>5, RequestAnswered
<1>7. SettlementFits' /\ settling' \in SettlingType
  BY <1>2, SettlementClosed
<1>8. RefundsTakeWhatTheyCount'
  <2>1. \A u \in Tickets : (ticket'[u].status = "REFUNDED") <=> (ticket[u].status = "REFUNDED")
    BY <1>2, <1>3 DEF Moved, Status, ADMISSIBLE_STATES
  <2>. QED
    BY <1>2, <2>1, SameCount
<1>9. TypeOK'
  BY <1>2, <1>4, <1>6, <1>7, TypeNow, TypeNext
<1>. QED
  BY <1>4, <1>5, <1>6, <1>7, <1>8, <1>9 DEF Good, IInv, OffersKeep

LEMMA SettleWritesGood ==
  ASSUME IInv, SettleWrites
  PROVE  Good
<1> DEFINE taken == settling.taken
           refunds == {t \in Tickets : ticket[t].status = "REFUNDED"}
<1>1. /\ taken \in SUBSET Tickets
      /\ \A t \in taken : Settleable(t, settling.owed)
      /\ settling' = NoSettlement
      /\ refunded' = refunded + Cardinality(taken)
      /\ UNCHANGED <<offer, request, event, cancelled>>
  BY TypeNow DEF SettleWrites, SettlingType, IInv, SettlementFits
<1>2. \A t \in taken : Status(t) \in {"VALID", "TRANSFER_PENDING", "CANCELLED"}
  BY <1>1 DEF Settleable, Standing, ADMISSIBLE_STATES
<1>3. Moved(taken, "REFUNDED")
  <2>1. ticket' = [t \in Tickets |->
          IF t \in taken THEN [ticket[t] EXCEPT !.status = "REFUNDED"] ELSE ticket[t]]
    BY <1>1 DEF SettleWrites
  <2>2. "REFUNDED" \in TICKET_STATES
    BY DEF TICKET_STATES
  <2> HIDE DEF taken
  <2>. QED
    BY <1>1, <2>1, <2>2, StatusesMove
<1>4. RowsFit(ticket') /\ Attendance!Next /\ OfferMatchesTicket' /\ NothingStandsWithdrawn'
  <2> HIDE DEF taken
  <2>. QED
    BY <1>1, <1>2, <1>3, TakenBack
<1>5. OffersKeep
  BY <1>1, OffersStay
<1>6. RequestsFit' /\ request' \in [Requests -> RequestType]
  BY <1>1, <1>5, RequestsStay
<1>7. SettlementFits' /\ settling' \in SettlingType
  BY <1>1 DEF SettlementFits, NoSettlement, SettlingType
<1>8. RefundsTakeWhatTheyCount' /\ refunded' \in Nat
  <2>1. {t \in Tickets : ticket'[t].status = "REFUNDED"} = refunds \cup taken
    BY <1>1, <1>3 DEF Moved
  <2>2. refunds \cap taken = {}
    BY <1>2 DEF Status
  <2>3. IsFiniteSet(refunds) /\ IsFiniteSet(taken)
    BY <1>1, TicketsAssumption, FS_Subset
  <2> HIDE DEF refunds, taken
  <2>4. Cardinality(refunds \cup taken) = Cardinality(refunds) + Cardinality(taken)
    <3>1. Cardinality(refunds \cup taken)
            = Cardinality(refunds) + Cardinality(taken) - Cardinality(refunds \cap taken)
      BY <2>3, FS_Union
    <3>2. Cardinality(refunds) \in Nat /\ Cardinality(taken) \in Nat
      BY <2>3, FS_CardinalityType
    <3>. QED
      BY <2>2, <3>1, <3>2, FS_EmptySet
  <2>5. refunded = Cardinality(refunds)
    BY DEF IInv, RefundsTakeWhatTheyCount, refunds, Status
  <2>6. refunded' \in Nat
    BY <1>1, <2>3, <2>5, FS_CardinalityType
  <2>. QED
    BY <1>1, <2>1, <2>4, <2>5, <2>6 DEF RefundsTakeWhatTheyCount, Status
<1>9. TypeOK'
  BY <1>1, <1>4, <1>6, <1>7, <1>8, TypeNow, TypeNext
<1>. QED
  BY <1>4, <1>5, <1>6, <1>7, <1>8, <1>9 DEF Good, IInv, OffersKeep

LEMMA WithdrawGood ==
  ASSUME IInv, NEW S \in SUBSET Tickets, LineIsFree, WithdrawTickets(S),
         UNCHANGED <<request, settling, refunded>>,
         event' \in {"ON_SALE", "DELETED"}, cancelled' \in SUBSET Nights,
         \A t \in Tickets \ S : Standing(t) =>
           event' # "DELETED" /\ Own[ticket[t].place] \notin cancelled'
  PROVE  Good
<1> DEFINE W == {t \in S : Standing(t)}
<1>1. W \in SUBSET Tickets
      /\ \A t \in Tickets : t \in W <=> t \in S /\ Status(t) \in ADMISSIBLE_STATES
  BY DEF Standing
<1>2. ticket' = [t \in Tickets |-> IF t \in W THEN [ticket[t] EXCEPT !.status = "CANCELLED"]
                                   ELSE ticket[t]]
  BY DEF WithdrawTickets
<1>3. offer' = [o \in Offers |->
        IF offer[o].status = "PENDING" /\ offer[o].ticket \in W
        THEN [offer[o] EXCEPT !.status = "ENDED"] ELSE offer[o]]
  BY DEF WithdrawTickets
<1> HIDE DEF W
<1>4. Moved(W, "CANCELLED")
  BY <1>1, <1>2, StatusesMove DEF TICKET_STATES
<1>5. RowsFit(ticket') /\ Attendance!Next
  <2>1. \A t \in W : Status(t) \in {"VALID", "TRANSFER_PENDING", "CANCELLED"}
    BY <1>1 DEF ADMISSIBLE_STATES
  <2>. QED
    BY <1>1, <1>4, <2>1, EndsSeen
<1>6. /\ offer' \in [Offers -> OfferType]
      /\ \A o \in Offers :
           /\ offer'[o].ticket = offer[o].ticket
           /\ offer'[o].status = IF offer[o].status = "PENDING" /\ offer[o].ticket \in W
                                 THEN "ENDED" ELSE offer[o].status
  BY <1>3, TypeNow DEF OfferType, OfferStates
<1>7. OffersKeep
  BY <1>6 DEF OffersKeep, OffersFit, IInv
<1>8. RequestsFit' /\ request' \in [Requests -> RequestType]
  BY <1>7, RequestsStay
<1>9. OfferMatchesTicket'
  <2>1. ASSUME NEW o \in Offers, offer'[o].status = "PENDING"
        PROVE  /\ offer[o].status = "PENDING"
               /\ ticket'[offer'[o].ticket].status
                    \in {"TRANSFER_PENDING", "CHECKED_IN", "REVOKED", "REFUNDED"}
    <3>1. /\ offer[o].status = "PENDING" /\ offer[o].ticket \in Tickets \ W
          /\ offer'[o].ticket = offer[o].ticket
      BY <1>6, <2>1 DEF IInv, OffersFit
    <3>. QED
      BY <1>4, <3>1 DEF Moved, IInv, OfferMatchesTicket, Status
  <2>2. \A t \in Tickets : ticket'[t].status = "TRANSFER_PENDING" =>
          \E o \in Offers : offer'[o].status = "PENDING" /\ offer'[o].ticket = t
    BY <1>4, <1>6 DEF Moved, IInv, OfferMatchesTicket, Status
  <2>3. \A o, other \in Offers :
          /\ offer'[o].status = "PENDING" /\ offer'[other].status = "PENDING"
          /\ offer'[o].ticket = offer'[other].ticket
          => o = other
    BY <1>6, <2>1 DEF IInv, OfferMatchesTicket
  <2>. QED
    BY <2>1, <2>2, <2>3 DEF OfferMatchesTicket, Status
<1>10. NothingStandsWithdrawn'
  <2>1. ASSUME NEW t \in Tickets, ticket'[t].status \in ADMISSIBLE_STATES
        PROVE  /\ t \in Tickets \ S /\ Standing(t)
               /\ ticket'[t].place = ticket[t].place
    BY <1>1, <1>4, <2>1 DEF Moved, Standing, Status, ADMISSIBLE_STATES
  <2>. QED
    BY <2>1 DEF NothingStandsWithdrawn, Standing, Status
<1>11. SettlementFits' /\ settling' \in SettlingType
  BY SettlementClosed
<1>12. RefundsTakeWhatTheyCount'
  <2>1. \A t \in Tickets : (ticket'[t].status = "REFUNDED") <=> (ticket[t].status = "REFUNDED")
    BY <1>1, <1>4 DEF Moved, Status, ADMISSIBLE_STATES
  <2>. QED
    BY <2>1, SameCount
<1>13. TypeOK'
  BY <1>5, <1>6, <1>8, <1>11, TypeNow, TypeNext
<1>. QED
  BY <1>5, <1>7, <1>8, <1>9, <1>10, <1>11, <1>12, <1>13 DEF Good, IInv, OffersKeep

LEMMA DeleteEventGood == ASSUME IInv, DeleteEvent PROVE Good
<1>1. Tickets \in SUBSET Tickets /\ \A t \in Tickets \ Tickets : FALSE
  OBVIOUS
<1>. QED
  BY <1>1, TypeNow, WithdrawGood DEF DeleteEvent

LEMMA CancelSessionGood == ASSUME IInv, NEW n \in Nights, CancelSession(n) PROVE Good
<1>1. /\ LineIsFree /\ event = "ON_SALE" /\ cancelled' = cancelled \cup {n}
      /\ WithdrawTickets(For(n)) /\ UNCHANGED <<request, settling, refunded, event>>
  BY DEF CancelSession
<1>2. For(n) \in SUBSET Tickets
  BY DEF For
<1>3. \A t \in Tickets \ For(n) : Standing(t) =>
        event' # "DELETED" /\ Own[ticket[t].place] \notin cancelled'
  BY <1>1 DEF For, IInv, NothingStandsWithdrawn, Standing, Status, ADMISSIBLE_STATES
<1>4. event' \in {"ON_SALE", "DELETED"} /\ cancelled' \in SUBSET Nights
  BY <1>1, TypeNow
<1>. QED
  BY <1>1, <1>2, <1>3, <1>4, WithdrawGood

LEMMA StepGood == ASSUME IInv, [Next]_vars PROVE Good
<1>1. CASE UNCHANGED vars
  <2>1. UNCHANGED <<ticket, offer, request, settling, refunded, event, cancelled>>
    BY <1>1 DEF vars
  <2>2. RequestsFit' /\ request' \in [Requests -> RequestType]
    BY <2>1, OffersStay, RequestsStay
  <2>3. SettlementFits' /\ settling' \in SettlingType
    BY <2>1, SettlementStays
  <2>. QED
    BY <2>1, <2>2, <2>3, ReadingGood
<1>2. ASSUME NEW q \in Requests, NEW t \in Tickets, AskOffer(q, t) \/ AskRevoke(q, t)
      PROVE  Good
  BY <1>2, AskingGood
<1>3. ASSUME NEW q \in Requests, NEW t \in Tickets, AcceptTransfer(q, t) PROVE Good
  BY <1>3, AcceptTransferGood
<1>4. ASSUME NEW q \in Requests, NEW o \in Offers, StartTransfer(q, o) PROVE Good
  BY <1>4, StartTransferGood
<1>5. ASSUME NEW q \in Requests, NEW o \in Offers, NEW kind \in {"accept", "end"},
             AskAnswer(q, kind, o)
      PROVE  Good
  BY <1>5, AskingGood
<1>6. ASSUME NEW q \in Requests, EndTransfer(q) PROVE Good
  BY <1>6, EndTransferGood
<1>7. ASSUME NEW q \in Requests, RevokeTicket(q) PROVE Good
  BY <1>7, RevokeTicketGood
<1>8. ASSUME NEW q \in Requests, Refused(q) PROVE Good
  BY <1>8, AskingGood
<1>9. ASSUME NEW S \in SUBSET Tickets, NEW n \in Nights, Admit(S, n) PROVE Good
  BY <1>9, AdmitGood
<1>10. ASSUME NEW S \in SUBSET Tickets, NEW owed \in BOOLEAN, SettleReads(S, owed) PROVE Good
  BY <1>10, SettleReadsGood
<1>11. CASE SettleWrites
  BY <1>11, SettleWritesGood
<1>12. CASE DeleteEvent
  BY <1>12, DeleteEventGood
<1>13. ASSUME NEW n \in Nights, CancelSession(n) PROVE Good
  BY <1>13, CancelSessionGood
<1>. QED
  BY <1>1, <1>2, <1>3, <1>4, <1>5, <1>6, <1>7, <1>8, <1>9, <1>10, <1>11, <1>12, <1>13, Zenon
     DEF Next

----------------------------------------------------------------------------
(* The first state                                                         *)

LEMMA InitGood == ASSUME Init PROVE IInv /\ Attendance!Init
<1>1. PICK f \in [Places -> Tickets] :
        /\ \A p, r \in Places : f[p] = f[r] => p = r
        /\ ticket = [t \in Tickets |->
             IF \E p \in Places : f[p] = t THEN NewRow(CHOOSE p \in Places : f[p] = t) ELSE NoRow]
  BY DEF Init
<1>2. ASSUME NEW p \in Places
      PROVE  /\ f[p] \in Tickets /\ ticket[f[p]] \in RowType
             /\ ticket[f[p]].status = "VALID" /\ ticket[f[p]].place = p
             /\ ticket[f[p]].admitted = {}
  <2>1. (CHOOSE r \in Places : f[r] = f[p]) = p
    BY <1>1
  <2>2. ticket[f[p]] = [status |-> "VALID", place |-> p, admitted |-> {}]
    BY <1>1, <2>1 DEF NewRow
  <2>. QED
    BY <2>2 DEF RowType, TICKET_STATES
<1>3. ASSUME NEW t \in Tickets, \A p \in Places : f[p] # t
      PROVE  ticket[t] = [status |-> "NONE", place |-> NoPlace, admitted |-> {}]
  BY <1>1, <1>3 DEF NoRow
<1>4. ASSUME NEW t \in Tickets
      PROVE  /\ ticket[t] \in RowType /\ ticket[t].admitted = {}
             /\ \/ /\ ticket[t].status = "NONE" /\ ticket[t].place = NoPlace
                   /\ \A p \in Places : f[p] # t
                \/ /\ ticket[t].status = "VALID" /\ ticket[t].place \in Places
                   /\ f[ticket[t].place] = t
  <2>1. CASE \E p \in Places : f[p] = t
    <3>1. PICK p \in Places : f[p] = t
      BY <2>1
    <3>. QED
      BY <1>2, <3>1
  <2>2. CASE \A p \in Places : f[p] # t
    BY <1>3, <2>2 DEF RowType, TICKET_STATES
  <2>. QED
    BY <2>1, <2>2
<1>5. RowsFit(ticket)
  <2>1. ticket \in [Tickets -> RowType]
    BY <1>1, <1>4
  <2>2. \A p \in Places : ticket[f[p]].place = p /\ Current(ticket, f[p])
    BY <1>2 DEF Current
  <2>3. \A t \in Tickets : (ticket[t].status = "NONE") <=> (ticket[t].place = NoPlace)
    BY <1>4, TicketsAssumption
  <2>4. \A t, u \in Tickets :
          Current(ticket, t) /\ Current(ticket, u) /\ ticket[t].place = ticket[u].place => t = u
    BY <1>4 DEF Current
  <2>5. \A p \in Places : \E t \in Tickets : ticket[t].place = p /\ Current(ticket, t)
    BY <2>2
  <2>. QED
    BY <1>4, <2>1, <2>3, <2>4, <2>5 DEF RowsFit
<1>6. /\ offer \in [Offers -> OfferType] /\ \A o \in Offers : offer[o].status = "NONE"
      /\ request \in [Requests -> RequestType] /\ \A q \in Requests : request[q].kind = "none"
      /\ settling \in SettlingType /\ ~settling.open
      /\ refunded = 0 /\ event = "ON_SALE" /\ cancelled = {}
  BY DEF Init, NoOfferRow, OfferType, OfferStates, Idle, RequestType, Kinds, TICKET_STATES,
         NoSettlement, SettlingType
<1>7. TypeOK
  BY <1>5, <1>6 DEF TypeOK, RowsFit, RowType, OfferType, RequestType, SettlingType, Status
<1>8. OffersFit /\ RequestsFit /\ SettlementFits
  BY <1>6 DEF OffersFit, RequestsFit, SettlementFits
<1>9. OfferMatchesTicket /\ NothingStandsWithdrawn
  BY <1>4, <1>6 DEF OfferMatchesTicket, NothingStandsWithdrawn, Status
<1>10. RefundsTakeWhatTheyCount
  <2>1. {t \in Tickets : Status(t) = "REFUNDED"} = {}
    BY <1>4 DEF Status
  <2>. QED
    BY <1>6, <2>1, FS_EmptySet DEF RefundsTakeWhatTheyCount
<1>11. Attendance!Init
  <2>1. ASSUME NEW p \in Places
        PROVE  PassIn(ticket, p) = f[p] /\ EnteredIn(ticket, p) = {} /\ p \in StandIn(ticket)
    <3>1. f[p] \in Tickets /\ ticket[f[p]].place = p /\ Current(ticket, f[p])
          /\ ticket[f[p]].admitted = {} /\ ticket[f[p]].status \in Stands
      BY <1>2 DEF Current, Stands, ADMISSIBLE_STATES
    <3>. QED
      BY <1>5, <3>1, PlaceIs
  <2>2. SpentIn(ticket) = {}
    BY <1>4 DEF SpentIn
  <2>3. StandIn(ticket) = Places
    BY <2>1 DEF StandIn
  <2> DEFINE pass == [p \in Places |-> PassIn(ticket, p)]
             letIn == [p \in Places |-> EnteredIn(ticket, p)]
  <2>4. pass = f /\ letIn = [p \in Places |-> {}]
    BY <2>1
  <2> HIDE DEF pass, letIn
  <2>. QED
    BY <1>1, <2>2, <2>3, <2>4, MappedIs DEF Attendance!Init, pass, letIn
<1>. QED
  BY <1>5, <1>7, <1>8, <1>9, <1>10, <1>11 DEF IInv

LEMMA Inductive == Spec => []IInv
<1>1. IInv /\ [Next]_vars => IInv'
  BY StepGood DEF Good
<1>. QED
  BY <1>1, InitGood, PTL DEF Spec

(* Every row, offer and request is well formed.                            *)
THEOREM Typed == Spec => []TypeOK
<1>1. IInv => TypeOK
  BY DEF IInv
<1>. QED
  BY <1>1, Inductive, PTL

(* Whatever requests, doors, refunds and withdrawals do at once, a ticket  *)
(* that is being offered has one offer that can be answered, and no offer  *)
(* outlives what frees, hands on or withdraws its ticket.                  *)
THEOREM OffersAgree == Spec => []OfferMatchesTicket
<1>1. IInv => OfferMatchesTicket
  BY DEF IInv
<1>. QED
  BY <1>1, Inductive, PTL

(* Nothing of the line stands once its event is deleted or its night       *)
(* cancelled, a successor issued meanwhile included.                       *)
THEOREM WithdrawnForGood == Spec => []NothingStandsWithdrawn
<1>1. IInv => NothingStandsWithdrawn
  BY DEF IInv
<1>. QED
  BY <1>1, Inductive, PTL

(* The refunded quantity is the number of tickets refunds took, though     *)
(* what a refund read may be offered before it writes.                     *)
THEOREM RefundsCount == Spec => []RefundsTakeWhatTheyCount
<1>1. IInv => RefundsTakeWhatTheyCount
  BY DEF IInv
<1>. QED
  BY <1>1, Inductive, PTL

(* The rows of each place behave as one pass: let in once a night, handed  *)
(* on only unused, ended for good.                                         *)
THEOREM Implements == Spec => ImplementsAttendance
<1>1. IInv /\ [Next]_vars => [Attendance!Next]_Mapped
  BY StepGood DEF Good
<1>2. [Attendance!Next]_Mapped => [Attendance!Next]_(Attendance!vars)
  BY DEF Mapped, Attendance!vars
<1>. QED
  BY <1>1, <1>2, InitGood, Inductive, PTL DEF Spec, ImplementsAttendance, Attendance!Spec
=============================================================================
