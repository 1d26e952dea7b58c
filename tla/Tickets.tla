------------------------------- MODULE Tickets -------------------------------
(***************************************************************************)
(* The tickets of one paid order line: offered to somebody, taken, the     *)
(* offer declined or withdrawn, let in at the doors of several nights one  *)
(* by one or as a group, revoked, refunded, and withdrawn with their night *)
(* or their event.                                                         *)
(*                                                                         *)
(* Offering, answering and revoking read their rows, and then open the     *)
(* transaction that decides from what was read: a request keeps what it    *)
(* read.  A transaction is one step where the locks it takes (order, line, *)
(* ticket) let nothing of another come between.  Settling a refund is two: *)
(* it holds order and line, which keeps out the door, an acceptance, a     *)
(* revocation and a withdrawal, but not an offer or the end of one.        *)
(*                                                                         *)
(* The event has more than one night: a ticket is for one of them, or good *)
(* for every night.  Who holds a ticket, passes and codes, payments at the *)
(* door and the cancellation of the event, which touches no ticket and     *)
(* only refuses at the door, are left out.                                 *)
(***************************************************************************)
EXTENDS Integers, FiniteSets

CONSTANTS
  Places,    \* the tickets the line was sold with
  Own,       \* the night each is for, by its seat or its tier; NoNight: every night
  Tickets,   \* rows of Ticket that may be written for them
  Nights,    \* EventSession rows
  Offers,    \* rows of TicketTransfer that may be written
  Requests   \* requests being handled at once

NoNight == "every night"
NoPlace == "no place"
NoTicket == "no ticket"
NoOffer == "no offer"

ASSUME TicketsAssumption ==
  /\ IsFiniteSet(Places) /\ IsFiniteSet(Tickets) /\ Cardinality(Nights) > 1
  /\ Own \in [Places -> Nights \cup {NoNight}]
  /\ NoNight \notin Nights /\ NoPlace \notin Places
  /\ NoTicket \notin Tickets /\ NoOffer \notin Offers

VARIABLES
  ticket,    \* Ticket rows, with the nights of their CheckIn rows
  offer,     \* TicketTransfer rows
  request,   \* what each request read
  settling,  \* the refund being settled: the tickets it read
  refunded,  \* OrderItem.refundedQuantity
  event,     \* Event.status
  cancelled  \* nights that are CANCELLED

vars == <<ticket, offer, request, settling, refunded, event, cancelled>>

----------------------------------------------------------------------------
(* The rows                                                                *)

TICKET_STATES == {"NONE", "VALID", "TRANSFER_PENDING", "TRANSFERRED", "REVOKED",
                  "REFUNDED", "CHECKED_IN", "CANCELLED"}
ADMISSIBLE_STATES == {"VALID", "TRANSFER_PENDING"}
(* DECLINED and CANCELLED are one to everything that reads them: ENDED. *)
OfferStates == {"NONE", "PENDING", "ACCEPTED", "ENDED"}
Kinds == {"none", "offer", "accept", "end", "revoke"}

NoRow == [status |-> "NONE", place |-> NoPlace, admitted |-> {}]
NewRow(p) == [status |-> "VALID", place |-> p, admitted |-> {}]
NoOfferRow == [status |-> "NONE", ticket |-> NoTicket]
Idle == [kind |-> "none", ticket |-> NoTicket, offer |-> NoOffer, read |-> "NONE"]
Asks(kind, t, o, read) == [kind |-> kind, ticket |-> t, offer |-> o, read |-> read]
NoSettlement == [open |-> FALSE, owed |-> FALSE, taken |-> {}]

Status(t) == ticket[t].status
Standing(t) == Status(t) \in ADMISSIBLE_STATES
LineIsFree == ~settling.open

Answered(q) == request' = [request EXCEPT ![q] = Idle]

(* A conditional update: the ticket moves only from the status read. *)
Moves(t, read, to) ==
  /\ Status(t) = read
  /\ ticket' = [ticket EXCEPT ![t].status = to]

----------------------------------------------------------------------------
(* Handing a ticket on                                                     *)

(* A ticket good for every night stays VALID when it lets somebody in: its *)
(* status does not say that it was used, its admissions do.                *)
AdmittedAlready_Mutant(t) == Status(t) = "CHECKED_IN"

AdmittedAlready(t) == ticket[t].admitted # {}

Successor(t) == NewRow(ticket[t].place)

AskOffer(q, t) ==
  /\ request[q] = Idle
  /\ Status(t) = "VALID"
  /\ request' = [request EXCEPT ![q] = Asks("offer", t, NoOffer, "VALID")]
  /\ UNCHANGED <<ticket, offer, settling, refunded, event, cancelled>>

(* The offer moves nothing but the status, and only of a ticket that let   *)
(* nobody in.  A code that cannot be mailed takes the offer back, in a     *)
(* transaction of its own.                                                 *)
StartTransfer(q, o) ==
  LET t == request[q].ticket
  IN  /\ request[q].kind = "offer"
      /\ ~AdmittedAlready(t)
      /\ Moves(t, request[q].read, "TRANSFER_PENDING")
      /\ offer[o] = NoOfferRow
      /\ offer' = [offer EXCEPT ![o] = [status |-> "PENDING", ticket |-> t]]
      /\ \/ Answered(q)
         \/ request' = [request EXCEPT ![q] = Asks("end", t, o, "TRANSFER_PENDING")]
      /\ UNCHANGED <<settling, refunded, event, cancelled>>

(* What loadTransferByToken lets through, and what cancelTransfer finds.   *)
(* An offer past its expiry is refused here, and still can be withdrawn.   *)
AskAnswer(q, kind, o) ==
  LET t == offer[o].ticket
  IN  /\ request[q] = Idle
      /\ offer[o].status = "PENDING"
      /\ kind = "accept" => Status(t) = "TRANSFER_PENDING"
      /\ request' = [request EXCEPT ![q] = Asks(kind, t, o, "TRANSFER_PENDING")]
      /\ UNCHANGED <<ticket, offer, settling, refunded, event, cancelled>>

(* The ticket is retired and its successor issued in one transaction,      *)
(* which holds the line, and the ticket before it reads its admissions.    *)
AcceptTransfer(q, successor) ==
  LET o == request[q].offer
      t == request[q].ticket
  IN  /\ request[q].kind = "accept" /\ LineIsFree
      /\ ~AdmittedAlready(t)
      /\ offer[o].status = "PENDING"
      /\ Status(t) = request[q].read
      /\ Status(successor) = "NONE"
      /\ ticket' = [ticket EXCEPT ![t].status = "TRANSFERRED",
                                  ![successor] = Successor(t)]
      /\ offer' = [offer EXCEPT ![o].status = "ACCEPTED"]
      /\ Answered(q)
      /\ UNCHANGED <<settling, refunded, event, cancelled>>

(* Declined or withdrawn: the ticket goes back to VALID, unless it was     *)
(* used, revoked or refunded while the offer stood.                        *)
EndTransfer_Mutant(q) ==
  LET o == request[q].offer
      t == request[q].ticket
  IN  /\ request[q].kind = "end"
      /\ offer[o].status = "PENDING"
      /\ offer' = [offer EXCEPT ![o].status = "ENDED"]
      /\ ticket' = [ticket EXCEPT ![t].status = "VALID"]
      /\ Answered(q)
      /\ UNCHANGED <<settling, refunded, event, cancelled>>

EndTransfer(q) ==
  LET o == request[q].offer
      t == request[q].ticket
  IN  /\ request[q].kind = "end"
      /\ offer[o].status = "PENDING"
      /\ offer' = [offer EXCEPT ![o].status = "ENDED"]
      /\ ticket' = [ticket EXCEPT ![t].status = IF @ = "TRANSFER_PENDING" THEN "VALID" ELSE @]
      /\ Answered(q)
      /\ UNCHANGED <<settling, refunded, event, cancelled>>

(* A request that finds its rows changed is refused and writes nothing; so *)
(* does one whose process dies.                                            *)
Refused(q) ==
  /\ request[q] # Idle
  /\ Answered(q)
  /\ UNCHANGED <<ticket, offer, settling, refunded, event, cancelled>>

----------------------------------------------------------------------------
(* The door                                                                *)

(* The night is the ticket's own, or the one named for a ticket that is    *)
(* good for every night; neither the night nor the event is cancelled.     *)
MayEnter(t, n) ==
  /\ Standing(t)
  /\ Own[ticket[t].place] \in {n, NoNight}
  /\ n \notin ticket[t].admitted

(* One ticket, or those of a group pass, together or not at all. *)
Admit(S, n) ==
  /\ LineIsFree
  /\ event = "ON_SALE" /\ n \notin cancelled
  /\ \A t \in S : MayEnter(t, n)
  /\ ticket' = [t \in Tickets |->
       IF t \notin S THEN ticket[t]
       ELSE [ticket[t] EXCEPT !.admitted = @ \cup {n},
               !.status = IF Own[ticket[t].place] = NoNight THEN @ ELSE "CHECKED_IN"]]
  /\ UNCHANGED <<offer, request, settling, refunded, event, cancelled>>

----------------------------------------------------------------------------
(* Taking a ticket back                                                    *)

AskRevoke(q, t) ==
  /\ request[q] = Idle
  /\ Standing(t)
  /\ request' = [request EXCEPT ![q] = Asks("revoke", t, NoOffer, Status(t))]
  /\ UNCHANGED <<ticket, offer, settling, refunded, event, cancelled>>

RevokeTicket(q) ==
  /\ request[q].kind = "revoke" /\ LineIsFree
  /\ Moves(request[q].ticket, request[q].read, "REVOKED")
  /\ Answered(q)
  /\ UNCHANGED <<offer, settling, refunded, event, cancelled>>

(* A refund takes standing tickets; one that a cancellation or a deletion  *)
(* owes takes those it withdrew as well.                                   *)
Settleable(t, owed) == Standing(t) \/ (owed /\ Status(t) = "CANCELLED")

SettleReads(S, owed) ==
  /\ LineIsFree
  /\ owed => event = "DELETED" \/ cancelled # {}
  /\ S # {} /\ \A t \in S : Settleable(t, owed)
  /\ refunded + Cardinality(S) <= Cardinality(Places)
  /\ settling' = [open |-> TRUE, owed |-> owed, taken |-> S]
  /\ UNCHANGED <<ticket, offer, request, refunded, event, cancelled>>

(* Each ticket is moved if it is still settleable, and all that were read  *)
(* are counted.                                                            *)
SettleWrites_Mutant ==
  /\ settling.open
  /\ ticket' = [t \in Tickets |->
       IF t \in settling.taken /\ Status(t) \in {"VALID", "CANCELLED"}
       THEN [ticket[t] EXCEPT !.status = "REFUNDED"] ELSE ticket[t]]
  /\ refunded' = refunded + Cardinality(settling.taken)
  /\ settling' = NoSettlement
  /\ UNCHANGED <<offer, request, event, cancelled>>

SettleWrites ==
  /\ settling.open
  /\ ticket' = [t \in Tickets |->
       IF t \in settling.taken /\ Settleable(t, settling.owed)
       THEN [ticket[t] EXCEPT !.status = "REFUNDED"] ELSE ticket[t]]
  /\ refunded' = refunded + Cardinality(settling.taken)
  /\ settling' = NoSettlement
  /\ UNCHANGED <<offer, request, event, cancelled>>

(* Withdrawn with the event or the night, and what was offered with them.  *)
WithdrawTickets_Mutant(S) ==
  /\ ticket' = [t \in Tickets |-> IF t \in S /\ Standing(t)
                                  THEN [ticket[t] EXCEPT !.status = "CANCELLED"]
                                  ELSE ticket[t]]
  /\ UNCHANGED offer

WithdrawTickets(S) ==
  /\ ticket' = [t \in Tickets |-> IF t \in S /\ Standing(t)
                                  THEN [ticket[t] EXCEPT !.status = "CANCELLED"]
                                  ELSE ticket[t]]
  /\ offer' = [o \in Offers |->
       IF /\ offer[o].status = "PENDING"
          /\ offer[o].ticket \in {t \in S : Standing(t)}
       THEN [offer[o] EXCEPT !.status = "ENDED"] ELSE offer[o]]

DeleteEvent ==
  /\ LineIsFree /\ event # "DELETED"
  /\ event' = "DELETED"
  /\ WithdrawTickets(Tickets)
  /\ UNCHANGED <<request, settling, refunded, cancelled>>

For(n) == {t \in Tickets : Status(t) # "NONE" /\ Own[ticket[t].place] = n}

CancelSession(n) ==
  /\ LineIsFree /\ event = "ON_SALE"
  /\ n \notin cancelled /\ cancelled \cup {n} # Nights
  /\ cancelled' = cancelled \cup {n}
  /\ WithdrawTickets(For(n))
  /\ UNCHANGED <<request, settling, refunded, event>>

----------------------------------------------------------------------------

Init ==
  /\ \E f \in [Places -> Tickets] :
       /\ \A p, r \in Places : f[p] = f[r] => p = r
       /\ ticket = [t \in Tickets |->
            IF \E p \in Places : f[p] = t THEN NewRow(CHOOSE p \in Places : f[p] = t) ELSE NoRow]
  /\ offer = [o \in Offers |-> NoOfferRow]
  /\ request = [q \in Requests |-> Idle]
  /\ settling = NoSettlement
  /\ refunded = 0
  /\ event = "ON_SALE"
  /\ cancelled = {}

Next ==
  \/ \E q \in Requests :
       \/ \E t \in Tickets : AskOffer(q, t) \/ AcceptTransfer(q, t) \/ AskRevoke(q, t)
       \/ \E o \in Offers :
            \/ StartTransfer(q, o)
            \/ \E kind \in {"accept", "end"} : AskAnswer(q, kind, o)
       \/ EndTransfer(q)
       \/ RevokeTicket(q)
       \/ Refused(q)
  \/ \E S \in SUBSET Tickets :
       \/ \E n \in Nights : Admit(S, n)
       \/ \E owed \in BOOLEAN : SettleReads(S, owed)
  \/ SettleWrites
  \/ DeleteEvent
  \/ \E n \in Nights : CancelSession(n)

Spec == Init /\ [][Next]_vars

----------------------------------------------------------------------------
(* Properties                                                              *)

TypeOK ==
  /\ ticket \in [Tickets -> [status : TICKET_STATES, place : Places \cup {NoPlace},
                             admitted : SUBSET Nights]]
  /\ \A t \in Tickets : (Status(t) = "NONE") <=> (ticket[t].place = NoPlace)
  /\ offer \in [Offers -> [status : OfferStates, ticket : Tickets \cup {NoTicket}]]
  /\ request \in [Requests -> [kind : Kinds, ticket : Tickets \cup {NoTicket},
                               offer : Offers \cup {NoOffer},
                               read : TICKET_STATES]]
  /\ settling \in [open : BOOLEAN, owed : BOOLEAN, taken : SUBSET Tickets]
  /\ refunded \in Nat
  /\ event \in {"ON_SALE", "DELETED"}
  /\ cancelled \in SUBSET Nights

(* An outstanding offer and its ticket agree: a ticket that is being       *)
(* offered has exactly one offer that can still be answered, and such an   *)
(* offer is of a ticket being offered, or used or taken back since, never  *)
(* of one that is freely the holder's, handed on, or withdrawn with its    *)
(* event (startTransfer, endTransfer, acceptTransfer, withdrawTickets).    *)
OfferMatchesTicket ==
  /\ \A o \in Offers : offer[o].status = "PENDING" =>
       Status(offer[o].ticket) \in {"TRANSFER_PENDING", "CHECKED_IN", "REVOKED", "REFUNDED"}
  /\ \A t \in Tickets : Status(t) = "TRANSFER_PENDING" =>
       \E o \in Offers : offer[o].status = "PENDING" /\ offer[o].ticket = t
  /\ \A o, other \in Offers :
       /\ offer[o].status = "PENDING" /\ offer[other].status = "PENDING"
       /\ offer[o].ticket = offer[other].ticket
       => o = other

(* No ticket survives what withdraws it: once its event is deleted or its  *)
(* night cancelled nothing of the line stands, whoever had asked for what  *)
(* before (lockOrderLines, withdrawTickets, acceptTransfer).               *)
NothingStandsWithdrawn ==
  \A t \in Tickets : Standing(t) =>
    event # "DELETED" /\ Own[ticket[t].place] \notin cancelled

(* The line counts as refunded exactly the tickets a refund took, though   *)
(* offers come and go between reading and writing them (revokeAndReturn).  *)
RefundsTakeWhatTheyCount ==
  refunded = Cardinality({t \in Tickets : Status(t) = "REFUNDED"})

(* However offers, answers, scans, refunds and withdrawals interleave, the *)
(* rows of a place behave as one pass: Attendance.                         *)
RowsOf(p) == {t \in Tickets : Status(t) # "NONE" /\ ticket[t].place = p}
PassOf(p) == CHOOSE t \in RowsOf(p) : Status(t) # "TRANSFERRED"
StandingPlaces ==
  {p \in Places : \E t \in RowsOf(p) : Status(t) \in ADMISSIBLE_STATES \cup {"CHECKED_IN"}}

Attendance == INSTANCE Attendance WITH
  standing <- StandingPlaces,
  pass <- [p \in Places |-> PassOf(p)],
  spent <- {t \in Tickets : Status(t) = "TRANSFERRED"},
  letIn <- [p \in Places |-> UNION {ticket[t].admitted : t \in RowsOf(p)}]

ImplementsAttendance == Attendance!Spec
=============================================================================
