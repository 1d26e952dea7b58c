------------------------------- MODULE Intake -------------------------------
(***************************************************************************)
(* Taking webhooks in.  A Stripe delivery is verified, stored once under   *)
(* the unique index and acknowledged; the stored row is claimed, handled   *)
(* and marked, or set aside for a retry or a person.  The mock provider's  *)
(* callback stores its row and does its work in one transaction.           *)
(*   apps/api/src/lib/webhook-intake.js                                    *)
(*   apps/api/src/routes/webhooks.js, apps/api/src/routes/payments.js      *)
(*                                                                         *)
(* Signatures, redaction and the digest are left out: an event here has    *)
(* been verified.  What a handler does to payments is module Checkout's;   *)
(* here it commits its work, ignores the event, or throws.                 *)
(***************************************************************************)
EXTENDS Naturals

CONSTANTS Events,         \* verified events, by (provider, account, event id)
          Callbacks,      \* those the mock provider posts to payments.webhook
          Handlers,       \* requests and jobs that run processStoredDelivery
          ProcessInline,  \* the API handles a delivery before it answers
          MAX_ATTEMPTS,
          MaxUpsets,      \* bound: handlers and marks that throw
          MaxCrashes,     \* bound: processes that die
          NoEvent

ASSUME IntakeAssumption ==
  /\ Callbacks \subseteq Events
  /\ ProcessInline \in BOOLEAN
  /\ MAX_ATTEMPTS \in Nat \ {0}
  /\ MaxUpsets \in Nat
  /\ MaxCrashes \in Nat

ASSUME SentinelAssumption == NoEvent \notin Events

VARIABLES row,      \* WebhookEvent
          handler,  \* what each run of processStoredDelivery is doing
          worked,   \* ghost: how often an event's work was committed
          upsets,   \* bound
          crashes   \* bound

vars == <<row, handler, worked, upsets, crashes>>

\* Before its insert a row is ABSENT.
States == {"ABSENT", "RECEIVED", "PROCESSING", "PROCESSED", "IGNORED",
           "FAILED", "DEAD_LETTER"}

Final == {"PROCESSED", "IGNORED", "DEAD_LETTER"}

Stages == {"idle", "read", "claimed", "processed", "ignored", "threw"}

Busy == {"claimed", "processed", "ignored", "threw"}

\* attempts is attemptCount; due says nextAttemptAt has come.  A handler
\* keeps the attemptCount of the row it read.
Idle == [at |-> "idle", event |-> NoEvent, attempts |-> 0]

TypeOK ==
  /\ row \in [Events -> [state: States, attempts: Nat, due: BOOLEAN]]
  /\ \A e \in Events : row[e].due => row[e].state = "FAILED"
  /\ handler \in [Handlers -> [at: Stages, event: Events \cup {NoEvent},
                               attempts: Nat]]
  /\ worked \in [Events -> Nat]
  /\ upsets \in 0..MaxUpsets
  /\ crashes \in 0..MaxCrashes

-----------------------------------------------------------------------------
(* Arrival.                                                                *)

\* The insert is the duplicate check: a delivery that is there already is
\* acknowledged and changes nothing.
StoreDelivery_Mutant(e) ==
  row' = [row EXCEPT ![e] = [state |-> "RECEIVED", attempts |-> 0,
                             due |-> FALSE]]

StoreDelivery(e) ==
  IF row[e].state = "ABSENT"
  THEN row' = [row EXCEPT ![e] = [state |-> "RECEIVED", attempts |-> 0,
                                  due |-> FALSE]]
  ELSE row' = row

\* The request goes on to handle a delivery it stored, when told to; it may
\* also end before that, its audit row refused.
Receive(h, e) ==
  /\ e \notin Callbacks
  /\ handler[h].at = "idle"
  /\ StoreDelivery(e)
  /\ \/ UNCHANGED handler
     \/ /\ ProcessInline
        /\ row[e].state = "ABSENT"
        /\ handler' = [handler EXCEPT ![h] = [at |-> "read", event |-> e,
                                              attempts |-> 0]]
  /\ UNCHANGED <<worked, upsets, crashes>>

\* Found already, or refused by the unique index: a duplicate.  The row keeps
\* the column's default state.
Callback(e) ==
  /\ e \in Callbacks
  /\ row[e].state = "ABSENT"
  /\ row' = [row EXCEPT ![e].state = "RECEIVED"]
  /\ worked' = [worked EXCEPT ![e] = @ + 1]
  /\ UNCHANGED <<handler, upsets, crashes>>

-----------------------------------------------------------------------------
(* processStoredDelivery.                                                  *)

DueDelivery(e) == \/ row[e].state = "RECEIVED"
                  \/ row[e].state = "FAILED" /\ row[e].due

\* The repository lists what is due and has no job that drains the list: one
\* may come to any delivery at any moment, or never.
ReadDue(h, e) ==
  /\ handler[h].at = "idle"
  /\ DueDelivery(e)
  /\ handler' = [handler EXCEPT ![h] = [at |-> "read", event |-> e,
                                        attempts |-> row[e].attempts]]
  /\ UNCHANGED <<row, worked, upsets, crashes>>

Claimable_Mutant(h) ==
  LET e == handler[h].event
  IN row[e].state \in {"RECEIVED", "FAILED", "PROCESSING"}

Claimable(h) ==
  LET e == handler[h].event
  IN /\ row[e].state \in {"RECEIVED", "FAILED"}
     /\ row[e].attempts = handler[h].attempts

ClaimDelivery(h) ==
  LET e == handler[h].event
  IN /\ handler[h].at = "read"
     /\ Claimable(h)
     /\ row' = [row EXCEPT ![e] = [state |-> "PROCESSING",
                                   attempts |-> handler[h].attempts + 1,
                                   due |-> FALSE]]
     /\ handler' = [handler EXCEPT ![h].at = "claimed"]
     /\ UNCHANGED <<worked, upsets, crashes>>

AnotherHasIt(h) ==
  /\ handler[h].at = "read"
  /\ ~Claimable(h)
  /\ handler' = [handler EXCEPT ![h] = Idle]
  /\ UNCHANGED <<row, worked, upsets, crashes>>

\* dispatchDelivery commits the work of a handled event or finds nothing to
\* do; an event of the mock provider has no handler here.
DispatchDelivery(h, outcome) ==
  LET e == handler[h].event
  IN /\ handler[h].at = "claimed"
     /\ outcome = "processed" => e \notin Callbacks
     /\ worked' = IF outcome = "processed"
                  THEN [worked EXCEPT ![e] = @ + 1] ELSE worked
     /\ handler' = [handler EXCEPT ![h].at = outcome]
     /\ UNCHANGED <<row, upsets, crashes>>

\* The handler throws before it commits anything, or the mark after it does.
Throws(h) ==
  /\ handler[h].at \in {"claimed", "processed", "ignored"}
  /\ upsets < MaxUpsets
  /\ upsets' = upsets + 1
  /\ handler' = [handler EXCEPT ![h].at = "threw"]
  /\ UNCHANGED <<row, worked, crashes>>

\* The marks name the row by its id and nothing else.
Mark(h, state) ==
  /\ row' = [row EXCEPT ![handler[h].event].state = state]
  /\ handler' = [handler EXCEPT ![h] = Idle]
  /\ UNCHANGED <<worked, upsets, crashes>>

MarkProcessed(h) == handler[h].at = "processed" /\ Mark(h, "PROCESSED")

MarkIgnored(h) == handler[h].at = "ignored" /\ Mark(h, "IGNORED")

\* The attempts read, and the one just made.
AfterFailure(h) == IF handler[h].attempts + 1 >= MAX_ATTEMPTS
                   THEN "DEAD_LETTER" ELSE "FAILED"

MarkFailed(h) == handler[h].at = "threw" /\ Mark(h, AfterFailure(h))

NextAttemptComes(e) ==
  /\ row[e].state = "FAILED"
  /\ ~row[e].due
  /\ row' = [row EXCEPT ![e].due = TRUE]
  /\ UNCHANGED <<handler, worked, upsets, crashes>>

Crash(h) ==
  /\ handler[h].at # "idle"
  /\ crashes < MaxCrashes
  /\ crashes' = crashes + 1
  /\ handler' = [handler EXCEPT ![h] = Idle]
  /\ UNCHANGED <<row, worked, upsets>>

-----------------------------------------------------------------------------
Init ==
  /\ row = [e \in Events |-> [state |-> "ABSENT", attempts |-> 0, due |-> FALSE]]
  /\ handler = [h \in Handlers |-> Idle]
  /\ worked = [e \in Events |-> 0]
  /\ upsets = 0
  /\ crashes = 0

Process(h) ==
  \/ ClaimDelivery(h)
  \/ AnotherHasIt(h)
  \/ \E outcome \in {"processed", "ignored"} : DispatchDelivery(h, outcome)
  \/ MarkProcessed(h)
  \/ MarkIgnored(h)
  \/ MarkFailed(h)

Next ==
  \/ \E h \in Handlers :
       \/ \E e \in Events : Receive(h, e) \/ ReadDue(h, e)
       \/ Process(h) \/ Throws(h) \/ Crash(h)
  \/ \E e \in Events : Callback(e) \/ NextAttemptComes(e)

Spec == Init /\ [][Next]_vars

-----------------------------------------------------------------------------
(* Properties.                                                             *)

\* A delivery is in one pair of hands from its claim to its mark, and the row
\* shows it: PROCESSING, with the attempt those hands made.  It is what lets
\* the marks be unconditional (claimDelivery, markProcessed, markFailed).
OneHandlerAtATime ==
  \A h \in Handlers : handler[h].at \in Busy =>
    /\ row[handler[h].event].state = "PROCESSING"
    /\ row[handler[h].event].attempts = handler[h].attempts + 1
    /\ \A g \in Handlers \ {h} :
         handler[g].at \in Busy => handler[g].event # handler[h].event

\* No delivery is tried more than MAX_ATTEMPTS times, and one set to be tried
\* again has tries left (markFailed, dueDeliveries).
TriesAreBounded ==
  \A e \in Events :
    /\ row[e].attempts <= MAX_ATTEMPTS
    /\ row[e].state = "FAILED" => row[e].attempts < MAX_ATTEMPTS

\* However often it is delivered and whoever reads it, an event's work is
\* committed once, and at most once more for each handler or mark that threw.
WorkedOnce == \A e \in Events : worked[e] <= 1 + upsets

\* A verdict stands: no late mark, duplicate or retry reopens a delivery that
\* was processed, ignored or set aside for a person.
VerdictsStand ==
  [][\A e \in Events : row[e].state \in Final => row'[e] = row[e]]_vars
=============================================================================
