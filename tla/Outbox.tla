------------------------------- MODULE Outbox -------------------------------
(***************************************************************************)
(* The notification outbox: rows written with the business change, drained *)
(* by passes of the worker that claim a row under a lease, send it with    *)
(* nothing open, and record what happened; and the operator who puts a     *)
(* message back in the queue or withdraws it.                              *)
(*   apps/worker/src/outbox/dispatcher.js                                  *)
(*   packages/notifications/src/outbox.js                                  *)
(*   apps/api/src/lib/notification-operations.js                           *)
(*                                                                         *)
(* Instants are not kept: "due" says scheduledFor has come, "lapsed" that  *)
(* leaseExpiresAt has.  A condition the code judges by an instant captured *)
(* earlier is judged here at the write, which is what a caller with a      *)
(* fresher clock would do.                                                 *)
(***************************************************************************)
EXTENDS Naturals

CONSTANTS Messages,     \* rows of NotificationOutbox
          Passes,       \* drain passes that may overlap
          Workers,      \* names written on leases
          WorkerOf,     \* the workerId a pass runs under
          MaxAttempts,  \* maxAttempts of a row
          MaxMishaps,   \* bound: crashes, leases outlived by a send, requeues
          NoWorker, NoPass, NoMessage

ASSUME OutboxAssumption ==
  /\ WorkerOf \in [Passes -> Workers]
  /\ MaxAttempts \in Nat \ {0}
  /\ MaxMishaps \in Nat

ASSUME SentinelAssumption ==
  NoWorker \notin Workers /\ NoPass \notin Passes /\ NoMessage \notin Messages

VARIABLES row,        \* NotificationOutbox
          pass,       \* what each drain pass is doing, and the row it read
          desk,       \* the row an operator's request has read
          holder,     \* ghost: the pass whose claim the lease is
          delivered,  \* external: how often the provider took each message
          excused,    \* ghost: leases taken over and answers lost, by message
          mishaps     \* bound

vars == <<row, pass, desk, holder, delivered, excused, mishaps>>

OUTBOX_STATES == {"QUEUED", "CLAIMED", "SENT", "RETRY_SCHEDULED", "CANCELLED",
                  "FAILED", "DEAD_LETTER", "SUPPRESSED"}

CLAIMABLE_STATES == {"QUEUED", "RETRY_SCHEDULED"}

RETRYABLE_STATES == {"DEAD_LETTER", "FAILED", "RETRY_SCHEDULED"}

CANCELLABLE_STATES == {"QUEUED", "RETRY_SCHEDULED", "DEAD_LETTER", "FAILED"}

Row == [status: OUTBOX_STATES, owner: Workers \cup {NoWorker},
        due: BOOLEAN, lapsed: BOOLEAN, attempts: Nat]

Stages == {"idle", "found", "claimed", "sending", "accepted", "refused",
           "unusable"}

\* A pass keeps the attempts of the row it read back after its claim.
Pass == [at: Stages, message: Messages \cup {NoMessage}, attempts: Nat]

Idle == [at |-> "idle", message |-> NoMessage, attempts |-> 0]

NoDesk == [message |-> NoMessage, status |-> "QUEUED", owner |-> NoWorker]

TypeOK ==
  /\ row \in [Messages -> Row]
  /\ \A m \in Messages :
       row[m].owner # NoWorker <=> row[m].status = "CLAIMED"
  /\ pass \in [Passes -> Pass]
  /\ desk \in [message: Messages \cup {NoMessage}, status: OUTBOX_STATES,
               owner: Workers \cup {NoWorker}]
  /\ holder \in [Messages -> Passes \cup {NoPass}]
  /\ delivered \in [Messages -> Nat]
  /\ excused \in [Messages -> Nat]
  /\ mishaps \in 0..MaxMishaps

-----------------------------------------------------------------------------
(* A drain pass: claimOne, sendOutsideTransaction, recordSent or           *)
(* recordFailure, and again while a message is due.                        *)

claimableWhere_Mutant(r) == r.status \in CLAIMABLE_STATES /\ r.due

claimableWhere(r) == \/ r.status \in CLAIMABLE_STATES /\ r.due
                     \/ r.status = "CLAIMED" /\ r.lapsed

Working(p, m) == pass[p].at \notin {"idle", "found"} /\ pass[p].message = m

FindDue(p, m) ==
  /\ pass[p].at = "idle"
  /\ claimableWhere(row[m])
  /\ pass' = [pass EXCEPT ![p] = [at |-> "found", message |-> m, attempts |-> 0]]
  /\ UNCHANGED <<row, desk, holder, delivered, excused, mishaps>>

Claimed(r, w) == [status |-> "CLAIMED", owner |-> w, due |-> r.due,
                  lapsed |-> FALSE, attempts |-> r.attempts + 1]

\* The claim re-evaluates its condition against the row it locks.
ClaimOne(p) ==
  LET m == pass[p].message
  IN /\ pass[p].at = "found"
     /\ claimableWhere(row[m])
     /\ row' = [row EXCEPT ![m] = Claimed(@, WorkerOf[p])]
     /\ holder' = [holder EXCEPT ![m] = p]
     /\ excused' = [excused EXCEPT ![m] =
                      IF row[m].status = "CLAIMED" THEN @ + 1 ELSE @]
     /\ pass' = [pass EXCEPT ![p].at = "claimed"]
     /\ UNCHANGED <<desk, delivered, mishaps>>

ClaimLost(p) ==
  /\ pass[p].at = "found"
  /\ ~claimableWhere(row[pass[p].message])
  /\ pass' = [pass EXCEPT ![p] = Idle]
  /\ UNCHANGED <<row, desk, holder, delivered, excused, mishaps>>

\* The row is read back by its id, whoever holds it by now, and the provider
\* is called with nothing open.
StartSend(p) ==
  /\ pass[p].at = "claimed"
  /\ pass' = [pass EXCEPT ![p].at = "sending",
                          ![p].attempts = row[pass[p].message].attempts]
  /\ UNCHANGED <<row, desk, holder, delivered, excused, mishaps>>

\* External: the provider takes the message and says so, takes it and the
\* answer is lost, or refuses it for now or for good.
ProviderAnswers(p, answer) ==
  LET m == pass[p].message
  IN /\ pass[p].at = "sending"
     /\ pass' = [pass EXCEPT ![p].at = IF answer = "lost" THEN "refused"
                                       ELSE answer]
     /\ delivered' = [delivered EXCEPT ![m] =
                        IF answer \in {"accepted", "lost"} THEN @ + 1 ELSE @]
     /\ excused' = [excused EXCEPT ![m] =
                      IF answer = "lost" THEN @ + 1 ELSE @]
     /\ UNCHANGED <<row, desk, holder, mishaps>>

Answers == {"accepted", "lost", "refused", "unusable"}

StillOurs_Mutant(p) == row[pass[p].message].status = "CLAIMED"

StillOurs(p) == /\ row[pass[p].message].status = "CLAIMED"
                /\ row[pass[p].message].owner = WorkerOf[p]

\* afterFailure: permanent failures and spent attempts wait for a human.
AfterFailure(p) == IF \/ pass[p].at = "unusable"
                      \/ pass[p].attempts >= MaxAttempts
                   THEN "DEAD_LETTER" ELSE "RETRY_SCHEDULED"

Unleased_Mutant(r) == [r EXCEPT !.lapsed = FALSE]

Unleased(r) == [r EXCEPT !.owner = NoWorker, !.lapsed = FALSE]

Recorded(r, status) ==
  [Unleased(r) EXCEPT !.status = status,
                      !.due = IF status = "RETRY_SCHEDULED" THEN FALSE ELSE @]

Record(p, status) ==
  LET m == pass[p].message
  IN /\ row' = IF StillOurs(p)
               THEN [row EXCEPT ![m] = Recorded(@, status)]
               ELSE row
     /\ holder' = IF StillOurs(p) THEN [holder EXCEPT ![m] = NoPass] ELSE holder
     /\ pass' = [pass EXCEPT ![p] = Idle]
     /\ UNCHANGED <<desk, delivered, excused, mishaps>>

RecordSent(p) == pass[p].at = "accepted" /\ Record(p, "SENT")

RecordFailure(p) == /\ pass[p].at \in {"refused", "unusable"}
                    /\ Record(p, AfterFailure(p))

\* The process dies, or a statement throws out of the pass.  Its lease stays.
Crash(p) ==
  /\ pass[p].at # "idle"
  /\ mishaps < MaxMishaps
  /\ mishaps' = mishaps + 1
  /\ pass' = [pass EXCEPT ![p] = Idle]
  /\ UNCHANGED <<row, desk, holder, delivered, excused>>

-----------------------------------------------------------------------------
(* The clock.                                                              *)

ComesDue(m) ==
  /\ row[m].status = "RETRY_SCHEDULED"
  /\ ~row[m].due
  /\ row' = [row EXCEPT ![m].due = TRUE]
  /\ UNCHANGED <<pass, desk, holder, delivered, excused, mishaps>>

HolderWorks(m) == holder[m] \in Passes /\ Working(holder[m], m)

Lapses(m) == /\ row[m].status = "CLAIMED"
             /\ ~row[m].lapsed
             /\ row' = [row EXCEPT ![m].lapsed = TRUE]
             /\ UNCHANGED <<pass, desk, holder, delivered, excused>>

\* The lease of a pass that is gone; and one a send outlives: leases are not
\* renewed.
LeaseLapses(m) == ~HolderWorks(m) /\ Lapses(m) /\ UNCHANGED mishaps

LeaseOutlived(m) == /\ HolderWorks(m)
                    /\ mishaps < MaxMishaps
                    /\ mishaps' = mishaps + 1
                    /\ Lapses(m)

-----------------------------------------------------------------------------
(* The operator: each request reads the row, refuses what it may not       *)
(* touch, and writes under the condition it read.                          *)

OperatorReads(m) ==
  /\ desk = NoDesk
  /\ \/ row[m].status \in RETRYABLE_STATES \cup CANCELLABLE_STATES
     \/ row[m].status = "CLAIMED" /\ row[m].lapsed
  /\ desk' = [message |-> m, status |-> row[m].status, owner |-> row[m].owner]
  /\ UNCHANGED <<row, pass, holder, delivered, excused, mishaps>>

Requeued(r) == [Unleased(r) EXCEPT !.status = "QUEUED", !.due = TRUE,
                                   !.attempts = 0]

RetryNotification_Mutant ==
  LET m == desk.message
  IN /\ desk # NoDesk
     /\ desk.status \in RETRYABLE_STATES \cup {"CLAIMED"}
     /\ row[m].status = desk.status
     /\ mishaps < MaxMishaps
     /\ mishaps' = mishaps + 1
     /\ row' = [row EXCEPT ![m] = Requeued(@)]
     /\ desk' = NoDesk
     /\ UNCHANGED <<pass, holder, delivered, excused>>

RetryNotification ==
  LET m == desk.message
  IN /\ desk # NoDesk
     /\ desk.status \in RETRYABLE_STATES
     /\ row[m].status = desk.status
     /\ row[m].owner = NoWorker
     /\ mishaps < MaxMishaps
     /\ mishaps' = mishaps + 1
     /\ row' = [row EXCEPT ![m] = Requeued(@)]
     /\ desk' = NoDesk
     /\ UNCHANGED <<pass, holder, delivered, excused>>

MayWithdraw_Mutant(m) ==
  /\ desk.status \in CANCELLABLE_STATES \cup {"CLAIMED"}
  /\ row[m].status = desk.status

MayWithdraw(m) ==
  IF desk.status = "CLAIMED"
  THEN row[m].status = "CLAIMED" /\ row[m].owner = desk.owner /\ row[m].lapsed
  ELSE desk.status \in CANCELLABLE_STATES /\ row[m].status = desk.status

CancelNotification ==
  LET m == desk.message
  IN /\ desk # NoDesk
     /\ MayWithdraw(m)
     /\ row' = [row EXCEPT ![m] = Recorded(@, "CANCELLED")]
     /\ holder' = [holder EXCEPT ![m] = NoPass]
     /\ desk' = NoDesk
     /\ UNCHANGED <<pass, delivered, excused, mishaps>>

\* The request is refused with 409, or given up.
OperatorLeaves ==
  /\ desk # NoDesk
  /\ desk' = NoDesk
  /\ UNCHANGED <<row, pass, holder, delivered, excused, mishaps>>

-----------------------------------------------------------------------------
Init ==
  /\ row = [m \in Messages |-> [status |-> "QUEUED", owner |-> NoWorker,
                                due |-> TRUE, lapsed |-> FALSE, attempts |-> 0]]
  /\ pass = [p \in Passes |-> Idle]
  /\ desk = NoDesk
  /\ holder = [m \in Messages |-> NoPass]
  /\ delivered = [m \in Messages |-> 0]
  /\ excused = [m \in Messages |-> 0]
  /\ mishaps = 0

Step(p) ==
  \/ \E m \in Messages : FindDue(p, m)
  \/ ClaimOne(p)
  \/ ClaimLost(p)
  \/ StartSend(p)
  \/ \E answer \in Answers : ProviderAnswers(p, answer)
  \/ RecordSent(p)
  \/ RecordFailure(p)

Clock(m) == ComesDue(m) \/ LeaseLapses(m)

Next ==
  \/ \E p \in Passes : Step(p) \/ Crash(p)
  \/ \E m \in Messages : Clock(m) \/ LeaseOutlived(m) \/ OperatorReads(m)
  \/ RetryNotification
  \/ CancelNotification
  \/ OperatorLeaves

\* The scheduler keeps starting passes, a started pass keeps going unless it
\* crashes, the provider answers, and time passes.  Nobody owes an operator.
Fairness == /\ \A p \in Passes : WF_vars(Step(p))
            /\ \A m \in Messages : WF_vars(Clock(m))

Spec == Init /\ [][Next]_vars /\ Fairness

-----------------------------------------------------------------------------
(* Properties.                                                             *)

\* The pass ends its work on the message, under the name on its lease.
HolderEnds(p, m) ==
  /\ WorkerOf[p] = row[m].owner
  /\ Working(p, m)
  /\ pass'[p] = Idle

\* A claim is ended under the name it was made in, by an operator or by nobody:
\* a worker whose lease lapsed and was taken over by another writes nothing
\* over what the new owner is doing (recordSent, recordFailure).  Passes of one
\* process share their name and are not told apart.
RecordedByHolder ==
  [][\A m \in Messages :
       (row[m].status = "CLAIMED"
          /\ row'[m].status \in {"SENT", "RETRY_SCHEDULED", "DEAD_LETTER"})
       => \E p \in Passes : HolderEnds(p, m)]_vars

\* While a lease lives the message is its worker's: nobody else claims,
\* requeues or withdraws it in between, whatever was read before (claimOne,
\* retryNotification, cancelNotification).
LeaseIsRespected ==
  [][\A m \in Messages :
       (row[m].status = "CLAIMED" /\ ~row[m].lapsed
          /\ row'[m] # row[m] /\ ~row'[m].lapsed)
       => \E p \in Passes : HolderEnds(p, m)]_vars

\* A recipient hears twice only of a message whose lease was taken over or
\* whose answer was lost: nothing else in the protocol sends a message again
\* ("a duplicate, and it is the correct trade", dispatcher.js).
DuplicatesHaveACause ==
  \A m \in Messages : delivered[m] <= 1 + excused[m]

\* Whoever holds it and however often it is tried, a message waits until it
\* is sent, given up or withdrawn.
FateOf(status) == CASE status = "SENT" -> "sent"
                    [] status = "CANCELLED" -> "withdrawn"
                    [] status \in {"DEAD_LETTER", "FAILED"} -> "dead"
                    [] OTHER -> "waiting"

fateBar == [m \in Messages |-> FateOf(row[m].status)]

reachedBar == {m \in Messages : delivered[m] > 0}

Promise == INSTANCE Delivery WITH fate <- fateBar, reached <- reachedBar

\* The outbox keeps the promise of Delivery: what it calls SENT reached the
\* provider, SENT and CANCELLED are final, and no message waits for ever.
ImplementsDelivery == Promise!Spec
=============================================================================
