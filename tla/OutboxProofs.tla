---------------------------- MODULE OutboxProofs ----------------------------
(***************************************************************************)
(* For every set of messages, passes and attempts: the outbox implements   *)
(* Delivery's safety, delivers a message a second time only for a cause,   *)
(* ends a claim under the name it was made in, and respects a live lease,  *)
(* whatever names are on the leases and however many passes share one.     *)
(*                                                                         *)
(* The inductive invariant ties the three records of a claim together: a   *)
(* claimed row names the worker of the pass that holds it, a pass past its *)
(* find has a message, and one the provider said yes to has been heard.    *)
(* What is delivered is accounted for by the claims: see Accounted.        *)
(***************************************************************************)
EXTENDS Outbox, FiniteSets, FiniteSetTheorems, TLAPS

\* The worker on the lease is the holder's.
LeaseNamesHolder ==
  \A m \in Messages : row[m].status = "CLAIMED" =>
    holder[m] \in Passes /\ row[m].owner = WorkerOf[holder[m]]

\* A pass that is doing something does it to a message.
PassesHaveMessages ==
  \A p \in Passes : pass[p].at # "idle" => pass[p].message \in Messages

\* An accepted message was delivered.
AcceptedWasDelivered ==
  \A p \in Passes : pass[p].at = "accepted" => delivered[pass[p].message] > 0

\* A request that has read a row names a message.
DeskHasMessage == desk # NoDesk => desk.message \in Messages

Counts == delivered \in [Messages -> Nat]

Shapes == /\ row \in [Messages -> Row]
          /\ pass \in [Passes -> Pass]
          /\ DOMAIN holder = Messages

IInv == /\ Shapes
        /\ Counts
        /\ LeaseNamesHolder
        /\ PassesHaveMessages
        /\ AcceptedWasDelivered
        /\ DeskHasMessage

-----------------------------------------------------------------------------
\* One row changes.
LEMMA OneRow ==
  ASSUME row \in [Messages -> Row], NEW m \in Messages, NEW r \in Row,
         row' = [row EXCEPT ![m] = r]
  PROVE  /\ row' \in [Messages -> Row]
         /\ row'[m] = r
         /\ \A k \in Messages : k # m => row'[k] = row[k]
OBVIOUS

\* One pass changes.
LEMMA OnePass ==
  ASSUME pass \in [Passes -> Pass], NEW p \in Passes, NEW n \in Pass,
         pass' = [pass EXCEPT ![p] = n]
  PROVE  /\ pass' \in [Passes -> Pass]
         /\ pass'[p] = n
         /\ \A q \in Passes : q # p => pass'[q] = pass[q]
OBVIOUS

\* Steps of a pass that leave rows and leases alone.
LEMMA PassKeeps ==
  ASSUME IInv, NEW p \in Passes, NEW n \in Pass,
         pass' = [pass EXCEPT ![p] = n], UNCHANGED <<row, holder, desk>>,
         Counts', \A m \in Messages : delivered'[m] >= delivered[m],
         n.at # "idle" => n.message \in Messages,
         n.at = "accepted" => delivered'[n.message] > 0
  PROVE  IInv'
<1>1. /\ pass' \in [Passes -> Pass]
      /\ pass'[p] = n
      /\ \A q \in Passes : q # p => pass'[q] = pass[q]
  BY OnePass DEF IInv, Shapes
<1>2. Shapes' /\ LeaseNamesHolder'
  BY <1>1 DEF IInv, Shapes, LeaseNamesHolder
<1>3. PassesHaveMessages'
  BY <1>1 DEF IInv, PassesHaveMessages
<1>4. AcceptedWasDelivered'
  <2>1. SUFFICES ASSUME NEW q \in Passes, pass'[q].at = "accepted"
        PROVE  delivered'[pass'[q].message] > 0
    BY DEF AcceptedWasDelivered
  <2>2. CASE q = p
    BY <1>1, <2>1, <2>2
  <2>3. CASE q # p
    <3>1. pass'[q] = pass[q] /\ pass[q].message \in Messages
      BY <1>1, <2>1, <2>3 DEF IInv, PassesHaveMessages
    <3>2. delivered[pass[q].message] > 0
      BY <2>1, <3>1 DEF IInv, AcceptedWasDelivered
    <3>3. /\ delivered[pass[q].message] \in Nat
          /\ delivered'[pass[q].message] \in Nat
      BY <3>1 DEF IInv, Counts
    <3>4. QED
      BY <3>1, <3>2, <3>3
  <2>4. QED
    BY <2>2, <2>3
<1>5. DeskHasMessage'
  BY DEF IInv, DeskHasMessage
<1>6. QED
  BY <1>2, <1>3, <1>4, <1>5 DEF IInv

\* Steps that change one row and its holder, and may idle a pass.
LEMMA RowKeeps ==
  ASSUME IInv, NEW m \in Messages, NEW r \in Row,
         row' = [row EXCEPT ![m] = r], UNCHANGED delivered,
         desk' \in {desk, NoDesk},
         DOMAIN holder' = Messages,
         \A k \in Messages : k # m => holder'[k] = holder[k],
         r.status = "CLAIMED" =>
           holder'[m] \in Passes /\ r.owner = WorkerOf[holder'[m]],
         pass' \in [Passes -> Pass],
         \A q \in Passes :
           \/ pass'[q] = pass[q]
           \/ pass'[q].at = "idle"
           \/ /\ pass'[q].at = "claimed" /\ pass[q].at = "found"
              /\ pass'[q].message = pass[q].message
  PROVE  IInv'
<1>1. /\ row' \in [Messages -> Row]
      /\ row'[m] = r
      /\ \A k \in Messages : k # m => row'[k] = row[k]
  BY OneRow DEF IInv, Shapes
<1>2. Shapes' /\ Counts'
  BY <1>1 DEF IInv, Shapes, Counts
<1>3. LeaseNamesHolder'
  BY <1>1 DEF IInv, LeaseNamesHolder
<1>4. PassesHaveMessages'
  BY DEF IInv, PassesHaveMessages
<1>5. AcceptedWasDelivered'
  BY DEF IInv, AcceptedWasDelivered
<1>6. DeskHasMessage'
  BY DEF IInv, DeskHasMessage
<1>7. QED
  BY <1>2, <1>3, <1>4, <1>5, <1>6 DEF IInv

-----------------------------------------------------------------------------
\* Rows as the actions rewrite them.
LEMMA ClaimedRow ==
  ASSUME NEW r \in Row, NEW w \in Workers
  PROVE  /\ Claimed(r, w) \in Row
         /\ Claimed(r, w).status = "CLAIMED"
         /\ Claimed(r, w).owner = w
<1>1. r.due \in BOOLEAN /\ r.attempts + 1 \in Nat
  BY DEF Row
<1>2. QED
  BY <1>1 DEF Claimed, Row, OUTBOX_STATES

LEMMA RecordedRow ==
  ASSUME NEW r \in Row, NEW s \in OUTBOX_STATES
  PROVE  Recorded(r, s) \in Row /\ Recorded(r, s).status = s
<1>1. Unleased(r) \in Row
  BY DEF Row, Unleased
<1>2. ASSUME NEW u \in Row, NEW d \in BOOLEAN
      PROVE  /\ [u EXCEPT !.status = s, !.due = d] \in Row
             /\ [u EXCEPT !.status = s, !.due = d].status = s
  BY DEF Row
<1>3. (IF s = "RETRY_SCHEDULED" THEN FALSE ELSE Unleased(r).due) \in BOOLEAN
  BY <1>1 DEF Row
<1>4. QED
  BY <1>1, <1>2, <1>3 DEF Recorded

LEMMA Rewritten ==
  ASSUME NEW r \in Row
  PROVE  /\ Requeued(r) \in Row
         /\ Requeued(r).status = "QUEUED"
         /\ [r EXCEPT !.due = TRUE] \in Row
         /\ [r EXCEPT !.due = TRUE].status = r.status
         /\ [r EXCEPT !.due = TRUE].owner = r.owner
         /\ [r EXCEPT !.lapsed = TRUE] \in Row
         /\ [r EXCEPT !.lapsed = TRUE].status = r.status
         /\ [r EXCEPT !.lapsed = TRUE].owner = r.owner
         /\ [r EXCEPT !.lapsed = TRUE].lapsed = TRUE
<1>1. Unleased(r) \in Row
  BY DEF Row, Unleased
<1>2. Requeued(r) \in Row /\ Requeued(r).status = "QUEUED"
  BY <1>1 DEF Requeued, Row, OUTBOX_STATES
<1>3. QED
  BY <1>2 DEF Row

LEMMA IdlePass == Idle \in Pass /\ Idle.at = "idle"
BY DEF Idle, Pass, Stages

-----------------------------------------------------------------------------
LEMMA FindKeeps ==
  ASSUME IInv, NEW p \in Passes, NEW m \in Messages, FindDue(p, m)
  PROVE  IInv'
<1> DEFINE n == [at |-> "found", message |-> m, attempts |-> 0]
<1>1. n \in Pass /\ n.at = "found" /\ n.message = m
  BY DEF Pass, Stages
<1>2. pass' = [pass EXCEPT ![p] = n] /\ UNCHANGED <<row, holder, delivered, desk>>
  BY DEF FindDue
<1>3. Counts' /\ \A k \in Messages : delivered'[k] >= delivered[k]
  BY <1>2 DEF IInv, Counts
<1> HIDE DEF n
<1>4. QED
  BY <1>1, <1>2, <1>3, PassKeeps

LEMMA ClaimKeeps ==
  ASSUME IInv, NEW p \in Passes, ClaimOne(p)
  PROVE  IInv'
<1> DEFINE m == pass[p].message
           n == [pass[p] EXCEPT !.at = "claimed"]
<1>1. m \in Messages /\ pass[p] \in Pass /\ row[m] \in Row
  BY DEF IInv, Shapes, PassesHaveMessages, ClaimOne
<1>2. n \in Pass /\ n.at = "claimed" /\ n.message = m
  BY <1>1 DEF Pass, Stages
<1>3. /\ row' = [row EXCEPT ![m] = Claimed(row[m], WorkerOf[p])]
      /\ holder' = [holder EXCEPT ![m] = p]
      /\ pass' = [pass EXCEPT ![p] = n]
      /\ UNCHANGED delivered
      /\ pass[p].at = "found"
  BY DEF ClaimOne
<1>4. WorkerOf[p] \in Workers
  BY OutboxAssumption
<1> DEFINE r == Claimed(row[m], WorkerOf[p])
<1>5. r \in Row /\ r.owner = WorkerOf[p]
  BY <1>1, <1>4, ClaimedRow
<1>6. /\ DOMAIN holder' = Messages
      /\ holder'[m] = p
      /\ \A k \in Messages : k # m => holder'[k] = holder[k]
  BY <1>1, <1>3 DEF IInv, Shapes
<1> HIDE DEF n
<1>7. /\ pass' \in [Passes -> Pass]
      /\ pass'[p] = n
      /\ \A q \in Passes : q # p => pass'[q] = pass[q]
  BY <1>2, <1>3, OnePass DEF IInv, Shapes
<1> HIDE DEF m
<1>8. \A q \in Passes :
        \/ pass'[q] = pass[q]
        \/ pass'[q].at = "idle"
        \/ /\ pass'[q].at = "claimed" /\ pass[q].at = "found"
           /\ pass'[q].message = pass[q].message
  BY <1>2, <1>3, <1>7 DEF m
<1>9. row' = [row EXCEPT ![m] = r] /\ UNCHANGED <<delivered, desk>>
  BY <1>3 DEF ClaimOne
<1> HIDE DEF r
<1>10. QED
  BY <1>1, <1>5, <1>6, <1>7, <1>8, <1>9, RowKeeps

LEMMA PassStepKeeps ==
  ASSUME IInv, NEW p \in Passes,
         \/ ClaimLost(p)
         \/ StartSend(p)
         \/ \E answer \in Answers : ProviderAnswers(p, answer)
         \/ Crash(p)
  PROVE  IInv'
<1>1. pass[p] \in Pass
  BY DEF IInv, Shapes
<1>2. Counts /\ \A k \in Messages : delivered[k] >= delivered[k]
  BY DEF IInv, Counts
<1>3. CASE ClaimLost(p) \/ Crash(p)
  <2>1. pass' = [pass EXCEPT ![p] = Idle] /\ UNCHANGED <<row, holder, delivered, desk>>
    BY <1>3 DEF ClaimLost, Crash
  <2>2. Counts' /\ \A k \in Messages : delivered'[k] >= delivered[k]
    BY <1>2, <2>1 DEF Counts
  <2>3. QED
    BY <2>1, <2>2, IdlePass, PassKeeps
<1>4. CASE StartSend(p)
  <2> DEFINE a == row[pass[p].message].attempts
             n == [pass[p] EXCEPT !.at = "sending", !.attempts = a]
  <2>1. pass[p].message \in Messages
    BY <1>4 DEF StartSend, IInv, PassesHaveMessages
  <2>2. a \in Nat
    BY <2>1 DEF IInv, Shapes, Row
  <2>3. n \in Pass /\ n.at = "sending" /\ n.message = pass[p].message
    <3> HIDE DEF a
    <3> QED BY <1>1, <2>2 DEF Pass, Stages
  <2>4. UNCHANGED <<row, holder, delivered, desk>>
    BY <1>4 DEF StartSend
  <2>5. pass' = [pass EXCEPT ![p] = n]
    BY <1>4 DEF StartSend
  <2>6. Counts' /\ \A k \in Messages : delivered'[k] >= delivered[k]
    BY <1>2, <2>4 DEF Counts
  <2> HIDE DEF n, a
  <2>7. QED
    BY <2>1, <2>3, <2>4, <2>5, <2>6, PassKeeps
<1>5. ASSUME NEW answer \in Answers, ProviderAnswers(p, answer)
      PROVE  IInv'
  <2> DEFINE m == pass[p].message
             s == IF answer = "lost" THEN "refused" ELSE answer
             n == [pass[p] EXCEPT !.at = s]
  <2>1. m \in Messages
    BY <1>5 DEF ProviderAnswers, IInv, PassesHaveMessages
  <2>2. s \in Stages /\ s # "idle"
    BY DEF Answers, Stages
  <2>3. n \in Pass /\ n.at = s /\ n.message = m
    <3> HIDE DEF s
    <3> QED BY <1>1, <2>2 DEF Pass
  <2>4. /\ pass' = [pass EXCEPT ![p] = n]
        /\ UNCHANGED <<row, holder, desk>>
    BY <1>5 DEF ProviderAnswers
  <2>5. Counts' /\ \A k \in Messages : delivered'[k] >= delivered[k]
    <3>1. \/ UNCHANGED delivered
          \/ delivered' = [delivered EXCEPT ![m] = @ + 1]
      BY <1>5, <2>1 DEF ProviderAnswers, IInv, Counts
    <3> HIDE DEF m
    <3>2. QED
      BY <1>2, <2>1, <3>1 DEF Counts
  <2>6. s = "accepted" => delivered'[m] > 0
    <3>1. s = "accepted" => delivered' = [delivered EXCEPT ![m] = @ + 1]
      BY <1>5 DEF ProviderAnswers
    <3> HIDE DEF m, s
    <3>2. QED
      BY <1>2, <2>1, <3>1 DEF Counts
  <2> HIDE DEF n, m, s
  <2>7. QED
    BY <2>1, <2>2, <2>3, <2>4, <2>5, <2>6, PassKeeps
<1>6. QED
  BY <1>3, <1>4, <1>5

\* The end of a claim: by the pass that records it, or by the operator.
LEMMA RecordKeeps ==
  ASSUME IInv, NEW p \in Passes, NEW s \in OUTBOX_STATES \ {"CLAIMED"},
         pass[p].at # "idle", Record(p, s)
  PROVE  IInv'
<1> DEFINE m == pass[p].message
<1>1. m \in Messages /\ row[m] \in Row
  BY DEF IInv, Shapes, PassesHaveMessages
<1>2. /\ pass' \in [Passes -> Pass]
      /\ pass'[p] = Idle
      /\ \A q \in Passes : q # p => pass'[q] = pass[q]
  BY OnePass, IdlePass DEF IInv, Shapes, Record
<1>3. \A q \in Passes : pass'[q] = pass[q] \/ pass'[q].at = "idle"
  BY <1>2, IdlePass
<1>4. UNCHANGED <<delivered, desk>>
  BY DEF Record
<1>5. CASE StillOurs(p)
  <2>1. /\ row' = [row EXCEPT ![m] = Recorded(row[m], s)]
        /\ holder' = [holder EXCEPT ![m] = NoPass]
    BY <1>5 DEF Record
  <2> DEFINE r == Recorded(row[m], s)
  <2>2. r \in Row /\ r.status = s
    BY <1>1, RecordedRow
  <2>3. /\ DOMAIN holder' = Messages
        /\ \A k \in Messages : k # m => holder'[k] = holder[k]
    BY <1>1, <2>1 DEF IInv, Shapes
  <2>4. row' = [row EXCEPT ![m] = r]
    BY <2>1
  <2> HIDE DEF m, r
  <2>5. QED
    BY <1>1, <1>2, <1>3, <1>4, <2>2, <2>3, <2>4, RowKeeps
<1>6. CASE ~StillOurs(p)
  <2>1. UNCHANGED <<row, holder>> /\ pass' = [pass EXCEPT ![p] = Idle]
    BY <1>6 DEF Record
  <2>2. Counts' /\ \A k \in Messages : delivered'[k] >= delivered[k]
    BY <1>4 DEF IInv, Counts
  <2>3. QED
    BY <1>4, <2>1, <2>2, IdlePass, PassKeeps
<1>7. QED
  BY <1>5, <1>6

LEMMA RecordsKeep ==
  ASSUME IInv, NEW p \in Passes, RecordSent(p) \/ RecordFailure(p)
  PROVE  IInv'
<1>1. \E s \in OUTBOX_STATES \ {"CLAIMED"} : Record(p, s)
  BY DEF RecordSent, RecordFailure, AfterFailure, OUTBOX_STATES
<1>2. pass[p].at # "idle"
  BY DEF RecordSent, RecordFailure
<1>3. QED
  BY <1>1, <1>2, RecordKeeps

LEMMA ClockKeeps ==
  ASSUME IInv, NEW m \in Messages,
         ComesDue(m) \/ LeaseLapses(m) \/ LeaseOutlived(m)
  PROVE  IInv'
<1>1. row[m] \in Row
  BY DEF IInv, Shapes
<1>2. UNCHANGED <<pass, holder, delivered, desk>>
  BY DEF ComesDue, LeaseLapses, LeaseOutlived, Lapses
<1>3. PICK r \in Row : /\ row' = [row EXCEPT ![m] = r]
                       /\ r.status = row[m].status
                       /\ r.owner = row[m].owner
  <2>1. CASE ComesDue(m)
    <3>1. row' = [row EXCEPT ![m] = [row[m] EXCEPT !.due = TRUE]]
      BY <2>1 DEF ComesDue
    <3>2. QED
      BY <1>1, <3>1, Rewritten
  <2>2. CASE Lapses(m)
    <3>1. row' = [row EXCEPT ![m] = [row[m] EXCEPT !.lapsed = TRUE]]
      BY <2>2 DEF Lapses
    <3>2. QED
      BY <1>1, <3>1, Rewritten
  <2>3. QED
    BY <2>1, <2>2 DEF LeaseLapses, LeaseOutlived
<1>4. /\ DOMAIN holder' = Messages
      /\ \A k \in Messages : k # m => holder'[k] = holder[k]
      /\ pass' \in [Passes -> Pass]
      /\ r.status = "CLAIMED" =>
           holder'[m] \in Passes /\ r.owner = WorkerOf[holder'[m]]
  BY <1>2, <1>3 DEF IInv, Shapes, LeaseNamesHolder
<1>5. \A q \in Passes : pass'[q] = pass[q]
  BY <1>2
<1>6. QED
  BY <1>2, <1>3, <1>4, <1>5, RowKeeps

\* The operator's steps: a row is requeued or withdrawn, or only the desk
\* changes.
LEMMA OperatorKeeps ==
  ASSUME IInv,
         \/ \E m \in Messages : OperatorReads(m)
         \/ RetryNotification
         \/ CancelNotification
         \/ OperatorLeaves
  PROVE  IInv'
<1> DEFINE m == desk.message
<1>1. ASSUME NEW r \in Row, r.status # "CLAIMED", desk # NoDesk,
             row' = [row EXCEPT ![m] = r],
             \/ UNCHANGED holder
             \/ holder' = [holder EXCEPT ![m] = NoPass],
             desk' = NoDesk, UNCHANGED <<pass, delivered>>
      PROVE  IInv'
  <2>1. m \in Messages
    BY <1>1 DEF IInv, DeskHasMessage
  <2> HIDE DEF m
  <2>2. /\ DOMAIN holder' = Messages
        /\ \A k \in Messages : k # m => holder'[k] = holder[k]
        /\ pass' \in [Passes -> Pass]
        /\ \A q \in Passes : pass'[q] = pass[q]
    BY <1>1, <2>1 DEF IInv, Shapes
  <2>3. QED
    BY <1>1, <2>1, <2>2, RowKeeps
<1>2. desk # NoDesk => m \in Messages /\ row[m] \in Row
  BY DEF IInv, DeskHasMessage, Shapes
<1>3. CASE RetryNotification
  <2> DEFINE r == Requeued(row[m])
  <2>1. r \in Row /\ r.status = "QUEUED"
    BY <1>2, <1>3, Rewritten DEF RetryNotification
  <2>2. /\ row' = [row EXCEPT ![m] = r] /\ desk # NoDesk /\ desk' = NoDesk
        /\ UNCHANGED <<pass, holder, delivered>>
    BY <1>3 DEF RetryNotification
  <2> HIDE DEF r, m
  <2>3. QED
    BY <1>1, <2>1, <2>2
<1>4. CASE CancelNotification
  <2> DEFINE r == Recorded(row[m], "CANCELLED")
  <2>1. r \in Row /\ r.status = "CANCELLED"
    BY <1>2, <1>4, RecordedRow DEF CancelNotification, OUTBOX_STATES
  <2>2. /\ row' = [row EXCEPT ![m] = r] /\ desk # NoDesk /\ desk' = NoDesk
        /\ UNCHANGED <<pass, delivered>>
        /\ holder' = [holder EXCEPT ![m] = NoPass]
    BY <1>4 DEF CancelNotification
  <2> HIDE DEF r, m
  <2>3. QED
    BY <1>1, <2>1, <2>2
<1>5. ASSUME NEW k \in Messages, OperatorReads(k) PROVE IInv'
  <2>1. /\ UNCHANGED <<row, pass, holder, delivered>>
        /\ desk'.message = k
    BY <1>5 DEF OperatorReads
  <2>2. QED
    BY <2>1
    DEF IInv, Shapes, Counts, LeaseNamesHolder, PassesHaveMessages,
        AcceptedWasDelivered, DeskHasMessage
<1>6. CASE OperatorLeaves
  BY <1>6
  DEF OperatorLeaves, IInv, Shapes, Counts, LeaseNamesHolder,
      PassesHaveMessages, AcceptedWasDelivered, DeskHasMessage
<1>7. QED
  BY <1>3, <1>4, <1>5, <1>6

LEMMA Initially == Init => IInv
<1> SUFFICES ASSUME Init PROVE IInv
  OBVIOUS
<1>1. Idle \in Pass /\ Idle.at = "idle"
  BY IdlePass
<1>2. [status |-> "QUEUED", owner |-> NoWorker, due |-> TRUE,
       lapsed |-> FALSE, attempts |-> 0] \in Row
  BY DEF Row, OUTBOX_STATES
<1>3. Shapes /\ Counts
  BY <1>1, <1>2 DEF Init, Shapes, Counts
<1>4. LeaseNamesHolder
  BY DEF Init, LeaseNamesHolder
<1>5. PassesHaveMessages /\ AcceptedWasDelivered /\ DeskHasMessage
  BY <1>1 DEF Init, PassesHaveMessages, AcceptedWasDelivered, DeskHasMessage
<1>6. QED
  BY <1>3, <1>4, <1>5 DEF IInv

LEMMA Inductive == IInv /\ [Next]_vars => IInv'
<1> SUFFICES ASSUME IInv, [Next]_vars PROVE IInv'
  OBVIOUS
<1>1. ASSUME NEW p \in Passes, Step(p) PROVE IInv'
  BY <1>1, FindKeeps, ClaimKeeps, PassStepKeeps, RecordsKeep DEF Step
<1>2. ASSUME NEW p \in Passes, Crash(p) PROVE IInv'
  BY <1>2, PassStepKeeps
<1>3. ASSUME NEW m \in Messages, Clock(m) \/ LeaseOutlived(m) PROVE IInv'
  BY <1>3, ClockKeeps DEF Clock
<1>4. ASSUME NEW m \in Messages, OperatorReads(m) PROVE IInv'
  BY <1>4, OperatorKeeps
<1>5. CASE RetryNotification \/ CancelNotification \/ OperatorLeaves
  BY <1>5, OperatorKeeps
<1>6. CASE UNCHANGED vars
  BY <1>6
  DEF vars, IInv, Shapes, Counts, LeaseNamesHolder, PassesHaveMessages,
      AcceptedWasDelivered, DeskHasMessage
<1>7. QED
  BY <1>1, <1>2, <1>3, <1>4, <1>5, <1>6 DEF Next

LEMMA Invariance == Spec => []IInv
BY Initially, Inductive, PTL DEF Spec

-----------------------------------------------------------------------------
(* Types.                                                                  *)

\* A lease has a name on it exactly while the row is claimed.
OwnedIfClaimed(r) == r.owner # NoWorker <=> r.status = "CLAIMED"

LEMMA OwnersOfRewritten ==
  ASSUME NEW r \in Row
  PROVE  /\ \A w \in Workers : OwnedIfClaimed(Claimed(r, w))
         /\ \A s \in OUTBOX_STATES \ {"CLAIMED"} : OwnedIfClaimed(Recorded(r, s))
         /\ OwnedIfClaimed(Requeued(r))
<1>1. \A w \in Workers : OwnedIfClaimed(Claimed(r, w))
  BY SentinelAssumption DEF OwnedIfClaimed, Claimed
<1>2. Unleased(r) \in Row /\ Unleased(r).owner = NoWorker
  BY DEF Row, Unleased
<1>3. \A s \in OUTBOX_STATES : Recorded(r, s).owner = NoWorker
  <2>1. ASSUME NEW u \in Row, NEW s, NEW d, u.owner = NoWorker
        PROVE  [u EXCEPT !.status = s, !.due = d].owner = NoWorker
    BY <2>1 DEF Row
  <2>2. QED
    BY <1>2, <2>1 DEF Recorded
<1>4. \A s \in OUTBOX_STATES \ {"CLAIMED"} : OwnedIfClaimed(Recorded(r, s))
  BY <1>3, RecordedRow DEF OwnedIfClaimed
<1>5. Requeued(r).owner = NoWorker /\ Requeued(r).status = "QUEUED"
  BY <1>2, Rewritten DEF Requeued, Row
<1>6. QED
  BY <1>1, <1>4, <1>5 DEF OwnedIfClaimed

\* So every row is owned by somebody exactly while it is claimed.
LEMMA RowsOwned ==
  ASSUME IInv, [Next]_vars, NEW m \in Messages, OwnedIfClaimed(row[m])
  PROVE  OwnedIfClaimed(row'[m])
<1>1. row[m] \in Row
  BY DEF IInv, Shapes
<1>2. ASSUME NEW p \in Passes, ClaimOne(p) PROVE OwnedIfClaimed(row'[m])
  <2> DEFINE k == pass[p].message
  <2>1. row' = [row EXCEPT ![k] = Claimed(row[k], WorkerOf[p])]
    BY <1>2 DEF ClaimOne
  <2>2. row'[m] = row[m] \/ row'[m] = Claimed(row[m], WorkerOf[p])
    <3> HIDE DEF k
    <3> QED BY <2>1 DEF IInv, Shapes
  <2>3. QED
    BY <1>1, <2>2, OutboxAssumption, OwnersOfRewritten
<1>3. ASSUME NEW p \in Passes, RecordSent(p) \/ RecordFailure(p)
      PROVE  OwnedIfClaimed(row'[m])
  <2> DEFINE k == pass[p].message
  <2>1. PICK s \in OUTBOX_STATES \ {"CLAIMED"} : Record(p, s)
    BY <1>3 DEF RecordSent, RecordFailure, AfterFailure, OUTBOX_STATES
  <2>2. row' = row \/ row' = [row EXCEPT ![k] = Recorded(row[k], s)]
    BY <2>1 DEF Record
  <2>3. row'[m] = row[m] \/ row'[m] = Recorded(row[m], s)
    <3> HIDE DEF k
    <3> QED BY <2>2 DEF IInv, Shapes
  <2>4. QED
    BY <1>1, <2>3, OwnersOfRewritten
<1>4. ASSUME NEW k \in Messages, ComesDue(k) \/ Lapses(k)
      PROVE  OwnedIfClaimed(row'[m])
  <2>1. \/ row'[m] = row[m]
        \/ row'[m] = [row[m] EXCEPT !.due = TRUE]
        \/ row'[m] = [row[m] EXCEPT !.lapsed = TRUE]
    BY <1>4 DEF ComesDue, Lapses, IInv, Shapes
  <2>2. QED
    BY <1>1, <2>1, Rewritten DEF OwnedIfClaimed
<1>5. CASE RetryNotification
  <2>1. row'[m] = row[m] \/ row'[m] = Requeued(row[m])
    BY <1>5 DEF RetryNotification, IInv, Shapes
  <2>2. QED
    BY <1>1, <2>1, OwnersOfRewritten
<1>6. CASE CancelNotification
  <2> DEFINE k == desk.message
  <2>1. row' = [row EXCEPT ![k] = Recorded(row[k], "CANCELLED")]
    BY <1>6 DEF CancelNotification
  <2>2. row'[m] = row[m] \/ row'[m] = Recorded(row[m], "CANCELLED")
    <3> HIDE DEF k
    <3> QED BY <2>1 DEF IInv, Shapes
  <2>3. "CANCELLED" \in OUTBOX_STATES \ {"CLAIMED"}
    BY DEF OUTBOX_STATES
  <2>4. QED
    BY <1>1, <2>2, <2>3, OwnersOfRewritten
<1>7. CASE UNCHANGED row
  BY <1>7
<1>8. QED
  BY <1>2, <1>3, <1>4, <1>5, <1>6, <1>7
  DEF Next, Step, FindDue, ClaimLost, StartSend, ProviderAnswers, Crash, Clock,
      LeaseLapses, LeaseOutlived, OperatorReads, OperatorLeaves, vars

DeskType == [message: Messages \cup {NoMessage}, status: OUTBOX_STATES,
             owner: Workers \cup {NoWorker}]

LEMMA DeskTyped ==
  ASSUME IInv, [Next]_vars, desk \in DeskType
  PROVE  desk' \in DeskType
<1>1. NoDesk \in DeskType
  BY DEF NoDesk, DeskType, OUTBOX_STATES
<1>2. ASSUME NEW m \in Messages, OperatorReads(m)
      PROVE  desk' \in DeskType
  <2>1. row[m] \in Row
    BY DEF IInv, Shapes
  <2>2. QED
    BY <1>2, <2>1 DEF OperatorReads, DeskType, Row
<1>3. desk' = desk \/ desk' = NoDesk \/ \E m \in Messages : OperatorReads(m)
  BY DEF Next, Step, FindDue, ClaimOne, ClaimLost, StartSend, ProviderAnswers,
         RecordSent, RecordFailure, Record, Crash, Clock, ComesDue, LeaseLapses,
         LeaseOutlived, Lapses, RetryNotification, CancelNotification,
         OperatorLeaves, vars
<1>4. QED
  BY <1>1, <1>2, <1>3

LEMMA CountsTyped ==
  ASSUME IInv, [Next]_vars, holder \in [Messages -> Passes \cup {NoPass}],
         excused \in [Messages -> Nat], mishaps \in 0..MaxMishaps
  PROVE  /\ holder' \in [Messages -> Passes \cup {NoPass}]
         /\ excused' \in [Messages -> Nat]
         /\ mishaps' \in 0..MaxMishaps
<1>1. MaxMishaps \in Nat
  BY OutboxAssumption
<1>2. \/ holder' = holder
      \/ \E p \in Passes : \E k : holder' = [holder EXCEPT ![k] = p]
      \/ \E k : holder' = [holder EXCEPT ![k] = NoPass]
  BY DEF Next, Step, FindDue, ClaimOne, ClaimLost, StartSend, ProviderAnswers,
         RecordSent, RecordFailure, Record, Crash, Clock, ComesDue, LeaseLapses,
         LeaseOutlived, Lapses, OperatorReads, RetryNotification,
         CancelNotification, OperatorLeaves, vars
<1>3. \/ excused' = excused
      \/ \E k : excused' = [excused EXCEPT ![k] = @ + 1]
      \/ \E k : excused' = [excused EXCEPT ![k] = @]
  BY DEF Next, Step, FindDue, ClaimOne, ClaimLost, StartSend, ProviderAnswers,
         RecordSent, RecordFailure, Record, Crash, Clock, ComesDue, LeaseLapses,
         LeaseOutlived, Lapses, OperatorReads, RetryNotification,
         CancelNotification, OperatorLeaves, vars
<1>4. mishaps' = mishaps \/ (mishaps < MaxMishaps /\ mishaps' = mishaps + 1)
  BY DEF Next, Step, FindDue, ClaimOne, ClaimLost, StartSend, ProviderAnswers,
         RecordSent, RecordFailure, Record, Crash, Clock, ComesDue, LeaseLapses,
         LeaseOutlived, Lapses, OperatorReads, RetryNotification,
         CancelNotification, OperatorLeaves, vars
<1>5. QED
  BY <1>1, <1>2, <1>3, <1>4

\* The outbox is well formed; a row has a name on its lease exactly while it is
\* claimed, whoever ends the claim.
THEOREM Typed == Spec => []TypeOK
<1> DEFINE Rest ==
      /\ \A m \in Messages : OwnedIfClaimed(row[m])
      /\ desk \in DeskType
      /\ holder \in [Messages -> Passes \cup {NoPass}]
      /\ excused \in [Messages -> Nat]
      /\ mishaps \in 0..MaxMishaps
<1>1. Init => Rest
  BY OutboxAssumption
  DEF Init, OwnedIfClaimed, DeskType, NoDesk, OUTBOX_STATES
<1>2. IInv /\ Rest /\ [Next]_vars => Rest'
  <2> SUFFICES ASSUME IInv, Rest, [Next]_vars PROVE Rest'
    OBVIOUS
  <2>1. \A m \in Messages : OwnedIfClaimed(row'[m])
    BY RowsOwned
  <2>2. QED
    BY <2>1, DeskTyped, CountsTyped DEF OwnedIfClaimed
<1>3. IInv /\ Rest => TypeOK
  BY DEF IInv, Shapes, Counts, TypeOK, OwnedIfClaimed, DeskType
<1> HIDE DEF Rest
<1>4. QED
  BY Invariance, <1>1, <1>2, <1>3, PTL DEF Spec

-----------------------------------------------------------------------------
(* A second delivery has a cause.                                          *)

\* The passes that hold or held a claim of m and have not had it accepted:
\* each may still deliver it once, or has used its turn without.
Undelivered(m) ==
  {p \in Passes : /\ pass[p].message = m
                  /\ pass[p].at \in {"claimed", "sending", "refused", "unusable"}}

\* The states from which a message is claimed without taking over a lease.
Open == {"QUEUED", "RETRY_SCHEDULED", "DEAD_LETTER", "FAILED"}

\* Every delivery and every pass that may still make one is paid for: one by
\* the claim the row is under or was closed by, each other by a lease taken
\* over or an answer lost.
Allowance(m) == excused[m] + (IF row[m].status \in Open THEN 0 ELSE 1)

Accounted ==
  \A m \in Messages :
    /\ IsFiniteSet(Undelivered(m))
    /\ delivered[m] + Cardinality(Undelivered(m)) <= Allowance(m)

\* A step that puts no pass to work and delivers nothing: the account is kept
\* if the allowance is no smaller.
LEMMA FewerToDeliver ==
  ASSUME TypeOK, TypeOK', Accounted, NEW m \in Messages,
         delivered'[m] = delivered[m],
         Undelivered(m)' \subseteq Undelivered(m),
         Allowance(m)' >= Allowance(m)
  PROVE  /\ IsFiniteSet(Undelivered(m)')
         /\ delivered'[m] + Cardinality(Undelivered(m)') <= Allowance(m)'
<1>1. /\ delivered[m] \in Nat /\ excused[m] \in Nat /\ excused'[m] \in Nat
      /\ Allowance(m) \in Nat /\ Allowance(m)' \in Nat
  BY DEF TypeOK, Allowance
<1>2. /\ IsFiniteSet(Undelivered(m))
      /\ delivered[m] + Cardinality(Undelivered(m)) <= Allowance(m)
  BY DEF Accounted
<1>3. /\ IsFiniteSet(Undelivered(m)')
      /\ Cardinality(Undelivered(m)') <= Cardinality(Undelivered(m))
      /\ Cardinality(Undelivered(m)') \in Nat
      /\ Cardinality(Undelivered(m)) \in Nat
  BY <1>2, FS_Subset, FS_CardinalityType
<1>4. QED
  BY <1>1, <1>2, <1>3

\* What a step that gives one pass another state does to who may deliver.
LEMMA OthersStillWork ==
  ASSUME pass \in [Passes -> Pass], NEW p \in Passes, NEW n \in Pass,
         pass' = [pass EXCEPT ![p] = n], NEW m \in Messages
  PROVE  IF n.message = m /\ n.at \in {"claimed", "sending", "refused", "unusable"}
         THEN Undelivered(m)' = Undelivered(m) \cup {p}
         ELSE Undelivered(m)' = Undelivered(m) \ {p}
<1>1. /\ pass'[p] = n
      /\ \A q \in Passes : q # p => pass'[q] = pass[q]
  BY OnePass
<1>2. QED
  BY <1>1 DEF Undelivered

\* A claim puts one more pass to work: from an open state it is the one the
\* claim pays for; over another's lease it is excused.
LEMMA ClaimAccounts ==
  ASSUME IInv, TypeOK, TypeOK', Accounted, NEW p \in Passes, ClaimOne(p)
  PROVE  Accounted'
<1>0. PICK k \in Messages : k = pass[p].message
  BY DEF IInv, PassesHaveMessages, ClaimOne
<1> DEFINE n == [pass[p] EXCEPT !.at = "claimed"]
<1>1. pass[p] \in Pass /\ row[k] \in Row /\ pass[p].at = "found"
  BY DEF IInv, Shapes, ClaimOne
<1>2. n \in Pass /\ n.at = "claimed" /\ n.message = k
  BY <1>0, <1>1 DEF Pass, Stages
<1>3. /\ pass' = [pass EXCEPT ![p] = n]
      /\ row' = [row EXCEPT ![k] = Claimed(row[k], WorkerOf[p])]
      /\ excused' = [excused EXCEPT ![k] =
                       IF row[k].status = "CLAIMED" THEN @ + 1 ELSE @]
      /\ delivered' = delivered
      /\ claimableWhere(row[k])
  BY <1>0 DEF ClaimOne
<1>4. p \notin Undelivered(k)
  BY <1>1 DEF Undelivered
<1> HIDE DEF n
<1>5. /\ row'[k].status = "CLAIMED"
      /\ \A m \in Messages : m # k => row'[m] = row[m]
  <2> DEFINE r == Claimed(row[k], WorkerOf[p])
  <2>1. r \in Row /\ r.status = "CLAIMED"
    BY <1>1, ClaimedRow, OutboxAssumption
  <2>2. row' = [row EXCEPT ![k] = r]
    BY <1>3
  <2> HIDE DEF r
  <2>3. QED
    BY <2>1, <2>2, OneRow DEF IInv, Shapes
<1>6. /\ row[k].status = "CLAIMED" => excused'[k] = excused[k] + 1
      /\ row[k].status # "CLAIMED" => excused'[k] = excused[k]
      /\ \A m \in Messages : m # k => excused'[m] = excused[m]
  BY <1>1, <1>3 DEF TypeOK
<1>7. row[k].status = "CLAIMED" \/ row[k].status \in Open
  BY <1>3 DEF claimableWhere, CLAIMABLE_STATES, Open
<1>8. ASSUME NEW m \in Messages
      PROVE  /\ IsFiniteSet(Undelivered(m)')
             /\ delivered'[m] + Cardinality(Undelivered(m)') <= Allowance(m)'
  <2>1. CASE m # k
    <3>1. Undelivered(m)' = Undelivered(m) \ {p}
      BY <1>2, <1>3, <2>1, OthersStillWork DEF IInv, Shapes
    <3>2. Allowance(m) = Allowance(m)' /\ Allowance(m) \in Nat
      BY <1>5, <1>6, <2>1 DEF Allowance, TypeOK
    <3>3. Allowance(m)' >= Allowance(m)
      BY <3>2
    <3>4. QED
      BY <1>3, <3>1, <3>3, FewerToDeliver
  <2>2. CASE m = k
    <3>1. Undelivered(k)' = Undelivered(k) \cup {p}
      BY <1>1, <1>2, <1>3, OthersStillWork DEF IInv, Shapes
    <3>2. /\ IsFiniteSet(Undelivered(k))
          /\ delivered[k] + Cardinality(Undelivered(k)) <= Allowance(k)
      BY <1>1 DEF Accounted
    <3>3. /\ IsFiniteSet(Undelivered(k)')
          /\ Cardinality(Undelivered(k)') = Cardinality(Undelivered(k)) + 1
      BY <1>4, <3>1, <3>2, FS_AddElement
    <3>4. /\ delivered[k] \in Nat /\ excused[k] \in Nat
          /\ Cardinality(Undelivered(k)) \in Nat
      BY <1>1, <3>2, FS_CardinalityType DEF TypeOK
    <3>5. Allowance(k)' = Allowance(k) + 1
      BY <1>5, <1>6, <1>7, <3>4 DEF Allowance, Open
    <3>6. QED
      BY <1>3, <2>2, <3>2, <3>3, <3>4, <3>5 DEF Allowance
  <2>3. QED
    BY <2>1, <2>2
<1>9. QED
  BY <1>8 DEF Accounted

\* An answer uses a pass's turn, or is lost and excused.
LEMMA AnswerAccounts ==
  ASSUME IInv, TypeOK, TypeOK', Accounted, NEW p \in Passes,
         NEW answer \in Answers, ProviderAnswers(p, answer)
  PROVE  Accounted'
<1>0. PICK k \in Messages : k = pass[p].message
  BY DEF IInv, PassesHaveMessages, ProviderAnswers
<1> DEFINE s == IF answer = "lost" THEN "refused" ELSE answer
           n == [pass[p] EXCEPT !.at = s]
<1>1. pass[p] \in Pass /\ pass[p].at = "sending"
  BY DEF IInv, Shapes, ProviderAnswers
<1>2. s \in Stages
  BY DEF Answers, Stages
<1>3. n \in Pass /\ n.at = s /\ n.message = k
  <2> HIDE DEF s
  <2> QED BY <1>0, <1>1, <1>2 DEF Pass
<1>4. /\ pass' = [pass EXCEPT ![p] = n]
      /\ row' = row
      /\ delivered' = [delivered EXCEPT ![k] =
                         IF answer \in {"accepted", "lost"} THEN @ + 1 ELSE @]
      /\ excused' = [excused EXCEPT ![k] =
                       IF answer = "lost" THEN @ + 1 ELSE @]
  BY <1>0 DEF ProviderAnswers
<1>5. p \in Undelivered(k)
  BY <1>0, <1>1 DEF Undelivered
<1>6. \/ answer = "accepted" /\ s = "accepted"
      \/ answer = "lost" /\ s = "refused"
      \/ answer \in {"refused", "unusable"} /\ s = answer
  BY DEF Answers
<1> HIDE DEF n, s
<1>7. /\ delivered'[k] = delivered[k]
                         + (IF answer \in {"accepted", "lost"} THEN 1 ELSE 0)
      /\ excused'[k] = excused[k] + (IF answer = "lost" THEN 1 ELSE 0)
      /\ \A m \in Messages : m # k => /\ delivered'[m] = delivered[m]
                                      /\ excused'[m] = excused[m]
  BY <1>1, <1>4 DEF TypeOK
<1>8. ASSUME NEW m \in Messages
      PROVE  /\ IsFiniteSet(Undelivered(m)')
             /\ delivered'[m] + Cardinality(Undelivered(m)') <= Allowance(m)'
  <2>1. CASE m # k
    <3>1. Undelivered(m)' = Undelivered(m) \ {p}
      BY <1>3, <1>4, <2>1, OthersStillWork DEF IInv, Shapes
    <3>2. Allowance(m) = Allowance(m)' /\ Allowance(m) \in Nat
      BY <1>4, <1>7, <2>1 DEF Allowance, TypeOK
    <3>3. Allowance(m)' >= Allowance(m)
      BY <3>2
    <3>4. QED
      BY <1>7, <2>1, <3>1, <3>3, FewerToDeliver
  <2>2. CASE m = k
    <3>1. /\ IsFiniteSet(Undelivered(k))
          /\ delivered[k] + Cardinality(Undelivered(k)) <= Allowance(k)
      BY <1>1 DEF Accounted
    <3>2. /\ delivered[k] \in Nat /\ excused[k] \in Nat
          /\ Cardinality(Undelivered(k)) \in Nat
      BY <1>1, <3>1, FS_CardinalityType DEF TypeOK
    <3>3. Allowance(k)' = Allowance(k) + (IF answer = "lost" THEN 1 ELSE 0)
      BY <1>4, <1>7, <3>2 DEF Allowance
    <3>4. CASE answer = "accepted"
      <4>1. Undelivered(k)' = Undelivered(k) \ {p}
        BY <1>1, <1>3, <1>4, <1>6, <3>4, OthersStillWork DEF IInv, Shapes
      <4>2. /\ IsFiniteSet(Undelivered(k)')
            /\ Cardinality(Undelivered(k)') = Cardinality(Undelivered(k)) - 1
        BY <1>5, <3>1, <4>1, FS_RemoveElement
      <4>3. QED
        BY <1>7, <2>2, <3>1, <3>2, <3>3, <3>4, <4>2 DEF Allowance
    <3>5. CASE answer # "accepted"
      <4>1. Undelivered(k)' = Undelivered(k)
        <5>1. Undelivered(k)' = Undelivered(k) \cup {p}
          BY <1>1, <1>3, <1>4, <1>6, <3>5, OthersStillWork DEF IInv, Shapes
        <5>2. QED
          BY <1>5, <5>1
      <4>2. QED
        BY <1>7, <2>2, <3>1, <3>2, <3>3, <3>5, <4>1 DEF Allowance
    <3>6. QED
      BY <3>4, <3>5
  <2>3. QED
    BY <2>1, <2>2
<1>9. QED
  BY <1>8 DEF Accounted

\* Steps of passes after which nobody has more to deliver and every row is as
\* open as it was.
LEMMA QuietStepAccounts ==
  ASSUME TypeOK, TypeOK', Accounted, UNCHANGED <<delivered, excused>>,
         \A m \in Messages : row'[m].status \in Open => row[m].status \in Open,
         \A p \in Passes :
           \/ pass'[p] = pass[p]
           \/ pass'[p].at \in {"idle", "found", "accepted"}
           \/ /\ pass'[p].message = pass[p].message
              /\ pass[p].at = "claimed"
  PROVE  Accounted'
<1> SUFFICES ASSUME NEW m \in Messages
             PROVE  /\ IsFiniteSet(Undelivered(m)')
                    /\ delivered'[m] + Cardinality(Undelivered(m)')
                         <= Allowance(m)'
  BY DEF Accounted
<1>1. Undelivered(m)' \subseteq Undelivered(m)
  BY DEF Undelivered
<1>2. Allowance(m)' >= Allowance(m)
  BY DEF Allowance, TypeOK
<1>3. QED
  BY <1>1, <1>2, FewerToDeliver

\* A failure recorded: the message is open again, and the pass that recorded it
\* has had its turn.
LEMMA FailureAccounts ==
  ASSUME IInv, TypeOK, TypeOK', Accounted, NEW p \in Passes, RecordFailure(p)
  PROVE  Accounted'
<1>0. PICK k \in Messages : k = pass[p].message
  BY DEF IInv, PassesHaveMessages, RecordFailure
<1>1. pass[p].at \in {"refused", "unusable"}
  BY DEF RecordFailure
<1>2. PICK s \in {"DEAD_LETTER", "RETRY_SCHEDULED"} : Record(p, s)
  BY DEF RecordFailure, AfterFailure
<1>3. /\ pass' = [pass EXCEPT ![p] = Idle]
      /\ UNCHANGED <<delivered, excused>>
  BY <1>2 DEF Record
<1>4. CASE ~StillOurs(p)
  <2>1. row' = row
    BY <1>2, <1>4 DEF Record
  <2>2. \A q \in Passes : pass'[q] = pass[q] \/ pass'[q].at = "idle"
    BY <1>3, OnePass, IdlePass DEF IInv, Shapes
  <2>3. QED
    BY <1>3, <2>1, <2>2, QuietStepAccounts
<1>5. CASE StillOurs(p)
  <2>1. row[k].status = "CLAIMED" /\ row[k] \in Row
    BY <1>0, <1>5 DEF StillOurs, IInv, Shapes
  <2> DEFINE r == Recorded(row[k], s)
  <2>2. r \in Row
    <3>1. s \in OUTBOX_STATES
      BY DEF OUTBOX_STATES
    <3>2. QED
      BY <2>1, <3>1, RecordedRow
  <2>3. row' = [row EXCEPT ![k] = r]
    BY <1>0, <1>2, <1>5 DEF Record
  <2> HIDE DEF r
  <2>4. \A m \in Messages : m # k => row'[m] = row[m]
    BY <2>2, <2>3, OneRow DEF IInv, Shapes
  <2>5. ASSUME NEW m \in Messages
        PROVE  /\ IsFiniteSet(Undelivered(m)')
               /\ delivered'[m] + Cardinality(Undelivered(m)') <= Allowance(m)'
    <3>1. Undelivered(m)' = Undelivered(m) \ {p}
      BY <1>3, IdlePass, OthersStillWork DEF IInv, Shapes
    <3>2. CASE m # k
      <4>1. Allowance(m)' = Allowance(m) /\ Allowance(m) \in Nat
        BY <1>3, <2>4, <3>2 DEF Allowance, TypeOK
      <4>2. Allowance(m)' >= Allowance(m)
        BY <4>1
      <4>3. QED
        BY <1>3, <3>1, <4>2, FewerToDeliver
    <3>3. CASE m = k
      <4>1. p \in Undelivered(k)
        BY <1>0, <1>1 DEF Undelivered
      <4>2. /\ IsFiniteSet(Undelivered(k))
            /\ delivered[k] + Cardinality(Undelivered(k)) <= excused[k] + 1
        BY <2>1 DEF Accounted, Allowance, Open
      <4>3. /\ IsFiniteSet(Undelivered(k)')
            /\ Cardinality(Undelivered(k)') = Cardinality(Undelivered(k)) - 1
        BY <3>1, <3>3, <4>1, <4>2, FS_RemoveElement
      <4>4. /\ delivered[k] \in Nat /\ excused[k] \in Nat
            /\ Cardinality(Undelivered(k)) \in Nat
        BY <4>2, FS_CardinalityType DEF TypeOK
      <4>5. delivered'[k] + Cardinality(Undelivered(k)') <= excused'[k]
        BY <1>3, <4>2, <4>3, <4>4
      <4>6. Allowance(k)' \in {excused'[k], excused'[k] + 1}
        BY <1>3, <4>4 DEF Allowance
      <4>7. excused'[k] \in Nat /\ delivered'[k] \in Nat
            /\ Cardinality(Undelivered(k)') \in Nat
        BY <1>3, <4>3, <4>4, FS_CardinalityType
      <4>8. QED
        BY <3>3, <4>3, <4>5, <4>6, <4>7
    <3>4. QED
      BY <3>2, <3>3
  <2>6. QED
    BY <2>5 DEF Accounted
<1>6. QED
  BY <1>4, <1>5

\* Neither do the other records, the clock or the operator open a message: what
\* is requeued was open.
LEMMA OtherRowsAccount ==
  ASSUME IInv, TypeOK, TypeOK', Accounted,
         \/ \E p \in Passes : RecordSent(p)
         \/ \E m \in Messages : ComesDue(m) \/ Lapses(m)
         \/ RetryNotification
         \/ CancelNotification
  PROVE  Accounted'
<1>1. ASSUME NEW p \in Passes, RecordSent(p) PROVE Accounted'
  <2>1. Record(p, "SENT") /\ "SENT" \in OUTBOX_STATES
    BY <1>1 DEF RecordSent, OUTBOX_STATES
  <2>2. /\ pass' = [pass EXCEPT ![p] = Idle]
        /\ UNCHANGED <<delivered, excused>>
    BY <2>1 DEF Record
  <2>3. \A q \in Passes : pass'[q] = pass[q] \/ pass'[q].at = "idle"
    BY <2>2, OnePass, IdlePass DEF IInv, Shapes
  <2>4. \A m \in Messages :
          row'[m] = row[m] \/ row'[m] = Recorded(row[m], "SENT")
    BY <2>1 DEF Record, IInv, Shapes
  <2>5. \A m \in Messages : row'[m] = row[m] \/ row'[m].status = "SENT"
    BY <2>1, <2>4, RecordedRow DEF IInv, Shapes
  <2>6. QED
    BY <2>2, <2>3, <2>5, QuietStepAccounts DEF Open
<1>2. ASSUME NEW k \in Messages, ComesDue(k) \/ Lapses(k) PROVE Accounted'
  <2>1. /\ UNCHANGED <<pass, delivered, excused>>
        /\ \A m \in Messages : \/ row'[m] = row[m]
                               \/ row'[m] = [row[m] EXCEPT !.due = TRUE]
                               \/ row'[m] = [row[m] EXCEPT !.lapsed = TRUE]
    BY <1>2 DEF ComesDue, Lapses, IInv, Shapes
  <2>2. \A m \in Messages : row'[m].status = row[m].status
    BY <2>1, Rewritten DEF IInv, Shapes
  <2>3. QED
    BY <2>1, <2>2, QuietStepAccounts
<1>3. CASE RetryNotification
  <2>1. /\ UNCHANGED <<pass, delivered, excused>>
        /\ \A m \in Messages : row'[m] = row[m] \/ row[m].status \in Open
    BY <1>3 DEF RetryNotification, IInv, Shapes, Open, RETRYABLE_STATES
  <2>2. QED
    BY <2>1, QuietStepAccounts
<1>4. CASE CancelNotification
  <2>1. /\ UNCHANGED <<pass, delivered, excused>>
        /\ \A m \in Messages :
             row'[m] = row[m] \/ row'[m] = Recorded(row[m], "CANCELLED")
    BY <1>4 DEF CancelNotification, IInv, Shapes
  <2>2. "CANCELLED" \in OUTBOX_STATES
    BY DEF OUTBOX_STATES
  <2>3. \A m \in Messages : row'[m] = row[m] \/ row'[m].status = "CANCELLED"
    BY <2>1, <2>2, RecordedRow DEF IInv, Shapes
  <2>4. QED
    BY <2>1, <2>3, QuietStepAccounts DEF Open
<1>5. QED
  BY <1>1, <1>2, <1>3, <1>4

LEMMA AccountKept ==
  ASSUME IInv, TypeOK, TypeOK', Accounted, [Next]_vars
  PROVE  Accounted'
<1>1. ASSUME NEW p \in Passes,
             \/ \E m \in Messages : FindDue(p, m)
             \/ ClaimLost(p)
             \/ StartSend(p)
             \/ Crash(p)
      PROVE  Accounted'
  <2>1. /\ UNCHANGED <<row, delivered, excused>>
        /\ \A q \in Passes :
             \/ pass'[q] = pass[q]
             \/ pass'[q].at \in {"idle", "found"}
             \/ pass'[q].message = pass[q].message /\ pass[q].at = "claimed"
    <3>0. pass[p] \in Pass
      BY DEF IInv, Shapes
    <3>1. PICK n : /\ pass' = [pass EXCEPT ![p] = n]
                   /\ \/ n.at \in {"idle", "found"}
                      \/ n.message = pass[p].message /\ pass[p].at = "claimed"
      <4>1. CASE \E m \in Messages : FindDue(p, m)
        <5>1. PICK m \in Messages : FindDue(p, m)
          BY <4>1
        <5> DEFINE n == [at |-> "found", message |-> m, attempts |-> 0]
        <5>2. n.at = "found" /\ pass' = [pass EXCEPT ![p] = n]
          BY <5>1 DEF FindDue
        <5> HIDE DEF n
        <5>3. QED
          BY <5>2
      <4>2. CASE StartSend(p)
        <5>1. pass' = [pass EXCEPT ![p] =
                         [pass[p] EXCEPT !.at = "sending",
                            !.attempts = row[pass[p].message].attempts]]
          BY <4>2 DEF StartSend, IInv, Shapes
        <5>2. [pass[p] EXCEPT !.at = "sending",
                 !.attempts = row[pass[p].message].attempts].message
                = pass[p].message
          BY <3>0 DEF Pass
        <5>3. QED
          BY <4>2, <5>1, <5>2 DEF StartSend
      <4>3. CASE ClaimLost(p) \/ Crash(p)
        BY <4>3, IdlePass DEF ClaimLost, Crash
      <4>4. QED
        BY <1>1, <4>1, <4>2, <4>3
    <3>2. \A q \in Passes : pass'[q] = IF q = p THEN n ELSE pass[q]
      BY <3>1 DEF IInv, Shapes
    <3>3. UNCHANGED <<row, delivered, excused>>
      BY <1>1 DEF FindDue, ClaimLost, StartSend, Crash
    <3>4. QED
      BY <3>1, <3>2, <3>3
  <2>2. QED
    BY <2>1, QuietStepAccounts
<1>2. ASSUME NEW p \in Passes, Step(p) PROVE Accounted'
  BY <1>1, <1>2, ClaimAccounts, AnswerAccounts, FailureAccounts,
     OtherRowsAccount DEF Step
<1>3. CASE UNCHANGED <<row, pass, delivered, excused>>
  BY <1>3, QuietStepAccounts
<1>4. QED
  BY <1>1, <1>2, <1>3, OtherRowsAccount
  DEF Next, Clock, LeaseLapses, LeaseOutlived, OperatorReads, OperatorLeaves,
      vars

\* Whoever crashes, outlives its lease or records under another's name, and
\* whatever the operator puts back: a message is delivered a second time only
\* after a lease was taken over or an answer lost, once for each.
THEOREM NoCauselessDuplicate == Spec => []DuplicatesHaveACause
<1>1. Init => Accounted
  <2> SUFFICES ASSUME Init, NEW m \in Messages
               PROVE  /\ IsFiniteSet(Undelivered(m))
                      /\ delivered[m] + Cardinality(Undelivered(m))
                           <= Allowance(m)
    BY DEF Accounted
  <2>1. Undelivered(m) = {}
    BY DEF Init, Undelivered, Idle
  <2>2. IsFiniteSet(Undelivered(m)) /\ Cardinality(Undelivered(m)) = 0
    BY <2>1, FS_EmptySet
  <2>3. Allowance(m) = 0 /\ delivered[m] = 0
    BY DEF Init, Allowance, Open
  <2>4. QED
    BY <2>2, <2>3
<1>2. TypeOK /\ Accounted => DuplicatesHaveACause
  <2> SUFFICES ASSUME TypeOK, Accounted, NEW m \in Messages
               PROVE  delivered[m] <= 1 + excused[m]
    BY DEF DuplicatesHaveACause
  <2>1. /\ IsFiniteSet(Undelivered(m))
        /\ delivered[m] + Cardinality(Undelivered(m)) <= Allowance(m)
    BY DEF Accounted
  <2>2. /\ Cardinality(Undelivered(m)) \in Nat
        /\ delivered[m] \in Nat /\ excused[m] \in Nat
    BY <2>1, FS_CardinalityType DEF TypeOK
  <2>3. Allowance(m) \in {excused[m], excused[m] + 1}
    BY <2>2 DEF Allowance
  <2>4. QED
    BY <2>1, <2>2, <2>3
<1>3. QED
  BY Invariance, Typed, AccountKept, <1>1, <1>2, PTL DEF Spec

-----------------------------------------------------------------------------
(* The lease.                                                              *)

\* What the steps of a pass that is no record do to a claimed row: a lapsed
\* lease may be taken over, and nothing else.
LEMMA ClaimedRowStays ==
  ASSUME IInv, NEW p \in Passes, NEW m \in Messages, row[m].status = "CLAIMED",
         Step(p), ~RecordSent(p), ~RecordFailure(p)
  PROVE  /\ row'[m].status = "CLAIMED"
         /\ row'[m] = row[m] \/ row[m].lapsed
<1>1. CASE ClaimOne(p)
  <2> DEFINE k == pass[p].message
  <2>1. k \in Messages
    BY <1>1 DEF ClaimOne, IInv, PassesHaveMessages
  <2>2. /\ row' = [row EXCEPT ![k] = Claimed(row[k], WorkerOf[p])]
        /\ claimableWhere(row[k])
    BY <1>1 DEF ClaimOne
  <2>3. row[m].lapsed \/ m # k
    BY <2>2 DEF claimableWhere, CLAIMABLE_STATES
  <2>4. Claimed(row[k], WorkerOf[p]).status = "CLAIMED"
    BY DEF Claimed
  <2> HIDE DEF k
  <2>5. QED
    BY <2>1, <2>2, <2>3, <2>4 DEF IInv, Shapes
<1>2. CASE UNCHANGED row
  BY <1>2
<1>3. QED
  BY <1>1, <1>2 DEF Step, FindDue, ClaimLost, StartSend, ProviderAnswers

\* Nor do the clock and the operator end a live claim.
LEMMA LiveRowStays ==
  ASSUME IInv, NEW m \in Messages, row[m].status = "CLAIMED",
         \/ \E p \in Passes : Crash(p)
         \/ \E k \in Messages : Clock(k) \/ LeaseOutlived(k) \/ OperatorReads(k)
         \/ RetryNotification
         \/ CancelNotification
         \/ OperatorLeaves
  PROVE  /\ row'[m].status \in {"CLAIMED", "CANCELLED"}
         /\ row'[m] = row[m] \/ row[m].lapsed \/ row'[m].lapsed
<1>1. row[m] \in Row /\ row[m].owner # NoWorker
  <2>1. row[m] \in Row /\ row[m].owner \in Workers
    BY OutboxAssumption DEF IInv, Shapes, LeaseNamesHolder
  <2>2. QED
    BY <2>1, SentinelAssumption
<1>2. CASE RetryNotification
  BY <1>1, <1>2 DEF RetryNotification, IInv, Shapes, DeskHasMessage
<1>3. CASE CancelNotification
  <2> DEFINE k == desk.message
  <2>1. k \in Messages /\ row[k] \in Row
    BY <1>3 DEF CancelNotification, IInv, DeskHasMessage, Shapes
  <2>2. row' = [row EXCEPT ![k] = Recorded(row[k], "CANCELLED")]
    BY <1>3 DEF CancelNotification
  <2>3. Recorded(row[k], "CANCELLED").status = "CANCELLED"
    BY <2>1, RecordedRow DEF OUTBOX_STATES
  <2>4. k = m => row[m].lapsed
    BY <1>3 DEF CancelNotification, MayWithdraw, CANCELLABLE_STATES
  <2> HIDE DEF k
  <2>5. QED
    BY <2>1, <2>2, <2>3, <2>4 DEF IInv, Shapes
<1>4. ASSUME NEW k \in Messages, ComesDue(k) \/ Lapses(k)
      PROVE  /\ row'[m].status = "CLAIMED"
             /\ row'[m] = row[m] \/ row'[m].lapsed
  <2>1. CASE ComesDue(k)
    BY <2>1 DEF ComesDue, IInv, Shapes
  <2>2. CASE Lapses(k)
    <3>1. row' = [row EXCEPT ![k] = [row[k] EXCEPT !.lapsed = TRUE]]
      BY <2>2 DEF Lapses
    <3>2. /\ [row[m] EXCEPT !.lapsed = TRUE].lapsed = TRUE
          /\ [row[m] EXCEPT !.lapsed = TRUE].status = "CLAIMED"
      BY <1>1, Rewritten
    <3>3. QED
      BY <3>1, <3>2 DEF IInv, Shapes
  <2>3. QED
    BY <1>4, <2>1, <2>2
<1>5. CASE UNCHANGED row
  BY <1>5
<1>6. QED
  BY <1>2, <1>3, <1>4, <1>5
  DEF Crash, Clock, LeaseLapses, LeaseOutlived, OperatorReads, OperatorLeaves

\* A record over a claimed row is under the name on its lease, and ends what
\* the pass was doing.
LEMMA RecordIsHolders ==
  ASSUME IInv, NEW p \in Passes, NEW m \in Messages,
         row[m].status = "CLAIMED", row'[m] # row[m],
         RecordSent(p) \/ RecordFailure(p)
  PROVE  HolderEnds(p, m)
<1>1. pass[p].at \in {"accepted", "refused", "unusable"}
  BY DEF RecordSent, RecordFailure
<1>2. PICK s : Record(p, s)
  BY DEF RecordSent, RecordFailure
<1>3. StillOurs(p) /\ pass[p].message = m
  BY <1>2 DEF Record, IInv, Shapes
<1>4. pass'[p] = Idle
  BY <1>2 DEF Record, IInv, Shapes
<1>5. QED
  BY <1>1, <1>3, <1>4 DEF HolderEnds, StillOurs, Working

\* A claim is recorded under the name it was made in: a worker that lost its
\* lease to another writes over nobody.
THEOREM RecordingIsOwn == Spec => RecordedByHolder
<1>1. ASSUME IInv, Next, NEW m \in Messages, row[m].status = "CLAIMED",
             row'[m].status \in {"SENT", "RETRY_SCHEDULED", "DEAD_LETTER"}
      PROVE  \E p \in Passes : HolderEnds(p, m)
  BY <1>1, ClaimedRowStays, LiveRowStays, RecordIsHolders DEF Next
<1>2. IInv /\ [Next]_vars =>
        [\A m \in Messages :
           (row[m].status = "CLAIMED"
              /\ row'[m].status \in {"SENT", "RETRY_SCHEDULED", "DEAD_LETTER"})
           => \E p \in Passes : HolderEnds(p, m)]_vars
  BY <1>1
<1>3. QED
  BY Invariance, <1>2, PTL DEF Spec, RecordedByHolder

\* A live lease is respected by passes, clock and operator alike.
THEOREM LeasesHold == Spec => LeaseIsRespected
<1>1. ASSUME IInv, Next, NEW m \in Messages, row[m].status = "CLAIMED",
             ~row[m].lapsed, row'[m] # row[m], ~row'[m].lapsed
      PROVE  \E p \in Passes : HolderEnds(p, m)
  BY <1>1, ClaimedRowStays, LiveRowStays, RecordIsHolders DEF Next
<1>2. IInv /\ [Next]_vars =>
        [\A m \in Messages :
           (row[m].status = "CLAIMED" /\ ~row[m].lapsed
              /\ row'[m] # row[m] /\ ~row'[m].lapsed)
           => \E p \in Passes : HolderEnds(p, m)]_vars
  BY <1>1
<1>3. QED
  BY Invariance, <1>2, PTL DEF Spec, LeaseIsRespected

-----------------------------------------------------------------------------
(* The refinement.                                                         *)

Waiting == {"QUEUED", "CLAIMED", "RETRY_SCHEDULED", "SUPPRESSED"}

LEMMA Fates ==
  /\ \A s \in Waiting : FateOf(s) = "waiting"
  /\ FateOf("SENT") = "sent"
  /\ FateOf("CANCELLED") = "withdrawn"
  /\ FateOf("DEAD_LETTER") = "dead" /\ FateOf("FAILED") = "dead"
BY DEF FateOf, Waiting

\* One row's fate moves as the row's status does.
LEMMA OneFate ==
  ASSUME IInv, NEW m \in Messages, NEW r \in Row, row' = [row EXCEPT ![m] = r]
  PROVE  fateBar' = [fateBar EXCEPT ![m] = FateOf(r.status)]
<1>1. row'[m] = r /\ \A k \in Messages : k # m => row'[k] = row[k]
  BY OneRow DEF IInv, Shapes
<1> DEFINE new == [fateBar EXCEPT ![m] = FateOf(r.status)]
<1>2. /\ new \in [Messages -> {new[k] : k \in Messages}]
      /\ new[m] = FateOf(r.status)
      /\ \A k \in Messages : k # m => new[k] = FateOf(row[k].status)
  BY DEF fateBar
<1>3. fateBar' = [k \in Messages |-> FateOf(row'[k].status)]
  BY DEF fateBar
<1>4. \A k \in Messages : FateOf(row'[k].status) = new[k]
  BY <1>1, <1>2
<1> HIDE DEF new
<1>5. fateBar' = new
  BY <1>2, <1>3, <1>4
<1>6. QED
  BY <1>5 DEF new

LEMMA SameFate ==
  ASSUME IInv, NEW m \in Messages, NEW r \in Row, row' = [row EXCEPT ![m] = r],
         FateOf(r.status) = FateOf(row[m].status)
  PROVE  UNCHANGED fateBar
<1>1. fateBar' = [fateBar EXCEPT ![m] = FateOf(r.status)]
  BY OneFate
<1>2. fateBar[m] = FateOf(row[m].status) /\ DOMAIN fateBar = Messages
  BY DEF fateBar
<1>3. fateBar = [k \in Messages |-> fateBar[k]]
  BY DEF fateBar
<1>4. QED
  BY <1>1, <1>2, <1>3

LEMMA MapsInit == Init => Promise!Init
BY Fates DEF Init, Promise!Init, fateBar, reachedBar, Waiting

\* A record closes the message, or leaves it waiting.
LEMMA MapsRecord ==
  ASSUME IInv, NEW p \in Passes, RecordSent(p) \/ RecordFailure(p)
  PROVE  [Promise!Next]_(Promise!vars)
<1> DEFINE m == pass[p].message
<1>1. m \in Messages /\ row[m] \in Row
  BY DEF RecordSent, RecordFailure, IInv, PassesHaveMessages, Shapes
<1>2. UNCHANGED reachedBar
  BY DEF RecordSent, RecordFailure, Record, reachedBar
<1>3. PICK s \in {"SENT", "DEAD_LETTER", "RETRY_SCHEDULED"} :
        Record(p, s) /\ (s = "SENT" => pass[p].at = "accepted")
  BY DEF RecordSent, RecordFailure, AfterFailure
<1>4. CASE ~StillOurs(p)
  BY <1>2, <1>3, <1>4 DEF Record, Promise!vars, fateBar
<1>5. CASE StillOurs(p)
  <2> DEFINE r == Recorded(row[m], s)
  <2>1. row' = [row EXCEPT ![m] = r]
    BY <1>3, <1>5 DEF Record
  <2>2. r \in Row /\ r.status = s
    <3>1. s \in OUTBOX_STATES
      BY DEF OUTBOX_STATES
    <3>2. QED
      BY <1>1, <3>1, RecordedRow
  <2>3. row[m].status = "CLAIMED"
    BY <1>5 DEF StillOurs
  <2>4. fateBar[m] = "waiting"
    BY <1>1, <2>3, Fates DEF fateBar, Waiting
  <2>5. s = "SENT" => m \in reachedBar
    BY <1>1, <1>3 DEF IInv, AcceptedWasDelivered, reachedBar
  <2> HIDE DEF r, m
  <2>6. fateBar' = [fateBar EXCEPT ![m] = FateOf(s)]
    BY <1>1, <2>1, <2>2, OneFate
  <2>7. CASE s = "RETRY_SCHEDULED"
    <3>1. FateOf(r.status) = FateOf(row[m].status)
      BY <2>2, <2>3, <2>7, Fates DEF Waiting
    <3>2. UNCHANGED fateBar
      BY <1>1, <2>1, <2>2, <3>1, SameFate
    <3>3. QED
      BY <1>2, <3>2 DEF Promise!vars
  <2>8. CASE s \in {"SENT", "DEAD_LETTER"}
    <3>1. \/ m \in reachedBar /\ fateBar' = [fateBar EXCEPT ![m] = "sent"]
          \/ fateBar' = [fateBar EXCEPT ![m] = "dead"]
      BY <2>5, <2>6, <2>8, Fates
    <3>2. Promise!Close(m)
      BY <1>2, <2>4, <3>1 DEF Promise!Close
    <3>3. QED
      BY <1>1, <3>2 DEF Promise!Next
  <2>9. QED
    BY <2>7, <2>8
<1>6. QED
  BY <1>4, <1>5

\* The other steps of a pass: only the provider's answer shows.
LEMMA MapsPass ==
  ASSUME IInv, NEW p \in Passes, Step(p), ~RecordSent(p), ~RecordFailure(p)
  PROVE  [Promise!Next]_(Promise!vars)
<1> DEFINE m == pass[p].message
<1>1. CASE ClaimOne(p)
  <2> DEFINE r == Claimed(row[m], WorkerOf[p])
  <2>1. /\ m \in Messages /\ row[m] \in Row
        /\ row' = [row EXCEPT ![m] = r]
        /\ row[m].status \in Waiting
        /\ UNCHANGED delivered
    BY <1>1
    DEF ClaimOne, IInv, PassesHaveMessages, Shapes, claimableWhere,
        CLAIMABLE_STATES, Waiting
  <2>2. r \in Row /\ r.status = "CLAIMED"
    BY <2>1, OutboxAssumption, ClaimedRow
  <2>3. FateOf(r.status) = FateOf(row[m].status)
    BY <2>1, <2>2, Fates DEF Waiting
  <2> HIDE DEF r, m
  <2>4. UNCHANGED fateBar
    BY <2>1, <2>2, <2>3, SameFate
  <2>5. QED
    BY <2>1, <2>4 DEF Promise!vars, reachedBar
<1>2. ASSUME NEW answer \in Answers, ProviderAnswers(p, answer)
      PROVE  [Promise!Next]_(Promise!vars)
  <2>1. m \in Messages /\ UNCHANGED fateBar
    BY <1>2 DEF ProviderAnswers, IInv, PassesHaveMessages, fateBar
  <2>2. \/ UNCHANGED delivered
        \/ delivered' = [delivered EXCEPT ![m] = @ + 1]
    BY <1>2, <2>1 DEF ProviderAnswers, IInv, Counts
  <2> HIDE DEF m
  <2>3. CASE UNCHANGED delivered
    BY <2>1, <2>3 DEF Promise!vars, reachedBar
  <2>4. CASE delivered' = [delivered EXCEPT ![m] = @ + 1]
    <3>1. reachedBar' = reachedBar \cup {m}
      BY <2>1, <2>4 DEF IInv, Counts, reachedBar
    <3>2. QED
      BY <2>1, <3>1 DEF Promise!Next, Promise!Reach
  <2>5. QED
    BY <2>2, <2>3, <2>4
<1>3. CASE UNCHANGED <<row, delivered>>
  BY <1>3 DEF Promise!vars, fateBar, reachedBar
<1>4. QED
  BY <1>1, <1>2, <1>3 DEF Step, FindDue, ClaimLost, StartSend

\* The clock changes no fate; the operator requeues what is dead and withdraws
\* what is not over.
LEMMA MapsOthers ==
  ASSUME IInv,
         \/ \E p \in Passes : Crash(p)
         \/ \E k \in Messages : Clock(k) \/ LeaseOutlived(k) \/ OperatorReads(k)
         \/ RetryNotification
         \/ CancelNotification
         \/ OperatorLeaves
  PROVE  [Promise!Next]_(Promise!vars)
<1> DEFINE m == desk.message
<1>1. UNCHANGED reachedBar
  BY DEF Crash, Clock, ComesDue, LeaseLapses, LeaseOutlived, Lapses,
         OperatorReads, RetryNotification, CancelNotification, OperatorLeaves,
         reachedBar
<1>2. desk # NoDesk => m \in Messages /\ row[m] \in Row
  BY DEF IInv, DeskHasMessage, Shapes
<1>3. CASE RetryNotification
  <2> DEFINE r == Requeued(row[m])
  <2>1. /\ row' = [row EXCEPT ![m] = r]
        /\ m \in Messages /\ row[m] \in Row
        /\ row[m].status \in RETRYABLE_STATES
    BY <1>2, <1>3 DEF RetryNotification
  <2>2. r \in Row /\ r.status = "QUEUED"
    BY <2>1, Rewritten
  <2> HIDE DEF r, m
  <2>3. CASE row[m].status = "RETRY_SCHEDULED"
    <3>1. FateOf(r.status) = FateOf(row[m].status)
      BY <2>2, <2>3, Fates DEF Waiting
    <3>2. UNCHANGED fateBar
      BY <2>1, <2>2, <3>1, SameFate
    <3>3. QED
      BY <1>1, <3>2 DEF Promise!vars
  <2>4. CASE row[m].status \in {"DEAD_LETTER", "FAILED"}
    <3>1. fateBar[m] = "dead"
      BY <2>1, <2>4, Fates DEF fateBar
    <3>2. fateBar' = [fateBar EXCEPT ![m] = "waiting"]
      <4>1. FateOf(r.status) = "waiting"
        BY <2>2, Fates DEF Waiting
      <4>2. fateBar' = [fateBar EXCEPT ![m] = FateOf(r.status)]
        BY <2>1, <2>2, OneFate
      <4>3. QED
        BY <4>1, <4>2
    <3>3. Promise!Requeue(m)
      BY <1>1, <3>1, <3>2 DEF Promise!Requeue
    <3>4. QED
      BY <2>1, <3>3 DEF Promise!Next
  <2>5. QED
    BY <2>1, <2>3, <2>4 DEF RETRYABLE_STATES
<1>4. CASE CancelNotification
  <2> DEFINE r == Recorded(row[m], "CANCELLED")
  <2>1. /\ row' = [row EXCEPT ![m] = r]
        /\ m \in Messages /\ row[m] \in Row
        /\ row[m].status \in CANCELLABLE_STATES \cup {"CLAIMED"}
    BY <1>2, <1>4 DEF CancelNotification, MayWithdraw
  <2>2. r \in Row /\ r.status = "CANCELLED"
    BY <2>1, RecordedRow DEF OUTBOX_STATES
  <2> HIDE DEF r, m
  <2>3. fateBar[m] \in {"waiting", "dead"}
    BY <2>1, Fates DEF fateBar, CANCELLABLE_STATES, Waiting
  <2>4. fateBar' = [fateBar EXCEPT ![m] = "withdrawn"]
    BY <2>1, <2>2, OneFate, Fates
  <2>5. Promise!Withdraw(m)
    BY <1>1, <2>3, <2>4 DEF Promise!Withdraw
  <2>6. QED
    BY <2>1, <2>5 DEF Promise!Next
<1>5. ASSUME NEW k \in Messages, ComesDue(k) \/ Lapses(k)
      PROVE  UNCHANGED fateBar
  <2>1. row[k] \in Row
    BY DEF IInv, Shapes
  <2>2. PICK r \in Row : row' = [row EXCEPT ![k] = r] /\ r.status = row[k].status
    <3>1. CASE ComesDue(k)
      <4>1. row' = [row EXCEPT ![k] = [row[k] EXCEPT !.due = TRUE]]
        BY <3>1 DEF ComesDue
      <4>2. QED
        BY <2>1, <4>1, Rewritten
    <3>2. CASE Lapses(k)
      <4>1. row' = [row EXCEPT ![k] = [row[k] EXCEPT !.lapsed = TRUE]]
        BY <3>2 DEF Lapses
      <4>2. QED
        BY <2>1, <4>1, Rewritten
    <3>3. QED
      BY <1>5, <3>1, <3>2
  <2>3. QED
    BY <2>2, SameFate
<1>6. CASE UNCHANGED row
  BY <1>1, <1>6 DEF Promise!vars, fateBar
<1>7. ASSUME NEW k \in Messages, Clock(k) \/ LeaseOutlived(k)
      PROVE  [Promise!Next]_(Promise!vars)
  BY <1>1, <1>5, <1>7 DEF Clock, LeaseLapses, LeaseOutlived, Promise!vars
<1>8. QED
  BY <1>3, <1>4, <1>6, <1>7 DEF Crash, OperatorReads, OperatorLeaves

\* Whatever names are on the leases, the outbox implements the safety of
\* Delivery: what is SENT reached the provider, SENT and CANCELLED are final.
THEOREM Keeps == Spec => Promise!Safe
<1>1. IInv /\ [Next]_vars => [Promise!Next]_(Promise!vars)
  <2> SUFFICES ASSUME IInv, [Next]_vars
      PROVE  [Promise!Next]_(Promise!vars)
    OBVIOUS
  <2>1. CASE UNCHANGED vars
    BY <2>1 DEF vars, Promise!vars, fateBar, reachedBar
  <2>2. ASSUME NEW p \in Passes, Step(p)
        PROVE  [Promise!Next]_(Promise!vars)
    BY <2>2, MapsRecord, MapsPass
  <2>3. CASE Next /\ ~\E p \in Passes : Step(p)
    BY <2>3, MapsOthers DEF Next
  <2>4. QED
    BY <2>1, <2>2, <2>3
<1>2. QED
  BY Invariance, MapsInit, <1>1, PTL DEF Spec, Promise!Safe
=============================================================================
