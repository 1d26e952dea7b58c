---------------------------- MODULE PayoutsProofs ----------------------------
(***************************************************************************)
(* What Payouts promises, for every number of payouts, people and amounts. *)
(*                                                                         *)
(* Neither property is inductive: what a request will record depends on    *)
(* what it holds.  The invariant adds that a payout being sent is held by  *)
(* one request only, stands SUBMITTED all that while, and has not been     *)
(* made before the call is out; and that a loaded row still has the amount *)
(* of its payout, and nothing taken back of it while it stands PAID.       *)
(***************************************************************************)
EXTENDS Payouts, TLAPS

Unsent == {"NONE", "SCHEDULED", "HELD"}
Sending == {"CALLING", "ANSWERED"}

Row == [status : States \cup {"NONE"}, amount : Nat, reversed : Nat]
Desk == [stage : {"IDLE", "SCHEDULING", "LOADED", "CALLING", "ANSWERED"},
         payout : Payouts \cup {NoPayout}, row : Row, outcome : Outcomes \cup {"NONE"}]

(* What is so of each row. *)
RowsFit ==
  \A p \in Payouts :
    /\ payout[p].status = "NONE" => payout[p] = NoRow
    /\ payout[p].status # "REVERSED" => payout[p].reversed = 0
    /\ payout[p].status \in Unsent => asked[p] = 0

(* What is so of each request. *)
DesksFit ==
  \A o \in Operators :
    /\ desk[o].stage # "IDLE" => desk[o].payout \in Payouts
    /\ desk[o].stage = "SCHEDULING" =>
         desk[o].row.reversed = 0 /\ desk[o].row.status \in {"SCHEDULED", "HELD"}
    /\ desk[o].stage \in {"LOADED"} \cup Sending =>
         /\ payout[desk[o].payout].status # "NONE"
         /\ desk[o].row.amount = payout[desk[o].payout].amount
         /\ desk[o].row.status = "PAID" => desk[o].row.reversed = 0

(* What is so of a request that is sending. *)
SendersFit ==
  \A o \in Operators : desk[o].stage \in Sending =>
    /\ desk[o].row.status = "SUBMITTED"
    /\ payout[desk[o].payout].status = "SUBMITTED"
    /\ desk[o].stage = "CALLING" => desk[o].payout \notin gone
    /\ desk[o].stage = "ANSWERED" => desk[o].outcome \in Outcomes
    /\ desk[o].outcome = "SUCCEEDED" /\ desk[o].stage = "ANSWERED" => desk[o].payout \in gone
    /\ desk[o].outcome = "FAILED" /\ desk[o].stage = "ANSWERED" => desk[o].payout \notin gone

OneSender ==
  \A o1, o2 \in Operators :
    desk[o1].stage \in Sending /\ desk[o2].stage \in Sending /\ o1 # o2 =>
      desk[o1].payout # desk[o2].payout

IInv == TypeOK /\ GoneIsCounted /\ AskedOnce /\ RowsFit /\ DesksFit /\ SendersFit /\ OneSender

----------------------------------------------------------------------------
(* One lemma for each action.                                              *)

LEMMA InitHolds == Init => IInv
BY PayoutsAssumption DEF Init, IInv, TypeOK, GoneIsCounted, AskedOnce, RowsFit, DesksFit,
  SendersFit, OneSender, NoRow, Idle, Booked, Unsent, Sending

LEMMA ReadHolds ==
  ASSUME IInv, NEW o \in Operators, NEW p \in Payouts, NEW a \in Amounts, ReadBalance(o, p, a)
  PROVE  IInv'
<1> USE PayoutsAssumption
    DEF States, Booked, Unsent, Sending, Outcomes, NoRow, Idle, ReadBalance, Amounts
<1>1. TypeOK'
  <2>1. desk'[o] \in Desk
    <3>1. PICK d \in {"HELD", "SCHEDULED"} :
            desk'[o] = [stage |-> "SCHEDULING", payout |-> p, outcome |-> "NONE",
                        row |-> [status |-> d, amount |-> a, reversed |-> 0]]
      BY DEF IInv, TypeOK
    <3> QED
      BY <3>1, PayoutsAssumption DEF Desk, Row
  <2>2. \A q \in Operators : q # o => desk'[q] = desk[q]
    BY DEF IInv, TypeOK
  <2>3. desk' = [q \in Operators |-> desk'[q]]
    BY DEF IInv, TypeOK
  <2> QED
    BY <2>1, <2>2, <2>3 DEF IInv, TypeOK, Desk, Row
<1>2. GoneIsCounted'
  BY DEF IInv, TypeOK, GoneIsCounted, DesksFit, SendersFit
<1>3. AskedOnce'
  BY DEF IInv, TypeOK, AskedOnce, RowsFit, DesksFit
<1>4. RowsFit'
  BY DEF IInv, TypeOK, RowsFit, DesksFit
<1>5. DesksFit'
  BY DEF IInv, TypeOK, RowsFit, DesksFit
<1>6. SendersFit'
  BY DEF IInv, TypeOK, SendersFit, OneSender, DesksFit, GoneIsCounted
<1>7. OneSender'
  BY DEF IInv, TypeOK, OneSender, SendersFit
<1> QED
  BY <1>1, <1>2, <1>3, <1>4, <1>5, <1>6, <1>7 DEF IInv

LEMMA ScheduleHolds ==
  ASSUME IInv, NEW o \in Operators, SchedulePayout(o)
  PROVE  IInv'
<1> USE DEF States, Booked, Unsent, Sending, Outcomes, NoRow, Idle, SchedulePayout, Answer
<1>1. TypeOK'
  BY DEF IInv, TypeOK, DesksFit
<1>2. GoneIsCounted'
  BY DEF IInv, TypeOK, GoneIsCounted, DesksFit, SendersFit
<1>3. AskedOnce'
  BY DEF IInv, TypeOK, AskedOnce, RowsFit, DesksFit
<1>4. RowsFit'
  <2>1. CASE payout[desk[o].payout] = NoRow
    BY <2>1 DEF IInv, TypeOK, RowsFit, DesksFit
  <2>2. CASE payout[desk[o].payout] # NoRow
    <3>1. payout' = payout
      BY <2>2 DEF IInv, TypeOK
    <3> QED
      BY <3>1 DEF IInv, RowsFit
  <2> QED
    BY <2>1, <2>2
<1>5. DesksFit'
  BY DEF IInv, TypeOK, RowsFit, DesksFit
<1>6. SendersFit'
  BY DEF IInv, TypeOK, SendersFit, OneSender, DesksFit, GoneIsCounted
<1>7. OneSender'
  BY DEF IInv, TypeOK, OneSender, SendersFit
<1> QED
  BY <1>1, <1>2, <1>3, <1>4, <1>5, <1>6, <1>7 DEF IInv

LEMMA LoadHolds ==
  ASSUME IInv, NEW o \in Operators, NEW p \in Payouts, LoadPayout(o, p)
  PROVE  IInv'
<1> USE DEF States, Booked, Unsent, Sending, Outcomes, NoRow, Idle, LoadPayout
<1>1. TypeOK'
  BY DEF IInv, TypeOK, DesksFit
<1>2. GoneIsCounted'
  BY DEF IInv, TypeOK, GoneIsCounted, DesksFit, SendersFit
<1>3. AskedOnce'
  BY DEF IInv, TypeOK, AskedOnce, RowsFit, DesksFit
<1>4. RowsFit'
  BY DEF IInv, TypeOK, RowsFit, DesksFit
<1>5. DesksFit'
  BY DEF IInv, TypeOK, RowsFit, DesksFit
<1>6. SendersFit'
  BY DEF IInv, TypeOK, SendersFit, OneSender, DesksFit, GoneIsCounted
<1>7. OneSender'
  BY DEF IInv, TypeOK, OneSender, SendersFit
<1> QED
  BY <1>1, <1>2, <1>3, <1>4, <1>5, <1>6, <1>7 DEF IInv

(* A request that ends having changed nothing.                             *)
LEMMA LeavingHolds ==
  ASSUME IInv, NEW o \in Operators, desk' = [desk EXCEPT ![o] = Idle],
         UNCHANGED <<payout, payable, promised, batches, asked, gone>>
  PROVE  IInv'
<1>1. desk'[o].stage = "IDLE" /\ \A q \in Operators : q # o => desk'[q] = desk[q]
  BY DEF IInv, TypeOK, Idle
<1>2. TypeOK'
  BY DEF IInv, TypeOK, Idle, NoRow, Outcomes, States
<1> QED
  BY <1>1, <1>2 DEF IInv, GoneIsCounted, AskedOnce, RowsFit, DesksFit, SendersFit,
    OneSender, Sending

LEMMA SubmitHolds ==
  ASSUME IInv, NEW o \in Operators, SubmitPayout(o)
  PROVE  IInv'
<1> DEFINE p == desk[o].payout
<1>1. CASE payout' = payout /\ asked' = asked /\ Answer(o)
  BY <1>1, LeavingHolds DEF SubmitPayout, Answer
<1>2. CASE /\ Transition(p, desk[o].row, "SUBMITTED")
           /\ desk' = [desk EXCEPT ![o] =
                [desk[o] EXCEPT !.stage = "CALLING",
                                !.row = [@ EXCEPT !.status = "SUBMITTED"]]]
           /\ asked' = [asked EXCEPT ![p] = @ + 1]
  <2>0. /\ desk[o].stage = "LOADED" /\ UNCHANGED <<payable, promised, batches, gone>>
        /\ p \in Payouts /\ payout[p].status = "SCHEDULED"
        /\ payout' = [payout EXCEPT ![p].status = "SUBMITTED"]
        /\ desk[o].row.amount = payout[p].amount
    BY <1>2 DEF SubmitPayout, Transition, PAYOUT_TRANSITIONS, IInv, DesksFit
  <2>1. /\ payout'[p].status = "SUBMITTED" /\ payout'[p].amount = payout[p].amount
        /\ payout'[p].reversed = payout[p].reversed
        /\ \A q \in Payouts : q # p => payout'[q] = payout[q]
    BY <2>0 DEF IInv, TypeOK
  <2>2. /\ desk'[o].stage = "CALLING" /\ desk'[o].payout = p
        /\ desk'[o].row.status = "SUBMITTED" /\ desk'[o].row.amount = desk[o].row.amount
        /\ \A q \in Operators : q # o => desk'[q] = desk[q]
    BY <1>2 DEF IInv, TypeOK
  <2>3. \A q \in Operators : desk[q].stage \in Sending => desk[q].payout # p
    BY <2>0 DEF IInv, SendersFit
  <2>4. asked[p] = 0 /\ p \notin gone
    BY <2>0 DEF IInv, RowsFit, GoneIsCounted, Unsent, Booked
  <2> HIDE DEF p
  <2>5. TypeOK'
    <3>1. payout' \in [Payouts -> Row]
      BY <2>0 DEF IInv, TypeOK, Row, States
    <3>2. asked' \in [Payouts -> Nat]
      BY <1>2, <2>0 DEF IInv, TypeOK
    <3>3. desk' \in [Operators -> Desk]
      <4>1. desk[o] \in Desk /\ desk[o].row \in Row
        BY DEF IInv, TypeOK, Desk, Row
      <4>2. [desk[o].row EXCEPT !.status = "SUBMITTED"] \in Row
        BY <4>1 DEF Row, States
      <4>3. desk'[o] \in Desk
        BY <1>2, <4>1, <4>2 DEF IInv, TypeOK, Desk
      <4>4. desk' = [q \in Operators |-> desk'[q]]
        BY <1>2 DEF IInv, TypeOK
      <4> QED
        BY <2>2, <4>3, <4>4 DEF IInv, TypeOK, Desk, Row
    <3> QED
      BY <2>0, <3>1, <3>2, <3>3 DEF IInv, TypeOK, Desk, Row
  <2>6. GoneIsCounted'
    BY <2>0, <2>1 DEF IInv, GoneIsCounted, Booked
  <2>7. AskedOnce'
    BY <1>2, <2>0, <2>4 DEF IInv, TypeOK, AskedOnce
  <2>8. RowsFit'
    <3>1. \A q \in Payouts : q # p => asked'[q] = asked[q]
      BY <1>2 DEF IInv, TypeOK
    <3> QED
      BY <2>0, <2>1, <3>1 DEF IInv, RowsFit, Unsent
  <2>9. DesksFit'
    BY <2>0, <2>1, <2>2 DEF IInv, DesksFit, Sending
  <2>10. SendersFit'
    <3>1. \A q \in Operators : desk[q].stage \in Sending => desk[q].payout \in Payouts
      BY DEF IInv, DesksFit, Sending
    <3> QED
      BY <2>0, <2>1, <2>2, <2>3, <2>4, <3>1 DEF IInv, SendersFit, Sending
  <2>11. OneSender'
    BY <2>2, <2>3 DEF IInv, OneSender
  <2> QED
    BY <2>5, <2>6, <2>7, <2>8, <2>9, <2>10, <2>11 DEF IInv
<1> QED
  BY <1>1, <1>2 DEF SubmitPayout

LEMMA ProviderHolds ==
  ASSUME IInv, NEW o \in Operators, NEW outcome \in Outcomes, ProviderAnswers(o, outcome)
  PROVE  IInv'
<1> USE DEF States, Booked, Unsent, Sending, Outcomes, NoRow, Idle, ProviderAnswers
<1>1. TypeOK'
  <2>1. desk'[o] \in Desk
    BY DEF IInv, TypeOK, Desk, Row
  <2>2. \A q \in Operators : q # o => desk'[q] = desk[q]
    BY DEF IInv, TypeOK
  <2>3. desk' = [q \in Operators |-> desk'[q]]
    BY DEF IInv, TypeOK
  <2>4. desk' \in [Operators -> Desk]
    BY <2>1, <2>2, <2>3 DEF IInv, TypeOK, Desk, Row
  <2> QED
    BY <2>4 DEF IInv, TypeOK, Desk, Row, DesksFit
<1>2. GoneIsCounted'
  BY DEF IInv, TypeOK, GoneIsCounted, DesksFit, SendersFit
<1>3. AskedOnce'
  BY DEF IInv, TypeOK, AskedOnce, RowsFit, DesksFit
<1>4. RowsFit'
  BY DEF IInv, TypeOK, RowsFit, DesksFit
<1>5. DesksFit'
  BY DEF IInv, TypeOK, RowsFit, DesksFit
<1>6. SendersFit'
  BY DEF IInv, TypeOK, SendersFit, OneSender, DesksFit, GoneIsCounted
<1>7. OneSender'
  BY DEF IInv, TypeOK, OneSender, SendersFit
<1> QED
  BY <1>1, <1>2, <1>3, <1>4, <1>5, <1>6, <1>7 DEF IInv

LEMMA DeathHolds ==
  ASSUME IInv, NEW o \in Operators, RequestDies(o)
  PROVE  IInv'
<1> USE DEF States, Booked, Unsent, Sending, Outcomes, NoRow, Idle, RequestDies, Answer
<1>1. TypeOK'
  BY DEF IInv, TypeOK, DesksFit
<1>2. GoneIsCounted'
  BY DEF IInv, TypeOK, GoneIsCounted, DesksFit, SendersFit
<1>3. AskedOnce'
  BY DEF IInv, TypeOK, AskedOnce, RowsFit, DesksFit
<1>4. RowsFit'
  BY DEF IInv, TypeOK, RowsFit, DesksFit
<1>5. DesksFit'
  BY DEF IInv, TypeOK, RowsFit, DesksFit
<1>6. SendersFit'
  BY DEF IInv, TypeOK, SendersFit, OneSender, DesksFit, GoneIsCounted
<1>7. OneSender'
  BY DEF IInv, TypeOK, OneSender, SendersFit
<1> QED
  BY <1>1, <1>2, <1>3, <1>4, <1>5, <1>6, <1>7 DEF IInv

(* The holder of a payout being sent always finds it as it left it, so it  *)
(* is the one who records the answer.                                      *)
LEMMA HolderRecords ==
  ASSUME IInv, NEW o \in Operators, RecordPayout(o)
  PROVE  LET p == desk[o].payout
             to == SettledAs(desk[o].outcome)
         IN  /\ p \in Payouts /\ desk[o].outcome \in Outcomes
             /\ to \in {"PAID", "FAILED", "RECONCILIATION_REQUIRED"}
             /\ to = "PAID" => p \in gone
             /\ to = "FAILED" => p \notin gone
             /\ payout[p].status = "SUBMITTED"
             /\ payout' = [payout EXCEPT ![p].status = to]
             /\ batches' = IF to # "PAID" THEN batches
                            ELSE [batches EXCEPT ![p].out = @ + payout[p].amount]
             /\ desk' = [desk EXCEPT ![o] = Idle]
             /\ UNCHANGED <<payable, promised, asked, gone>>
<1>1. /\ desk[o].stage = "ANSWERED"
      /\ desk[o].payout \in Payouts /\ desk[o].outcome \in Outcomes
      /\ desk[o].row.status = "SUBMITTED" /\ payout[desk[o].payout].status = "SUBMITTED"
      /\ desk[o].row.amount = payout[desk[o].payout].amount
  BY DEF RecordPayout, IInv, DesksFit, SendersFit, Sending
<1>2. /\ SettledAs(desk[o].outcome) \in {"PAID", "FAILED", "RECONCILIATION_REQUIRED"}
      /\ SettledAs(desk[o].outcome) = "PAID" => desk[o].outcome = "SUCCEEDED"
      /\ SettledAs(desk[o].outcome) = "FAILED" => desk[o].outcome = "FAILED"
  BY <1>1 DEF SettledAs, Outcomes
<1>3. ~Refused(desk[o].payout, desk[o].row, SettledAs(desk[o].outcome))
  BY <1>1, <1>2 DEF Refused, PAYOUT_TRANSITIONS
<1>4. /\ SettledAs(desk[o].outcome) = "PAID" => desk[o].payout \in gone
      /\ SettledAs(desk[o].outcome) = "FAILED" => desk[o].payout \notin gone
  BY <1>1, <1>2 DEF IInv, SendersFit, Sending
<1> QED
  BY <1>1, <1>2, <1>3, <1>4 DEF RecordPayout, Transition, Answer

LEMMA RecordHolds ==
  ASSUME IInv, NEW o \in Operators, RecordPayout(o)
  PROVE  IInv'
<1> DEFINE p == desk[o].payout
           to == SettledAs(desk[o].outcome)
<1>0. /\ p \in Payouts /\ to \in {"PAID", "FAILED", "RECONCILIATION_REQUIRED"}
      /\ to = "PAID" => p \in gone
      /\ to = "FAILED" => p \notin gone
      /\ payout[p].status = "SUBMITTED"
      /\ payout' = [payout EXCEPT ![p].status = to]
      /\ batches' = IF to # "PAID" THEN batches
                     ELSE [batches EXCEPT ![p].out = @ + payout[p].amount]
      /\ desk' = [desk EXCEPT ![o] = Idle]
      /\ UNCHANGED <<payable, promised, asked, gone>>
  BY HolderRecords
<1>00. p = desk[o].payout /\ desk[o].stage = "ANSWERED"
  BY DEF RecordPayout
<1> HIDE DEF p, to
<1>1. TypeOK'
  <2>1. payout' \in [Payouts -> Row]
    BY <1>0 DEF IInv, TypeOK, Row, States
  <2>2. batches' \in [Payouts -> [out : Nat, back : Nat]]
    BY <1>0 DEF IInv, TypeOK
  <2>3. desk' \in [Operators -> Desk]
    BY <1>0 DEF IInv, TypeOK, Desk, Row, Idle, NoRow
  <2> QED
    BY <1>0, <2>1, <2>2, <2>3 DEF IInv, TypeOK, Desk, Row
<1>2. GoneIsCounted'
  <2>1. ASSUME NEW q \in Payouts, q # p
        PROVE  payout'[q] = payout[q] /\ batches'[q] = batches[q]
    BY <1>0, <2>1 DEF IInv, TypeOK
  <2>2. /\ payout'[p].status = to /\ payout'[p].amount = payout[p].amount
        /\ payout'[p].reversed = payout[p].reversed
    BY <1>0 DEF IInv, TypeOK
  <2>3. batches[p].out = 0 /\ batches[p].back = payout[p].reversed
    BY <1>0 DEF IInv, GoneIsCounted, Booked
  <2>4. batches'[p].back = batches[p].back
    BY <1>0 DEF IInv, TypeOK
  <2>5. batches'[p].out = IF to = "PAID" THEN payout[p].amount ELSE 0
    BY <1>0, <2>3 DEF IInv, TypeOK
  <2> QED
    BY <1>0, <2>1, <2>2, <2>3, <2>4, <2>5 DEF IInv, GoneIsCounted, Booked
<1>3. AskedOnce'
  BY <1>0 DEF IInv, AskedOnce
<1>4. RowsFit'
  <2>1. \A q \in Payouts : q # p => payout'[q] = payout[q]
    BY <1>0 DEF IInv, TypeOK
  <2>2. payout'[p].status = to /\ payout'[p].reversed = payout[p].reversed
    BY <1>0 DEF IInv, TypeOK
  <2> QED
    BY <1>0, <2>1, <2>2 DEF IInv, RowsFit, Unsent
<1>5. DesksFit'
  <2>1. \A q \in Payouts : /\ payout'[q].amount = payout[q].amount
                           /\ payout[q].status # "NONE" => payout'[q].status # "NONE"
    BY <1>0 DEF IInv, TypeOK
  <2>2. desk'[o].stage = "IDLE" /\ \A q \in Operators : q # o => desk'[q] = desk[q]
    BY <1>0 DEF IInv, TypeOK, Idle
  <2> QED
    BY <2>1, <2>2 DEF IInv, DesksFit, Sending
<1>6. SendersFit'
  <2>1. desk'[o].stage = "IDLE" /\ \A q \in Operators : q # o => desk'[q] = desk[q]
    BY <1>0 DEF IInv, TypeOK, Idle
  <2>2. \A q \in Operators : q # o /\ desk[q].stage \in Sending => desk[q].payout # p
    BY <1>00 DEF IInv, OneSender, Sending
  <2>3. \A q \in Payouts : q # p => payout'[q] = payout[q]
    BY <1>0 DEF IInv, TypeOK
  <2>4. \A q \in Operators : desk[q].stage \in Sending => desk[q].payout \in Payouts
    BY DEF IInv, DesksFit, Sending
  <2> QED
    BY <1>0, <2>1, <2>2, <2>3, <2>4 DEF IInv, SendersFit, Sending
<1>7. OneSender'
  BY <1>0 DEF IInv, TypeOK, OneSender, Idle, Sending
<1> QED
  BY <1>1, <1>2, <1>3, <1>4, <1>5, <1>6, <1>7 DEF IInv

LEMMA ReverseHolds ==
  ASSUME IInv, NEW o \in Operators, NEW a \in Amounts, ReversePayout(o, a)
  PROVE  IInv'
<1> DEFINE p == desk[o].payout
<1>1. CASE UNCHANGED <<payout, batches>>
  BY <1>1, LeavingHolds DEF ReversePayout, Answer
<1>2. CASE /\ <<desk[o].row.status, "REVERSED">> \in PAYOUT_TRANSITIONS
           /\ payout[p].status = desk[o].row.status
           /\ payout' = [payout EXCEPT ![p].status = "REVERSED", ![p].reversed = @ + a]
           /\ batches' = [batches EXCEPT ![p].back = @ + a]
  <2>0. /\ desk[o].stage = "LOADED" /\ desk' = [desk EXCEPT ![o] = Idle]
        /\ UNCHANGED <<payable, promised, asked, gone>>
        /\ p \in Payouts /\ payout[p].status = "PAID" /\ payout[p].reversed = 0
        /\ a \in Nat /\ a \in 1 .. payout[p].amount - 0
    BY <1>2, PayoutsAssumption
    DEF ReversePayout, Answer, PAYOUT_TRANSITIONS, Amounts, IInv, DesksFit, RowsFit
  <2>1. /\ payout'[p].status = "REVERSED" /\ payout'[p].amount = payout[p].amount
        /\ payout'[p].reversed = a
        /\ \A q \in Payouts : q # p => payout'[q] = payout[q]
    BY <1>2, <2>0 DEF IInv, TypeOK
  <2>2. /\ batches'[p].out = batches[p].out
        /\ batches'[p].back = batches[p].back + a
        /\ \A q \in Payouts : q # p => batches'[q] = batches[q]
    BY <1>2, <2>0 DEF IInv, TypeOK
  <2>3. desk'[o].stage = "IDLE" /\ \A q \in Operators : q # o => desk'[q] = desk[q]
    BY <2>0 DEF IInv, TypeOK, Idle
  <2>4. payout[p].amount \in Nat
    BY <2>0 DEF IInv, TypeOK
  <2> HIDE DEF p
  <2>5. TypeOK'
    <3>1. payout' = [payout EXCEPT ![p] =
                       [status |-> "REVERSED", amount |-> payout[p].amount, reversed |-> a]]
      BY <1>2, <2>0 DEF IInv, TypeOK
    <3>2. payout' \in [Payouts -> Row]
      BY <2>0, <2>4, <3>1 DEF IInv, TypeOK, Row, States
    <3>3. batches' \in [Payouts -> [out : Nat, back : Nat]]
      BY <1>2, <2>0 DEF IInv, TypeOK
    <3>4. desk' \in [Operators -> Desk]
      BY <2>0 DEF IInv, TypeOK, Desk, Row, Idle, NoRow
    <3> QED
      BY <2>0, <3>2, <3>3, <3>4 DEF IInv, TypeOK, Desk, Row
  <2>6. GoneIsCounted'
    <3>1. batches[p].back = 0
      BY <2>0 DEF IInv, GoneIsCounted
    <3> QED
      BY <2>0, <2>1, <2>2, <2>4, <3>1 DEF IInv, GoneIsCounted, Booked
  <2>7. AskedOnce'
    BY <2>0 DEF IInv, AskedOnce
  <2>8. RowsFit'
    BY <2>0, <2>1 DEF IInv, RowsFit, Unsent
  <2>9. DesksFit'
    BY <2>0, <2>1, <2>3 DEF IInv, DesksFit, Sending
  <2>10. SendersFit'
    <3>1. \A q \in Operators : desk[q].stage \in Sending => desk[q].payout \in Payouts
      BY DEF IInv, DesksFit, Sending
    <3> QED
      BY <2>0, <2>1, <2>3, <3>1 DEF IInv, SendersFit, Sending
  <2>11. OneSender'
    BY <2>3 DEF IInv, OneSender, Sending
  <2> QED
    BY <2>5, <2>6, <2>7, <2>8, <2>9, <2>10, <2>11 DEF IInv
<1> QED
  BY <1>1, <1>2 DEF ReversePayout

(* What the rest of the system does to the balance touches no payout.      *)
LEMMA BalanceHolds ==
  ASSUME IInv, OrderPaid \/ RefundAsked \/ RefundEnds
  PROVE  IInv'
<1>1. UNCHANGED <<payout, batches, desk, asked, gone>>
  BY DEF OrderPaid, RefundAsked, RefundEnds
<1>2. TypeOK'
  BY <1>1 DEF IInv, TypeOK, OrderPaid, RefundAsked, RefundEnds
<1> QED
  BY <1>1, <1>2 DEF IInv, GoneIsCounted, AskedOnce, RowsFit, DesksFit, SendersFit, OneSender

LEMMA StepHolds == IInv /\ [Next]_vars => IInv'
<1> SUFFICES ASSUME IInv, [Next]_vars PROVE IInv'
  OBVIOUS
<1>1. CASE UNCHANGED vars
  BY <1>1 DEF vars, IInv, TypeOK, GoneIsCounted, AskedOnce, RowsFit, DesksFit, SendersFit, OneSender
<1>2. CASE Next
  BY <1>2, ReadHolds, ScheduleHolds, LoadHolds, SubmitHolds, ProviderHolds, DeathHolds,
    RecordHolds, ReverseHolds, BalanceHolds DEF Next
<1> QED
  BY <1>1, <1>2

LEMMA Invariance == Spec => []IInv
BY InitHolds, StepHolds, PTL DEF Spec

----------------------------------------------------------------------------
(* The rows, the books and the provider keep their types, whatever order   *)
(* requests read, submit, record and die in (payouts.js).                  *)
THEOREM Typed == Spec => []TypeOK
<1>1. IInv => TypeOK
  BY DEF IInv
<1> QED
  BY <1>1, Invariance, PTL

(* Money the provider sent is in flight or in the books, and the books say *)
(* nothing of money it did not send, through every crash and timeout       *)
(* (settlePayout, failPayout, holdPayoutForReconciliation, reversePayout). *)
THEOREM Counted == Spec => []GoneIsCounted
<1>1. IInv => GoneIsCounted
  BY DEF IInv
<1> QED
  BY <1>1, Invariance, PTL

(* One call for each payout, for every number of people who send it (the   *)
(* claim of payouts.send).                                                 *)
THEOREM OneCall == Spec => []AskedOnce
<1>1. IInv => AskedOnce
  BY DEF IInv
<1> QED
  BY <1>1, Invariance, PTL
=============================================================================
