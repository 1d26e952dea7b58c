--------------------------------- MODULE Dues ---------------------------------
(***************************************************************************)
(* What the door promises about tickets booked to pay at the venue: a      *)
(* place that owes its price is let in for the first time exactly when     *)
(* that price is taken, whole and once; a place excused from its price     *)
(* is never let in and never pays.                                         *)
(***************************************************************************)
EXTENDS Integers

CONSTANTS
  Places,
  Priced,   \* those that owe something at the door
  Worth(_)  \* what a set of places owes in all

VARIABLES
  due,     \* what became of each place's price
  inside,  \* places let in at least once
  till     \* the money taken at the doors

vars == <<due, inside, till>>

Init ==
  /\ due = [p \in Places |-> "none"]
  /\ inside = {}
  /\ till = 0

Issue(S) ==
  /\ \A p \in S : due[p] = "none"
  /\ due' = [p \in Places |-> IF p \notin S THEN due[p]
                              ELSE IF p \in Priced THEN "owed" ELSE "nothing"]
  /\ UNCHANGED <<inside, till>>

LetIn(S) ==
  /\ \A p \in S : due[p] \in {"owed", "paid", "nothing"}
  /\ due' = [p \in Places |-> IF p \in S /\ due[p] = "owed" THEN "paid" ELSE due[p]]
  /\ till' = till + Worth({p \in S : due[p] = "owed"})
  /\ inside' = inside \cup S

Excuse(S) ==
  /\ due' = [p \in Places |-> IF p \in S /\ due[p] = "owed" THEN "excused" ELSE due[p]]
  /\ UNCHANGED <<inside, till>>

Next == \E S \in SUBSET Places : Issue(S) \/ LetIn(S) \/ Excuse(S)

Spec == Init /\ [][Next]_vars
=============================================================================
