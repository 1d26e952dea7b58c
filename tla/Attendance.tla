------------------------------ MODULE Attendance ------------------------------
(***************************************************************************)
(* What the tickets of an order line promise the door and their holders:   *)
(* each place that was bought has one pass at a time, is let in at most    *)
(* once a night on a night it is good for, changes hands only before it    *)
(* has let anybody in, and ends for good.  A pass that was handed on is    *)
(* spent.                                                                  *)
(***************************************************************************)
EXTENDS Naturals

CONSTANTS
  Places,   \* what was bought: one per ticket issued
  Tickets,  \* passes that may be issued
  Nights,   \* the event's nights
  NoNight,  \* the night of a place that is good for every night
  Own       \* the night each place is for

VARIABLES
  standing,  \* places that did not end
  pass,      \* the pass of each place
  spent,     \* passes that were handed on
  letIn      \* the nights each place was let in on

vars == <<standing, pass, spent, letIn>>

Init ==
  /\ standing = Places
  /\ pass \in [Places -> Tickets]
  /\ \A p, r \in Places : pass[p] = pass[r] => p = r
  /\ spent = {}
  /\ letIn = [p \in Places |-> {}]

(* A group's pass lets several places in at once. *)
LetIn(S, n) ==
  /\ S \subseteq standing
  /\ \A p \in S : Own[p] \in {n, NoNight} /\ n \notin letIn[p]
  /\ letIn' = [p \in Places |-> IF p \in S THEN letIn[p] \cup {n} ELSE letIn[p]]
  /\ UNCHANGED <<standing, pass, spent>>

HandOn(p, t) ==
  /\ p \in standing /\ letIn[p] = {}
  /\ t \notin spent /\ \A r \in Places : pass[r] # t
  /\ pass' = [pass EXCEPT ![p] = t]
  /\ spent' = spent \cup {pass[p]}
  /\ UNCHANGED <<standing, letIn>>

End(S) ==
  /\ standing' = standing \ S
  /\ UNCHANGED <<pass, spent, letIn>>

Next ==
  \/ \E S \in SUBSET Places, n \in Nights : LetIn(S, n)
  \/ \E p \in Places, t \in Tickets : HandOn(p, t)
  \/ \E S \in SUBSET Places : End(S)

Spec == Init /\ [][Next]_vars
=============================================================================
