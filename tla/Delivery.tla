------------------------------ MODULE Delivery ------------------------------
(***************************************************************************)
(* What the notification outbox promises for every message, whoever sends  *)
(* it and however often (packages/notifications/src/outbox.js):            *)
(* "something that happened is never silently not announced".              *)
(*                                                                         *)
(* A message waits; a message written off as SENT has reached the          *)
(* provider, and SENT and CANCELLED are final; a message given up waits    *)
(* for an operator; and no message waits for ever.                         *)
(***************************************************************************)
CONSTANTS Messages

VARIABLES fate,      \* what the outbox says of each message
          reached    \* messages the provider has taken at least once

vars == <<fate, reached>>

Fates == {"waiting", "sent", "dead", "withdrawn"}

Init == /\ fate = [m \in Messages |-> "waiting"]
        /\ reached = {}

\* The provider takes a message, also one the outbox no longer waits for: a
\* worker that lost its lease may still be inside the call.
Reach(m) == /\ reached' = reached \cup {m}
            /\ UNCHANGED fate

Close(m) == /\ fate[m] = "waiting"
            /\ \/ m \in reached /\ fate' = [fate EXCEPT ![m] = "sent"]
               \/ fate' = [fate EXCEPT ![m] = "dead"]
            /\ UNCHANGED reached

Withdraw(m) == /\ fate[m] \in {"waiting", "dead"}
               /\ fate' = [fate EXCEPT ![m] = "withdrawn"]
               /\ UNCHANGED reached

Requeue(m) == /\ fate[m] = "dead"
              /\ fate' = [fate EXCEPT ![m] = "waiting"]
              /\ UNCHANGED reached

Next == \E m \in Messages :
          Reach(m) \/ Close(m) \/ Withdraw(m) \/ Requeue(m)

Safe == Init /\ [][Next]_vars

Spec == Safe /\ \A m \in Messages : WF_vars(Close(m))
=============================================================================
