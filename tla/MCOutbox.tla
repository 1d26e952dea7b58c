------------------------------ MODULE MCOutbox ------------------------------
(***************************************************************************)
(* Three passes of two workers over the messages of one instance of        *)
(* Outbox.  The passes of one process share their name, as in the code.    *)
(***************************************************************************)
EXTENDS Outbox, TLC

CONSTANTS p1, p2, p3, w1, w2

MCWorkerOf == p1 :> w1 @@ p2 :> w1 @@ p3 :> w2
=============================================================================
