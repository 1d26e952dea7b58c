------------------------------ MODULE Counting ------------------------------
(***************************************************************************)
(* Sums over a finite set, as what they count.  The sum of f over S is the *)
(* number of units that the elements of S bring along, where element x     *)
(* brings the units <<x, 1>>, ..., <<x, f[x]>>.  Written so, a sum has all *)
(* that is known of the sizes of finite sets.                              *)
(***************************************************************************)
EXTENDS Integers, FiniteSets

Units(f, S) == UNION {{x} \X (1 .. f[x]) : x \in S}

SumOf(f, S) == Cardinality(Units(f, S))

=============================================================================
