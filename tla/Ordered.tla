------------------------------ MODULE Ordered ------------------------------
(***************************************************************************)
(* The numbers of a finite set in increasing order, as a BTreeMap gives    *)
(* its keys.                                                               *)
(***************************************************************************)
EXTENDS Integers, FiniteSets

InOrder(S) ==
  CHOOSE f \in [1 .. Cardinality(S) -> S] : \A i, j \in 1 .. Cardinality(S) : i < j => f[i] < f[j]
=============================================================================
