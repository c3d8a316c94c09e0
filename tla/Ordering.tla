------------------------------ MODULE Ordering ------------------------------
(***************************************************************************)
(* ORDER BY: the elements of a finite set as a sequence.  SetToSortSeq of  *)
(* the community modules goes through the enumerations of the set, which   *)
(* TLC cannot afford in every state.                                       *)
(***************************************************************************)
EXTENDS Integers, FiniteSets

\* Before is a strict total order on S.
InOrder(S, Before(_, _)) ==
  [i \in 1..Cardinality(S) |->
     CHOOSE e \in S : Cardinality({f \in S : Before(f, e)}) = i - 1]
=============================================================================
