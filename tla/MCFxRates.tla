------------------------------ MODULE MCFxRates -----------------------------
(***************************************************************************)
(* An instance of FxRates for TLC.                                         *)
(***************************************************************************)
EXTENDS FxRates, TLC

CONSTANTS r1, r2, r3

Interchangeable == Permutations(Requests)
=============================================================================
