----------------------------- MODULE MCAccounts -----------------------------
(***************************************************************************)
(* An instance of Accounts for TLC: an admin and a user, two accounts.     *)
(***************************************************************************)
EXTENDS Accounts, TLC

CONSTANTS u1, admin, a1, a2, t1

Interchangeable == Permutations(AccountIds)

TheManualGl == AccountIds \cup {<<u1, "equity_contribution">>}
=============================================================================
