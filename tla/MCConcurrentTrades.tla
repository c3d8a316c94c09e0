------------------------- MODULE MCConcurrentTrades -------------------------
(***************************************************************************)
(* An instance of ConcurrentTrades for TLC: a purchase of two shares and   *)
(* two sells that each want both.                                          *)
(***************************************************************************)
EXTENDS ConcurrentTrades

CONSTANTS a1, u1, x1

Trade(type, amount, time) ==
  [account |-> a1, asset |-> x1, type |-> type, qty |-> 2,
   amount |-> amount, charges |-> 0, time |-> time, deleted |-> FALSE]

TheTrades == {Trade("buy", 4, 1), Trade("sell", 6, 2), Trade("sell", 8, 3)}

TheOwner == [a \in Accounts |-> u1]
=============================================================================
