-------------------------- MODULE MCTrendAfterSplit -------------------------
(***************************************************************************)
(* The trend of an account next to the split sync: two shares bought, one  *)
(* split into two, and three of the four sold.                             *)
(***************************************************************************)
EXTENDS CorpActionSyncProperties, ValuationProperties

CONSTANTS a1, u1, x1, y1

Trade(type, qty, amount, time) ==
  [account |-> a1, asset |-> x1, type |-> type, qty |-> qty,
   amount |-> amount, charges |-> 0, time |-> time, deleted |-> FALSE]

TheTrades == {Trade("buy", 2, 8, 1), Trade("sell", 3, 6, 3)}

TheSplit ==
  {[asset |-> x1, type |-> "split", exDate |-> 2,
    ratio |-> [num |-> 2, den |-> 1]]}

TheOwner == [a \in Accounts |-> u1]

ClassOf == [x \in Assets |-> "equity"]

OneAssetRate == [x \in Assets |-> 1]

OneAccountRate == [a \in Accounts |-> 1]
=============================================================================
