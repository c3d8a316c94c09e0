---------------------------- MODULE MCValuation -----------------------------
(***************************************************************************)
(* An instance of Valuation for TLC: two accounts of a user, trades that   *)
(* may move between them, a fund, and movements of cash.                   *)
(***************************************************************************)
EXTENDS ValuationProperties

CONSTANTS a1, a2, u1, x1, x2

Row(account, asset, type, qty, amount, time) ==
  [account |-> account, asset |-> asset, type |-> type, qty |-> qty,
   amount |-> amount, charges |-> IF type = "sell" THEN 1 ELSE 0,
   time |-> time, deleted |-> FALSE]

TheInputs ==
  {Row(a1, x1, "buy", 2, 2, 1), Row(a1, x1, "buy", 1, 3, 1),
   Row(a1, x1, "buy", 1, 5, 2), Row(a2, x1, "buy", 2, 4, 2),
   Row(a1, x1, "sell", 1, 4, 3), Row(a2, x1, "sell", 2, 4, 3),
   Row(a2, x1, "buy", 1, 3, 4),
   Row(a1, x2, "buy", 1, 5, 2), Row(a1, NoAsset, "deposit", 0, 5, 1),
   Row(a1, x1, "fee", 0, 3, 1)}

Price(asset, day, price) == [asset |-> asset, day |-> day, price |-> price]

ThePrices == {Price(x1, 0, 3), Price(x1, 1, 2), Price(x2, 1, 4)}

SameOwner == [a \in Accounts |-> u1]

ClassOf == (x1 :> "equity") @@ (x2 :> "bond")

OneRate == [x \in Assets |-> 1]

TwoRates == (a1 :> 1) @@ (a2 :> 3)
=============================================================================
