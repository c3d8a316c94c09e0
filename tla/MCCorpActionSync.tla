-------------------------- MODULE MCCorpActionSync --------------------------
(***************************************************************************)
(* Instances of CorpActionSync for TLC.                                    *)
(***************************************************************************)
EXTENDS CorpActionSyncHistory

CONSTANTS a1, a2, u1, x1, y1, y2

Trade(account, type, qty, amount, time) ==
  [account |-> account, asset |-> x1, type |-> type, qty |-> qty,
   amount |-> amount, charges |-> 0, time |-> time, deleted |-> FALSE]

News(type, exDate, num, den) ==
  [asset |-> x1, type |-> type, exDate |-> exDate,
   ratio |-> [num |-> num, den |-> den]]

\* Trades around splits at the times 2 and 4.
TradesAroundSplit ==
  {Trade(a, "buy", 2, 8, 1) : a \in Accounts}
  \cup {Trade(a, "buy", 1, 2, 3) : a \in Accounts}
  \cup {Trade(a, "sell", 2, 4, 4) : a \in Accounts}

\* A book that sells what the second split takes away can only be replayed
\* when the first one is recorded too; the first one may get another ratio.
TwoSplits ==
  {News("split", 2, 2, 1), News("split", 2, 3, 1), News("split", 4, 1, 2)}

OneSplit == {News("split", 4, 2, 1)}

SameOwner == [a \in Accounts |-> u1]
=============================================================================
