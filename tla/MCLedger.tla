------------------------------ MODULE MCLedger ------------------------------
(***************************************************************************)
(* An instance of Ledger for TLC: the accounts of two users, between which *)
(* an administrator moves trades.                                          *)
(***************************************************************************)
EXTENDS LedgerProperties

CONSTANTS a1, a2, u1, u2, x1

Row(account, type, qty, amount, time) ==
  [account |-> account, asset |-> x1, type |-> type, qty |-> qty,
   amount |-> amount, charges |-> IF type = "sell" THEN 1 ELSE 0,
   time |-> time, deleted |-> FALSE]

\* Buys of one account at different unit costs, two of them at one instant,
\* and sells that consume part of a lot or more than one lot.
OneAccountTrades ==
  {Row(a1, "buy", 2, 4, 1), Row(a1, "buy", 1, 3, 1),
   Row(a1, "sell", 1, 4, 2), Row(a1, "buy", 1, 5, 2),
   Row(a1, "sell", 2, 4, 3)}

\* A sell that moves to the other account takes another lot there, at another
\* cost.
MovedTrades ==
  {Row(a1, "buy", 2, 4, 1), Row(a1, "buy", 1, 3, 1),
   Row(a1, "sell", 1, 4, 2),
   Row(a2, "buy", 1, 4, 2), Row(a2, "sell", 1, 4, 3)}

TheTrades == OneAccountTrades \cup MovedTrades

Stored == {t \in TxIds : Exists(t)}

Deleted == {t \in Stored : tx[t].deleted}

\* Entries that a former owner has kept, or that a deleted row has left.
LeftOver == {e \in gl : ~(Live(e.ref) /\ e.account = tx[e.ref].account)}

\* Bound: four rows, one of them soft-deleted, where the second account has
\* no part, and otherwise three live rows with one entry left over.
FewRows ==
  \/ /\ \A t \in Stored : tx[t].account = a1
     /\ \A e \in gl : e.account = a1
     /\ Cardinality(Deleted) <= 1
  \/ /\ \A t \in Stored : tx[t] \in MovedTrades
     /\ Cardinality(Stored) <= 3
     /\ Cardinality(LeftOver) <= 1

OwnerOfEach == (a1 :> u1) @@ (a2 :> u2)
=============================================================================
