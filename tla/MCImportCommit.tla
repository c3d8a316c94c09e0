--------------------------- MODULE MCImportCommit ---------------------------
(***************************************************************************)
(* Instances of ImportCommit for TLC.                                      *)
(***************************************************************************)
EXTENDS ImportCommitProperties, TLC

CONSTANTS a1, a2, u1, x1, o1, o2

Trade(account, type, qty, amount, time) ==
  [account |-> account, asset |-> x1, type |-> type, qty |-> qty,
   amount |-> amount, charges |-> 0, time |-> time, deleted |-> FALSE]

\* A trade entered by hand has a time of day.
Morning(day) == Midnight(day) + 1

FileRow(order, fault, account, type, day) ==
  [order |-> order, fault |-> fault,
   row |-> Trade(account, type, 2, IF type = "buy" THEN 4 ELSE 6, Midnight(day))]

GoodRow(order, type, day) == FileRow(order, "none", a1, type, day)

File(account, rows) == [account |-> account, rows |-> rows]

\* Files that share rows, repeat one or have faults, and one for the other
\* account with an order number of the first.
ConcurrentFiles ==
  {File(a1, <<GoodRow(o1, "sell", 2), GoodRow(o2, "buy", 1)>>),
   File(a1, <<GoodRow(o1, "buy", 1), GoodRow(o1, "buy", 2)>>),
   File(a1, <<FileRow(o1, "fields", a1, "buy", 1), GoodRow(o1, "buy", 1),
              FileRow(o2, "mapping", a1, "buy", 1)>>),
   File(a2, <<FileRow(o2, "none", a2, "buy", 1)>>)}

ConcurrentInputs ==
  {Trade(a1, "buy", 2, 8, Morning(1)), Trade(a1, "sell", 2, 8, Morning(2))}

Interchangeable == Permutations(Requests)

SameOwner == [a \in Accounts |-> u1]

MaybeASplit ==
  {{}, {[asset |-> x1, type |-> "split", exDate |-> Midnight(2),
         ratio |-> [num |-> 2, den |-> 1]]}}
=============================================================================
