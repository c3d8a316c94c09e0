-------------------------- MODULE LedgerProperties --------------------------
(***************************************************************************)
(* What the investment book of Ledger must satisfy.                        *)
(***************************************************************************)
EXTENDS Ledger

(***************************************************************************)
(* The tables hold rows of the right shape and their keys are keys of the  *)
(* tables they refer to.                                                   *)
(***************************************************************************)
TypeOK ==
  /\ tx \in [TxIds -> TxRow \cup {NoTx}]
  /\ \A l \in lots : l.scope \in Scopes
  /\ \A m \in matches : m.scope \in Scopes /\ m.sell \in TxIds
  /\ \A p \in positions : p.scope \in Scopes /\ p.open \in BOOLEAN
  /\ \A e \in gl : /\ e.ref \in TxIds
                   /\ e.account \in Accounts
                   /\ e.date \in Nat

-----------------------------------------------------------------------------
(***************************************************************************)
(* The abstract FIFO book of a scope without splits.  The trades stand in  *)
(* order, by time and then by identifier.  Line the bought shares up in    *)
(* that order and the sold shares below them: a sell matches a buy in as   *)
(* many shares as their two intervals have in common.                      *)
(***************************************************************************)
Precedes(t, u) ==
  tx[t].time < tx[u].time \/ (tx[t].time = tx[u].time /\ t < u)

Preceding(T, t) == {u \in T : Precedes(u, t)}

LiveBuys(table, s) == LiveTrades(table, s) \ LiveSells(table, s)

SharesOf(T) == SumFunction([t \in T |-> tx[t].qty])

\* Where the shares of t begin among those of the trades of T.
Start(T, t) == SharesOf(Preceding(T, t))

Finish(T, t) == Start(T, t) + tx[t].qty

Common(lo1, hi1, lo2, hi2) == Max({0, Min({hi1, hi2}) - Max({lo1, lo2})})

UnitCost(t) == tx[t].amount \div tx[t].qty

FifoFeasible(s) ==
  \A sell \in LiveSells(tx, s) :
    Finish(LiveSells(tx, s), sell) <= Start(LiveBuys(tx, s), sell)

FifoLots(s) ==
  LET buys == LiveBuys(tx, s) IN
  {[scope |-> s, src |-> b, orig |-> tx[b].qty,
    rem |-> Common(Start(buys, b), Finish(buys, b),
                   SharesOf(LiveSells(tx, s)), SharesOf(buys)),
    unit |-> UnitCost(b), openedAt |-> tx[b].time] : b \in buys}

FifoMatches(s) ==
  LET buys  == LiveBuys(tx, s)
      sells == LiveSells(tx, s)
      Qty(b, e) == Common(Start(buys, b), Finish(buys, b),
                          Start(sells, e), Finish(sells, e)) IN
  {[scope |-> s, sell |-> p[2], src |-> p[1], qty |-> Qty(p[1], p[2]),
    unit |-> UnitCost(p[1])] :
     p \in {q \in buys \X sells : Qty(q[1], q[2]) > 0}}

LotsOf(s) == {l \in lots : l.scope = s}

ScopeMatches(s) == {m \in matches : m.scope = s}

FifoBook(s) ==
  LotsOf(s) = FifoLots(s) /\ ScopeMatches(s) = FifoMatches(s)

\* First in, first out as far as instants go: lots opened at one instant
\* may be consumed in any order, but what is left of everything bought up to
\* an instant, and what a sell took of it, is what the intervals tell.
LeftUpTo(rows, time) ==
  SumFunction([l \in {k \in rows : k.openedAt <= time} |-> l.rem])

TakenUpTo(rows, time) ==
  SumFunction([m \in {k \in rows : tx[k.src].time <= time} |-> m.qty])

FifoByInstant(s) ==
  \A buy \in LiveBuys(tx, s) :
    LET now    == tx[buy].time
        sells  == LiveSells(tx, s)
        bought == SharesOf({b \in LiveBuys(tx, s) : tx[b].time <= now}) IN
    /\ LeftUpTo(LotsOf(s), now)
         = Common(0, bought, SharesOf(sells), SharesOf(LiveBuys(tx, s)))
    /\ \A sell \in sells :
         TakenUpTo(MatchesOf(sell, matches), now)
           = Common(0, bought, Start(sells, sell), Finish(sells, sell))

BuysAtDistinctTimes(s) ==
  \A t, u \in LiveBuys(tx, s) : t # u => tx[t].time # tx[u].time

NoSplitRecorded(s) == \A a \in splits : a.asset # s[2]

(***************************************************************************)
(* Whatever the sequence of creates, updates and deletes, and whichever of *)
(* them were applied incrementally, the lots and matches of every scope    *)
(* are those of a first-in-first-out book over its live trades in time     *)
(* order (trades at the same instant by identifier).  The claim of         *)
(* README.md: sells use FIFO lots, backdated changes rebuild the scope.    *)
(* Lots opened at one instant may be consumed in an order of their own,    *)
(* because the query of the open lots leaves it open.  Stated where no     *)
(* split is recorded.                                                      *)
(***************************************************************************)
ChronologicalFifo ==
  \A s \in Scopes :
    NoSplitRecorded(s) =>
      /\ FifoFeasible(s)
      /\ FifoByInstant(s)
      /\ BuysAtDistinctTimes(s) => FifoBook(s)

(***************************************************************************)
(* The position of a scope, kept up to date by averaging on a buy, from    *)
(* the lots on a sell and by replay otherwise, always agrees with the open *)
(* lots: no open position without open shares, and otherwise exactly one,  *)
(* with their quantity and their cost.                                     *)
(***************************************************************************)
SharesIn(rows) == SumFunction([l \in rows |-> l.rem])

CostIn(rows) == SumFunction([l \in rows |-> l.rem * l.unit])

PositionFits(held, rows) ==
  IF SharesIn(rows) = 0
    THEN held = {}
    ELSE \E p \in held :
           /\ held = {p}
           /\ p.qty = SharesIn(rows)
           /\ p.cost = CostIn(rows)

PositionMatchesOpenLots ==
  \A s \in Scopes : PositionFits(OpenPositions(s), OpenLots(s))

(***************************************************************************)
(* Every lot comes from a live buy of its scope and every match from a     *)
(* live sell of its scope and a lot that exists: soft and hard deletes,    *)
(* moves to another scope and the cascades leave nothing behind, and every *)
(* live sell is matched in full.                                           *)
(***************************************************************************)
SoldOf(rows) == SumFunction([m \in rows |-> m.qty])

LedgerRowsResolve ==
  /\ \A l \in lots : l.src \in LiveTrades(tx, l.scope) /\ tx[l.src].type = "buy"
  /\ \A m \in matches :
       /\ m.sell \in LiveSells(tx, m.scope)
       /\ \E l \in lots : l.scope = m.scope /\ l.src = m.src
  /\ \A s \in Scopes : \A t \in LiveSells(tx, s) :
       SoldOf(MatchesOf(t, matches)) = tx[t].qty

(***************************************************************************)
(* What the two need to be inductive: rows keep the business rules, there  *)
(* are finitely many of them, a lot is found by its scope and its buy, and *)
(* the splits can be applied.                                              *)
(***************************************************************************)
TableFits(table) ==
  /\ table \in [TxIds -> TxRow \cup {NoTx}]
  /\ IsFiniteSet({t \in TxIds : table[t] # NoTx})
  /\ \A t \in TxIds : table[t] # NoTx => ValidRow(table[t], NoAsset)

LotRows ==
  [scope : Scopes, src : TxIds, orig : Nat, rem : Nat, unit : Nat,
   openedAt : Nat]

LotsFit ==
  /\ lots \subseteq LotRows
  /\ IsFiniteSet(lots)
  /\ \A l, k \in lots : l.scope = k.scope /\ l.src = k.src => l = k

SplitsFit == AreSplits(splits)

BookInv ==
  /\ TableFits(tx) /\ LotsFit /\ SplitsFit
  /\ LedgerRowsResolve /\ PositionMatchesOpenLots

-----------------------------------------------------------------------------
EntriesOf(t) == {e \in gl : e.ref = t}

(***************************************************************************)
(* The journal mirrors the live transactions: each has exactly one entry   *)
(* that is not archived, and it is the one that posting the transaction    *)
(* now would write, so a sell is posted at the cost of its current FIFO    *)
(* matches even when another transaction changed them (README.md:          *)
(* create/update/delete keeps GL entries in sync).                         *)
(***************************************************************************)
LiveEntriesCurrent ==
  \A t \in TxIds : Live(t) => EntriesOf(t) = {PostedEntry(t, tx, matches)}

(***************************************************************************)
(* Where an administrator may move a transaction to an account of another  *)
(* user (AdminSpec), the former owner keeps an entry that no posting finds *)
(* again (posting.service.ts:33).  The user whose account it is in still   *)
(* has exactly one, at the cost of its current matches: moves there and    *)
(* back, and replays of either account, repair or keep it.                 *)
(***************************************************************************)
OwnersEntryCurrent ==
  \A t \in TxIds : Live(t) =>
    {e \in EntriesOf(t) : e.user = Owner[tx[t].account]} = {PostedEntry(t, tx, matches)}

(***************************************************************************)
(* What LiveEntriesCurrent needs to be inductive: the matches of a sell    *)
(* lie in the scope of the sell, so that replaying other scopes leaves its *)
(* cost alone, and an entry that is not archived belongs to a stored       *)
(* transaction and to the owner of its account, so that archiving by user  *)
(* and transaction finds it.                                               *)
(***************************************************************************)
MatchesInScope ==
  \A m \in matches : Exists(m.sell) /\ m.scope \in ScopesOf(tx[m.sell])

EntriesOwned ==
  \A e \in gl : Exists(e.ref) /\ e.user = Owner[tx[e.ref].account]

JournalInv ==
  TypeOK /\ MatchesInScope /\ EntriesOwned /\ LiveEntriesCurrent

(***************************************************************************)
(* The investment bucket of the journal, over the entries of live trades,  *)
(* carries exactly the cost of the lots still open: what buys put in and   *)
(* sells took out at their historical cost.  Ties the journal to the lots. *)
(***************************************************************************)
LiveEntries == {e \in gl : Live(e.ref)}

InvestmentBucketMatchesOpenLots ==
  \A a \in Accounts :
    SumFunction([e \in {x \in LiveEntries : x.account = a} |-> e.lines["invest"]])
      = CostIn({l \in lots : l.scope[1] = a})

(***************************************************************************)
(* What it needs to be inductive, scope by scope: no split is recorded, so *)
(* that unit costs stay exact, and what the buys of the scope paid, less   *)
(* the cost of its sells, is the cost of its open lots.                    *)
(***************************************************************************)
\* What a live trade moves into the bucket.
InvestedBy(t) ==
  IF tx[t].type = "buy" THEN tx[t].amount ELSE -HistoricalCost(t, matches)

InvestedIn(s) == SumFunction([t \in LiveTrades(tx, s) |-> InvestedBy(t)])

CostInv ==
  /\ BookInv
  /\ splits = {}
  /\ \A t \in TxIds : Exists(t) => HasExactPrice(tx[t])
  /\ \A s \in Scopes :
       /\ \A t \in LiveSells(tx, s) : HistoricalCost(t, matches) \in Nat
       /\ InvestedIn(s) = CostIn(OpenLots(s))
=============================================================================
