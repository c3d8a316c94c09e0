------------------------ MODULE ValuationProperties -------------------------
(***************************************************************************)
(* What the read side of the portfolio must tell of the investment book.   *)
(***************************************************************************)
EXTENDS Valuation, LedgerProperties

Users == {Owner[a] : a \in Accounts}

(***************************************************************************)
(* The trend of a user can be built: its own FIFO never sells more than it *)
(* has (portfolio-trend.service.ts:52: the daily holdings are rebuilt from *)
(* the transactions and the prices).                                       *)
(***************************************************************************)
TrendCanBeBuilt ==
  \A u \in Users : TrendTrades(u) # {} => TrendState(u, LastDay(u)).ok

(***************************************************************************)
(* Where no split is recorded, the trend, which replays raw transactions,  *)
(* ends with the holdings that the positions tell, however they were kept: *)
(* the same quantity of every asset, and in its last point the invested    *)
(* amount of the summary, unless lots of one instant may have been sold in *)
(* another order.                                                          *)
(***************************************************************************)
TrendAgreesWithHoldings ==
  \A u \in {v \in Users : TrendTrades(v) # {}} :
    LET scopes == AccountsOf(u) \X TrendAssets(u)
        st     == TrendState(u, LastDay(u)) IN
    (\A s \in scopes : NoSplitRecorded(s)) =>
      /\ st.ok
      /\ \A x \in TrendAssets(u) : TrendHolding(u, x, st).qty = Holding(u, x).qty
      /\ (\A s \in scopes : BuysAtDistinctTimes(s)) =>
           \E p \in TrendPoints(u) : p.day = LastDay(u) /\ p.invested = Invested(u)

(***************************************************************************)
(* The dashboard agrees with the book: what it shows as the return, from   *)
(* the journal, is what sells realized over their FIFO matches (as the MCP *)
(* tool tells it) and dividends, less fees and charges, and the cash of an *)
(* account is what its transactions moved.  Stated where no entry of a     *)
(* deleted transaction is left.                                            *)
(***************************************************************************)
CashMoved(t) ==
  IF tx[t].type \in {"sell", "deposit", "dividend"} THEN tx[t].amount ELSE -tx[t].amount

DashboardFitsTheBook ==
  (\A e \in gl : Live(e.ref)) =>
    /\ \A u \in Users :
         TotalReturn(u) =
           SumOver(OfType(u, {"sell"}), LAMBDA t : RealizedPnl(t) - tx[t].charges)
           + SumOver(OfType(u, {"dividend"}), LAMBDA t : tx[t].amount)
           - SumOver(OfType(u, {"fee"}), LAMBDA t : tx[t].amount)
    /\ \A a \in Accounts :
         CashBalance(a) = SumOver({t \in TxIds : Live(t) /\ tx[t].account = a}, CashMoved)

(***************************************************************************)
(* Whoever buys what the rebalance suggests reaches the target: a class    *)
(* that is below its target and has holdings gets exactly what makes it    *)
(* that part of the new total (portfolio-rebalance.service.ts:141, :157).  *)
(***************************************************************************)
RebalanceReachesTarget ==
  \A u \in Users : \A equity \in 0..10 : \A class \in {"equity", "bond"} :
    LET target == Targets(equity)[class]
        value  == AllocatedTo(u, class)
        buys   == Suggestions(u, class, target)
        den    == (10 - target) * value
        bought == SumOver(buys, LAMBDA b : (b.amount[1] * den) \div b.amount[2]) IN
    buys # {} => 10 * (value * den + bought) = target * (Tracked(u) * den + bought)

(***************************************************************************)
(* The position that the MCP tool shows is the open one when there is one, *)
(* although it also looks at closed ones (portfolio-query.service.ts:26).  *)
(***************************************************************************)
OpenPositionIsShown ==
  \A s \in Scopes : OpenPositions(s) # {} => ShownPositions(s) = OpenPositions(s)
=============================================================================
