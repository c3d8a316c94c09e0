----------------------------- MODULE Valuation ------------------------------
(***************************************************************************)
(* What is read from the investment book: the holdings with their market   *)
(* value, the trend, which replays the raw transactions with a FIFO of its *)
(* own, the rebalance, the dashboard totals, and the position and sell     *)
(* details of the MCP tools.  These operators read Ledger's state and      *)
(* change nothing.                                                         *)
(*                                                                         *)
(* The price of a trade is what its amount says, and a rate to the display *)
(* currency does not change with the day.                                  *)
(***************************************************************************)
EXTENDS Ledger

CONSTANTS
  StoredPrices,  \* Price rows: [asset, day, price], one for an asset and day
  TicksPerDay,   \* how many times make a day
  Class,         \* the asset class of an asset
  AssetRate,     \* the rate of the base currency of an asset
  AccountRate    \* the rate of the currency of an account

ASSUME DaysHaveTicks == TicksPerDay \in Nat \ {0}

ASSUME PricesAreNumbers ==
  IsFiniteSet(StoredPrices) /\ \A p \in StoredPrices : p.day \in Nat /\ p.price \in Int

ASSUME RatesAreNumbers ==
  AssetRate \in [Assets -> Int] /\ AccountRate \in [Accounts -> Int]

DayOf(time) == time \div TicksPerDay

AccountsOf(u) == {a \in Accounts : Owner[a] = u}

SumOver(S, value(_)) == SumFunction([x \in S |-> value(x)])

-----------------------------------------------------------------------------
(***************************************************************************)
(* PortfolioHoldingsSnapshotService: the open positions by asset, at the   *)
(* latest stored price or, without one, at cost.                           *)
(***************************************************************************)
HeldPositions(u) ==
  {p \in positions : Owner[p.scope[1]] = u /\ p.open /\ p.qty > 0}

PricesOf(x) == {p \in StoredPrices : p.asset = x}

\* 0 when there is none.
LatestPrice(x) ==
  IF PricesOf(x) = {} THEN 0
  ELSE (CHOOSE p \in PricesOf(x) : \A q \in PricesOf(x) : q.day <= p.day).price

MarketValue(x, qty, invested, price) ==
  IF price = 0 THEN invested ELSE qty * price * AssetRate[x]

Holding(u, x) ==
  LET of       == {p \in HeldPositions(u) : p.scope[2] = x}
      qty      == SumOver(of, LAMBDA p : p.qty)
      invested == SumOver(of, LAMBDA p : p.cost * AccountRate[p.scope[1]]) IN
  [asset |-> x, qty |-> qty, invested |-> invested,
   market |-> MarketValue(x, qty, invested, LatestPrice(x))]

Holdings(u) == {Holding(u, x) : x \in {p.scope[2] : p \in HeldPositions(u)}}

\* getSummary
Invested(u) == SumOver(Holdings(u), LAMBDA h : h.invested)

\* getHoldings: the market value by asset class.
AllocatedTo(u, class) ==
  SumOver({h \in Holdings(u) : Class[h.asset] = class}, LAMBDA h : h.market)

-----------------------------------------------------------------------------
(***************************************************************************)
(* PortfolioTrendService: the live trades of the user and the stored       *)
(* prices of their assets, day after day, the trades of a day first.       *)
(***************************************************************************)
TradePrice(row) ==
  (row.amount + (IF row.type = "sell" THEN row.charges ELSE 0)) \div row.qty

\* Mutant: soft-deleted trades are replayed too.
TrendTradesEver(u) ==
  UNION {ScopedIds(tx, s) : s \in AccountsOf(u) \X Assets}

TrendTrades(u) ==
  UNION {LiveTrades(tx, s) : s \in AccountsOf(u) \X Assets}

TrendAssets(u) == {tx[t].asset : t \in TrendTrades(u)}

TrendEvents(u) ==
  {[kind |-> "transaction", day |-> DayOf(tx[t].time), time |-> tx[t].time, id |-> t] :
     t \in TrendTrades(u)}
  \cup
  {[kind |-> "price", day |-> p.day, asset |-> p.asset, price |-> p.price] :
     p \in {q \in StoredPrices : q.asset \in TrendAssets(u)}}

\* The order of buildTimelineEvents; prices of different assets of a day
\* commute, and the order of their assets is any.
TrendBefore(e, f) ==
  \/ e.day < f.day
  \/ /\ e.day = f.day
     /\ \/ e.kind = "transaction" /\ f.kind = "price"
        \/ /\ e.kind = "transaction" /\ f.kind = "transaction"
           /\ \/ e.time < f.time
              \/ e.time = f.time /\ e.id < f.id

TrendTimelines(u) ==
  {line \in SetToSeqs(TrendEvents(u)) :
     \A i, j \in DOMAIN line : i < j => ~TrendBefore(line[j], line[i])}

TrendStart ==
  [lots |-> [s \in Scopes |-> <<>>], price |-> [x \in Assets |-> 0], ok |-> TRUE]

\* applyTransactionEvent.  A sell that exceeds the open lots throws.
ApplyTrade(st, t) ==
  LET row      == tx[t]
      s        == <<row.account, row.asset>>
      consumed == Consume(st.lots[s], row.qty)
      priced   == [st EXCEPT !.price[row.asset] =
                     IF TradePrice(row) > 0 THEN TradePrice(row) ELSE @] IN
  IF row.type = "buy"
    THEN [priced EXCEPT !.lots[s] =
            Append(@, [src |-> t, rem |-> row.qty, unit |-> row.amount \div row.qty])]
    ELSE [priced EXCEPT !.lots[s] = consumed.lots,
                        !.ok = @ /\ consumed.toSell = 0]

ApplyTrendEvent(st, e) ==
  IF e.kind = "price" THEN [st EXCEPT !.price[e.asset] = e.price]
                      ELSE ApplyTrade(st, e.id)

\* The state of the trend at the end of a day.
TrendState(u, day) ==
  LET line == CHOOSE l \in TrendTimelines(u) : TRUE IN
  FoldLeft(ApplyTrendEvent, TrendStart, SelectSeq(line, LAMBDA e : e.day <= day))

\* snapshotAsset
TrendHolding(u, x, st) ==
  LET lotsIn(a) == st.lots[<<a, x>>]
      qty       == SumOver(AccountsOf(u), LAMBDA a : SumOpenQuantity(lotsIn(a)))
      invested  == SumOver(AccountsOf(u),
                           LAMBDA a : SumOpenCost(lotsIn(a)) * AccountRate[a]) IN
  [asset |-> x, qty |-> qty, invested |-> invested,
   market |-> MarketValue(x, qty, invested, st.price[x])]

\* snapshotPortfolio: a point of the trend.
TrendPoint(u, day) ==
  LET st    == TrendState(u, day)
      parts == {TrendHolding(u, x, st) : x \in TrendAssets(u)} IN
  [day |-> day, invested |-> SumOver(parts, LAMBDA h : h.invested),
   market |-> SumOver(parts, LAMBDA h : h.market)]

TrendDays(u) == {e.day : e \in TrendEvents(u)}

\* The points, without those before the first that is worth something
\* (trimLeadingZeroPoints).
TrendPoints(u) ==
  LET points == {TrendPoint(u, d) : d \in TrendDays(u)}
      worth  == {p.day : p \in {q \in points : q.invested > 0 \/ q.market > 0}} IN
  IF worth = {} THEN points ELSE {p \in points : p.day >= Min(worth)}

LastDay(u) == Max(TrendDays(u))

-----------------------------------------------------------------------------
(***************************************************************************)
(* PortfolioRebalanceService, with a target for equity in tenths and the   *)
(* rest for bonds.  An amount is a fraction, a pair of numbers.            *)
(***************************************************************************)
\* Mutant: the gap, without what the purchase itself adds to the total.
RecommendedBuyOfGap(target, value, total) ==
  IF total = 0 \/ value * 10 >= target * total \/ target >= 10 THEN <<0, 1>>
  ELSE <<target * total - 10 * value, 10>>

\* calculateRecommendedBuyAmount
RecommendedBuy(target, value, total) ==
  IF total = 0 \/ value * 10 >= target * total \/ target >= 10 THEN <<0, 1>>
  ELSE <<target * total - 10 * value, 10 - target>>

Targets(equity) == [equity |-> equity, bond |-> 10 - equity]

Tracked(u) == AllocatedTo(u, "equity") + AllocatedTo(u, "bond")

\* buildResponse: what to buy of a class, of the value that is tracked.
RecommendedBuyOf(u, class, target) ==
  RecommendedBuy(target, AllocatedTo(u, class), Tracked(u))

\* buildSuggestions: the amount is spread over the holdings of the class by
\* their value; the fraction for each holding.
Suggestions(u, class, target) ==
  LET buy   == RecommendedBuyOf(u, class, target)
      value == AllocatedTo(u, class) IN
  {[asset |-> h.asset, amount |-> <<buy[1] * h.market, buy[2] * value>>] :
     h \in {g \in Holdings(u) : buy[1] > 0 /\ value > 0 /\ Class[g.asset] = class}}

-----------------------------------------------------------------------------
(***************************************************************************)
(* DashboardService.getSummary, of broker accounts: what the journal has   *)
(* on their cash and in the investment bucket, less what the user put in.  *)
(***************************************************************************)
TotalInvestmentAssets(u) ==
  SumOver({e \in gl : e.user = u}, LAMBDA e : e.lines["cash"] + e.lines["invest"])

OfType(u, types) ==
  {t \in TxIds : Live(t) /\ tx[t].type \in types /\ Owner[tx[t].account] = u}

NetContribution(u) ==
  SumOver(OfType(u, {"deposit"}), LAMBDA t : tx[t].amount)
    - SumOver(OfType(u, {"withdraw"}), LAMBDA t : tx[t].amount)

TotalReturn(u) == TotalInvestmentAssets(u) - NetContribution(u)

\* getActivity: the balance of the cash GL account of an account.
CashBalance(a) == SumOver({e \in gl : e.account = a}, LAMBDA e : e.lines["cash"])

-----------------------------------------------------------------------------
(***************************************************************************)
(* PortfolioQueryService, what the MCP tools show.                         *)
(***************************************************************************)
\* Mutant: the position that was opened first.
ShownPositionsOldest(s) ==
  {p \in positions : p.scope = s /\ \A q \in positions :
                       q.scope = s => q.openedAt >= p.openedAt}

\* The position of getPositionDetail is the latest opened one, closed or not.
ShownPositions(s) ==
  {p \in positions : p.scope = s /\ \A q \in positions :
                       q.scope = s => q.openedAt <= p.openedAt}

\* summary of getSellFifoDetail.
RealizedPnl(t) == tx[t].amount + tx[t].charges - HistoricalCost(t, matches)
=============================================================================
