--------------------------- MODULE BackfillHistory ---------------------------
(***************************************************************************)
(* MarketPrices with history variables that the code does not keep, to say *)
(* how many nights the backfill takes.  The scheduler starts a daily sync  *)
(* of each market on weekday evenings and a backfill every night           *)
(* (market-price.scheduler.ts:13); whether they start, end or fail is left *)
(* open here, and what counts is the nights on which both have run.        *)
(***************************************************************************)
EXTENDS MarketPricesProperties

VARIABLES
  closed,   \* the last day with a daily sync of the market after its close
  counted,  \* the backfills that began after such an evening
  nights    \* the days whose backfill ran to its end, since the last trade

historyVars == <<priceVars, closed, counted, nights>>

TradesChange(market) ==
  \E x \in MarketAssets(market) : firstBuy'[x] # firstBuy[x]

\* A sync of this mode and market ends well, on the day on which it began.
Completes(j, mode, market) ==
  /\ job[j].mode = mode /\ job[j].market = market
  /\ job[j].since \div 2 = Today
  /\ EndSync(j)

NoteDaily ==
  closed' = [market \in Markets |->
    IF \E j \in Jobs : /\ Completes(j, "daily", market)
                      /\ job[j].since = 2 * Today + 1
      THEN Today ELSE closed[market]]

NoteBackfill ==
  /\ counted' = {j \in Jobs :
       \E market \in Markets :
         \/ StartBackfill(j, market) /\ closed[market] = Today - 1
         \/ /\ j \in counted /\ job'[j].phase = "sync"
            /\ job[j].market = market /\ ~TradesChange(market)}
  /\ nights' = [market \in Markets |->
       IF TradesChange(market) THEN {}
       ELSE nights[market] \cup
              {d \in {Today} :
                 \E j \in counted : Completes(j, "backfill", market)}]

HistoryInit ==
  /\ PricesInit
  /\ closed = [market \in Markets |-> 0]
  /\ counted = {}
  /\ nights = [market \in Markets |-> {}]

HistorySpec ==
  HistoryInit /\ [][PricesNext /\ NoteDaily /\ NoteBackfill]_historyVars

-----------------------------------------------------------------------------
(***************************************************************************)
(* The backfill gets to every asset in so many nights, although it takes   *)
(* only so many in a run and always the first by symbol                    *)
(* (market-price.service.ts:226), and although its target moves every day: *)
(* after n nights that follow an evening with a daily sync, every asset    *)
(* that can be complete has its history from the first buy on, if the      *)
(* places that are left in n runs are enough for all of them.  A place is  *)
(* lost, every night, to each asset that can never be complete: it was     *)
(* bought on a day without a price, or had none on the day before one of   *)
(* the nights.                                                             *)
(***************************************************************************)
Stuck(held, some) ==
  {x \in held : \/ firstBuy[x] \notin TradingDays[x]
               \/ \E n \in some : n - 1 \notin TradingDays[x]}

HasItsPast(x) == \E d \in prices[x] : d <= firstBuy[x]

BackfillGetsThrough ==
  \A market \in Markets : \A some \in SUBSET nights[market] :
    LET held  == Elements(EverHeldAssets(market))
        stuck == Stuck(held, some) IN
    Cardinality(some) * (MaxAssetsPerRun - Cardinality(stuck))
        >= Cardinality(held \ stuck)
      => \A x \in held \ stuck : HasItsPast(x)
=============================================================================
