----------------------- MODULE MarketPricesProperties -----------------------
(***************************************************************************)
(* What the price syncs owe to the charts and valuations that read Price.  *)
(***************************************************************************)
EXTENDS MarketPrices

(***************************************************************************)
(* A refresh that answers "success" has stored, for every asset it has     *)
(* resolved, every row of its window that was published when it began,     *)
(* whatever other syncs did; one that answers "failed" has completed       *)
(* neither market (market-price.service.ts:141, README: TW and US fail     *)
(* apart from each other).                                                 *)
(***************************************************************************)
Due(j, x) ==
  {d \in TradingDays[x] : job[j].start[x] <= d /\ 2 * d + 1 <= job[j].since}

RefreshStatusTruthful ==
  \A j \in Jobs :
    job[j].phase = "done" =>
      CASE OverallStatus(job[j].ended) = "success" ->
             \A x \in job[j].assets : Due(j, x) \subseteq prices[x]
        [] OverallStatus(job[j].ended) = "failed" ->
             faults >= 2
        [] OTHER -> \E i \in {1, 2} : \A x \in job[j].assets :
             x \in MarketAssets(IF i = 1 THEN "tw" ELSE "us")
               => Due(j, x) \subseteq prices[x]
=============================================================================
