---------------------------- MODULE MarketPrices ----------------------------
(***************************************************************************)
(* Daily prices: MarketPriceService, its scheduler and the manual refresh. *)
(* A sync resolves the assets that were ever traded, fetches one after the *)
(* other from the provider of their market and upserts what it answers.    *)
(* It keeps nothing but the price rows, and several syncs may run at once. *)
(*                                                                         *)
(* A price row is its day: what the row says is the provider's affair.     *)
(* The clock counts half days: 2 * d is the night before day d, when the   *)
(* backfill runs, and 2 * d + 1 the evening of day d, after the close,     *)
(* when the daily sync runs.  Both markets have one calendar.              *)
(***************************************************************************)
EXTENDS Ordering, Sequences

CONSTANTS
  Assets,             \* numbers, in the order of their symbols
  UsAssets,           \* those with base currency USD; the others have TWD
  TradingDays,        \* the days for which the provider has a row, by asset
  BuyDays,            \* the days on which users may buy, by asset
  None,
  Jobs,               \* syncs that may run at the same time
  DailyLookback,      \* TW_DAILY_LOOKBACK_DAYS
  RefreshLookback,    \* MANUAL_REFRESH_LOOKBACK_DAYS
  MaxAssetsPerRun,    \* BACKFILL_MAX_ASSETS_PER_RUN
  LastDay,            \* bound on the clock
  MaxFaults           \* bound on provider failures and on crashes

ASSUME AssetsAreNumbers ==
  Assets \subseteq Nat /\ IsFiniteSet(Assets) /\ UsAssets \subseteq Assets
ASSUME DaysAreNumbers == \A x \in Assets : TradingDays[x] \subseteq Nat
ASSUME SomeAssetsPerRun == MaxAssetsPerRun \in Nat \ {0}

VARIABLES
  clock,
  firstBuy,      \* the day of the first live buy of an asset, or None
  prices,        \* the days with a Price row, by asset
  job,           \* the progress of each sync
  faults

priceVars == <<clock, firstBuy, prices, job, faults>>

Markets == {"tw", "us"}

MarketAssets(market) == IF market = "us" THEN UsAssets ELSE Assets \ UsAssets

Today == clock \div 2

\* The rows that the provider has now: a day has its row after its close.
Published(x) == {d \in TradingDays[x] : 2 * d + 1 <= clock}

-----------------------------------------------------------------------------
(***************************************************************************)
(* A sync of one market has a window and, asset by asset, a start of its   *)
(* own.  A refresh syncs both markets, tw first, and notes how each ended. *)
(***************************************************************************)
Idle ==
  [phase |-> "idle", mode |-> None, market |-> None, since |-> 0,
   todo |-> <<>>, assets |-> {}, start |-> [x \in Assets |-> 0],
   ended |-> <<>>]

\* resolveEverHeldAssets, by symbol.
EverHeldAssets(market) ==
  InOrder({x \in MarketAssets(market) : firstBuy[x] # None},
          LAMBDA x, y : x < y)

\* A window of so many days that ends with the day of a clock reading.
WindowStart(days, at) == [x \in Assets |-> (at \div 2) - days + 1]

Elements(seq) == {seq[i] : i \in DOMAIN seq}

Begin(j, mode, market, todo, start) ==
  /\ job[j].phase = "idle"
  /\ job' = [job EXCEPT ![j] =
       [phase |-> "sync", mode |-> mode, market |-> market, since |-> clock,
        todo |-> todo, assets |-> Elements(todo), start |-> start,
        ended |-> <<>>]]
  /\ UNCHANGED <<clock, firstBuy, prices, faults>>

\* syncDaily of one market, scheduled or asked for by an administrator.
StartDaily(j, market) ==
  Begin(j, "daily", market, EverHeldAssets(market),
        WindowStart(DailyLookback, clock))

(***************************************************************************)
(* assessBackfillNeed looks at the first and the last row of an asset.     *)
(***************************************************************************)
NeedsBackfill(x) ==
  \/ prices[x] = {}
  \/ \A d \in prices[x] : firstBuy[x] < d     \* missing_prefix_history
  \/ \A d \in prices[x] : d < Today - 1       \* missing_recent_history

\* Mutant: the limit counts the assets that need nothing too.
BackfillCandidatesCutFirst(market) ==
  LET held == EverHeldAssets(market) IN
  SelectSeq(SubSeq(held, 1, IF Len(held) < MaxAssetsPerRun THEN Len(held)
                            ELSE MaxAssetsPerRun),
            NeedsBackfill)

\* The first maxAssetsPerRun assets that need it, by symbol.
BackfillCandidates(market) ==
  LET needy == SelectSeq(EverHeldAssets(market), NeedsBackfill) IN
  SubSeq(needy, 1, IF Len(needy) < MaxAssetsPerRun THEN Len(needy)
                   ELSE MaxAssetsPerRun)

StartBackfill(j, market) ==
  Begin(j, "backfill", market, BackfillCandidates(market),
        [x \in Assets |-> IF firstBuy[x] = None THEN 0 ELSE firstBuy[x]])

\* refreshPrices begins with the Taiwan market.
StartRefresh(j) ==
  Begin(j, "refresh", "tw", EverHeldAssets("tw"),
        WindowStart(RefreshLookback, clock))

-----------------------------------------------------------------------------
(***************************************************************************)
(* fetchAndUpsertRange for the next asset.  The end of the window is the   *)
(* day on which the sync began.                                            *)
(***************************************************************************)
Answer(j, x) ==
  {d \in Published(x) : job[j].start[x] <= d /\ d <= job[j].since \div 2}

FetchNext(j) ==
  /\ job[j].phase = "sync"
  /\ job[j].todo # <<>>
  /\ LET x == Head(job[j].todo) IN
       prices' = [prices EXCEPT ![x] = @ \cup Answer(j, x)]
  /\ job' = [job EXCEPT ![j].todo = Tail(@)]
  /\ UNCHANGED <<clock, firstBuy, faults>>

\* The rows are upserted one by one, the oldest first, so that a sync that
\* ends there has written some first part of them.
WriteSome(j) ==
  \E last \in 0..LastDay :
    prices' = IF job[j].todo = <<>> THEN prices
              ELSE LET x == Head(job[j].todo) IN
                   [prices EXCEPT ![x] = @ \cup {d \in Answer(j, x) : d <= last}]

\* The process ends.
Interrupt(j) ==
  /\ faults < MaxFaults
  /\ job[j].phase = "sync"
  /\ WriteSome(j)
  /\ job' = [job EXCEPT ![j] = Idle]
  /\ faults' = faults + 1
  /\ UNCHANGED <<clock, firstBuy>>

(***************************************************************************)
(* The end of a market: a refresh goes on with the other market, whether   *)
(* the first one succeeded or failed, and then answers.                    *)
(***************************************************************************)
EndMarket(j, outcome) ==
  LET ended == Append(job[j].ended, outcome)
      held  == EverHeldAssets("us") IN
  job' = [job EXCEPT ![j] =
    IF @.mode # "refresh" THEN Idle
    ELSE IF @.market = "tw"
      THEN [@ EXCEPT !.market = "us", !.todo = held, !.ended = ended,
                     !.assets = job[j].assets \cup Elements(held)]
      ELSE [@ EXCEPT !.phase = "done", !.todo = <<>>, !.ended = ended]]

EndSync(j) ==
  /\ job[j].phase = "sync"
  /\ job[j].todo = <<>>
  /\ EndMarket(j, "success")
  /\ UNCHANGED <<clock, firstBuy, prices, faults>>

\* Mutant: an asset whose fetch fails is passed over.
FetchFailsAlone(j) ==
  /\ faults < MaxFaults
  /\ job[j].phase = "sync"
  /\ job[j].todo # <<>>
  /\ job' = [job EXCEPT ![j].todo = Tail(@)]
  /\ faults' = faults + 1
  /\ UNCHANGED <<clock, firstBuy, prices>>

\* The provider fails, or an upsert: the market is given up where it stands.
FetchFails(j) ==
  /\ faults < MaxFaults
  /\ job[j].phase = "sync"
  /\ job[j].todo # <<>>
  /\ WriteSome(j)
  /\ EndMarket(j, "failed")
  /\ faults' = faults + 1
  /\ UNCHANGED <<clock, firstBuy>>

\* resolveRefreshOverallStatus
OverallStatus(ended) ==
  IF \A i \in DOMAIN ended : ended[i] = "success" THEN "success"
  ELSE IF \A i \in DOMAIN ended : ended[i] = "failed" THEN "failed"
  ELSE "partial_success"

AnswerRefresh(j) ==
  /\ job[j].phase = "done"
  /\ job' = [job EXCEPT ![j] = Idle]
  /\ UNCHANGED <<clock, firstBuy, prices, faults>>

-----------------------------------------------------------------------------
\* Users buy, possibly backdated, and change or delete buys: the first live
\* buy of an asset becomes another one, or there is none.
ChangeFirstBuy(x, d) ==
  /\ d # firstBuy[x]
  /\ d # None => d <= Today
  /\ firstBuy' = [firstBuy EXCEPT ![x] = d]
  /\ UNCHANGED <<clock, prices, job, faults>>

Tick ==
  /\ clock < 2 * LastDay + 1
  /\ clock' = clock + 1
  /\ UNCHANGED <<firstBuy, prices, job, faults>>

PricesInit ==
  /\ clock = 2
  /\ firstBuy = [x \in Assets |-> None]
  /\ prices = [x \in Assets |-> {}]
  /\ job = [j \in Jobs |-> Idle]
  /\ faults = 0

SyncStep(j) == FetchNext(j) \/ EndSync(j) \/ AnswerRefresh(j)

PricesNext ==
  \/ \E j \in Jobs :
       \/ \E market \in Markets : StartDaily(j, market) \/ StartBackfill(j, market)
       \/ StartRefresh(j)
       \/ SyncStep(j)
       \/ FetchFails(j)
       \/ Interrupt(j)
  \/ \E x \in Assets : \E d \in BuyDays[x] \cup {None} : ChangeFirstBuy(x, d)
  \/ Tick

PricesSpec == PricesInit /\ [][PricesNext]_priceVars
=============================================================================
