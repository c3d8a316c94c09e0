# Trackvest API: verification project

TLA+ models of the investment book of `trackvest-api` and of what surrounds it,
the TLC runs that check them on small instances, and proofs checked by TLAPS
for every instance. Paths are relative to the repository root unless they start
at `src/`; `file.ts:line` is under `src/src/` of this checkout.

## 1. Inventory

| component | state | operations | what is hard | module |
|---|---|---|---|---|
| Transactions (`src/transactions/transactions.service.ts`, orchestrator, rebuild policy, validator) | `Transaction`, `Position`, `PositionLot`, `SellLotMatch` | create, update, soft delete, hard delete | incremental bookkeeping and full replay must give the same book in any order of operations; two creates at once | `Ledger`, `ConcurrentTrades` |
| Position replay (`src/corporate-actions/position-replay.*`) | none: a pure function, and the rows it replaces | `replayScopeLedger`, `rebuildScope` | order of events at one instant, rounding of Taiwan shares, infeasible histories | `FifoReplay`, `Ledger` |
| GL posting (`src/gl/posting.service.ts`) | `GlEntry`, `GlLine` | `postTransaction`, `archiveTransactionEntries`, manual entries | the cost of a sell changes when another trade changes; entries must follow | `GlPosting`, `Ledger`, `Accounts` |
| Split sync (`src/corporate-actions/corp-action.service.ts`, scheduler) | `CorporateAction`, `CorporateActionApplication` | scheduled and manual `syncSplits` | a chain of small database transactions: partial failure, restart, users in between | `CorpActionSync` |
| GL accounts, default chart (`src/gl/services`, `src/gl/default-chart`) | `GlAccount` | provisioning, lookup by purpose | a missing purpose, a linked account that changes hands | `Accounts` |
| Ownership, accounts (`src/common/services`, `src/accounts`) | `Account` | create, update, remove, checks | admin bypass; entries that survive an account | `Accounts` |
| Import (`src/transactions/*import*`) | no state of its own; writes transactions | preview, commit | preview and commit use different orders; the book may change in between; all or nothing | `ImportPlanner`, `ImportCommit` |
| Sessions (`src/auth`) | `RefreshToken`, the cookies | login, refresh, logout, revoke all | check and update are not one step; answers get lost | `Sessions` |
| Onboarding, users (`src/onboarding`, `src/users`) | `User` | sign-up, create | one transaction over several tables | `Accounts` |
| FX rates (`src/fx`) | `FxRate` | read-through cache | delete and create without transaction or key | `FxRates` |
| Market prices (`src/market-price`) | `Price` | daily sync, backfill, refresh | provider failures, starvation by the per-run maximum | `MarketPrices` |
| Assets, aliases, catalog (`src/assets`) | `Asset`, `AssetAlias` | create, update, remove, alias, catalog bootstrap | retry on a unique violation, a dry run that predicts the upsert | `AssetCatalog` |
| Portfolio, dashboard, MCP | none | reads | several computations of one figure | `Valuation` |
| Deployment, seed, scripts | none | guards and wrappers | – | – |

How they interact: `TransactionsService` runs each operation in one database
transaction and calls, inside it, the rebuild policy (what has to be done), the
orchestrator (positions, lots, matches), the replay service and the posting
service. The import calls `createInTransaction` for each row inside one
transaction of its own. The split sync calls the replay and posting services
directly, one database transaction for each scope. A *scope* is an (account,
asset) pair: lots, matches and positions belong to one scope, and the journal
ties all scopes of an account together. Portfolio, dashboard and MCP read the
tables that the ledger keeps, with the rows of `Price` and `FxRate`. The
catalog names the assets that the import resolves.

What makes the components correct:

* the lots and matches of a scope are those of a first-in-first-out book over
  its live trades, however they were entered, changed and deleted;
* the position of a scope is the sum of its open lots;
* the journal has, for every live transaction, exactly one entry, at the cost
  of the current matches, and it balances;
* a split that is recorded and applied is in the book, and one that is reported
  gets there in the end;
* a commit of a broker file writes every row that is ready and missing, or
  nothing, and a sell of the file is not funded by a buy of its day;
* a login has one good refresh token at a time, and a session that has ended
  stays ended;
* what is read (holdings, trend, dashboard, rebalance) agrees with the book;
* a stored exchange rate does not get lost, and an answer is of the day asked for;
* a refresh of prices reports what it did, and the backfill gets to every asset;
* accounts, GL accounts and entries refer to rows that are there and belong to
  one user; every alias keeps its asset and a dry run tells the truth.

`PROJECT.json` lists every hazard with the property that covers it, or the
reason why none does.

## 2. Modules

| module | what it is |
|---|---|
| `FifoReplay` | the pure replay of one scope: timeline, splits with rounding, buys, FIFO sells |
| `GlPosting` | the pure mapping of a transaction to journal lines, and the business rules |
| `Ledger`, `LedgerProperties` | the book: six tables as variables, one action for each path of create, update, soft and hard delete; the operations of owners (`Spec`) and of administrators (`AdminSpec`); the abstract FIFO book and the properties |
| `LedgerProofs` | theorems about the replay and about `Ledger`: journal, rows, lots and positions |
| `ConcurrentTrades` | extends `Ledger`: a create split into what it reads and what it writes |
| `CorpActionSync`, `CorpActionSyncProperties` | extends `Ledger`: the provider, the progress of each sync, failures, and users who edit between the steps |
| `CorpActionSyncHistory` | extends `CorpActionSyncProperties` with a history variable: the scopes that wait for a sync |
| `Ordering` | one helper: the sequence of a set in a given order |
| `ImportPlanner` | the pure sell-readiness planner: which rows of a file may be written, in which order, and why the others may not |
| `ImportCommit`, `ImportCommitProperties` | extends `Ledger` and `ImportPlanner`: evaluation, planning and the batch of each commit, rollback, and users who edit in between |
| `AtomicImport` | the abstract specification: an import is one step. `ImportCommitProperties` instantiates it with the refinement mapping |
| `ImportCommitProofs` | the theorems about the book for the composed system, what the queue of a plan holds, and that the commit implements `AtomicImport` |
| `Valuation`, `ValuationProperties` | the read side as operators over the state of `Ledger` |
| `SyncAndValuationProofs` | what is built on `Ledger`: the theorems about the book under `CorpActionSync` and that recorded splits stay, and those about `Valuation`: the shown position, the dashboard and the rebalance |
| `Accounts`, `AccountsProofs` | users, accounts, GL accounts and the journal by owner and currency; theorems |
| `Sessions`, `SessionsProperties`, `SessionsProofs` | refresh tokens, cookies and overlapping requests; theorems |
| `MarketPrices`, `MarketPricesProperties`, `MarketPricesProofs` | daily prices, their syncs and providers; the theorem about refreshes |
| `BackfillHistory` | extends `MarketPricesProperties` with history variables: the nights on which a backfill ran |
| `FxRates`, `FxRatesProofs` | exchange rates and theorems about them |
| `AssetCatalog`, `AssetCatalogProofs` | assets, aliases and the bootstrap of the catalog; theorems, and lemmas about folds |
| `MC*` | values of the constants for TLC; `MCImportPlanner` also holds the reference definition of the planner |

`Ledger` is composed with the sync, the import, concurrent creates and the read
side by extension: they add variables and steps around its actions. The other
modules share no state with it: prices and rates enter `Valuation` as constants,
and `Accounts` models *where* postings go, while `GlPosting` and `Ledger` model
*what* is posted.

A name that ends differently from the code's, next to a definition with the
code's name, is a variant with a defect (`ReplayDeletedToo`, `LinkedGlCreatedOnly`):
it is used by no specification, and shows that the properties notice it.

### State and actions of `Ledger`

`tx` is the `Transaction` table: a function from identifiers to a row or
`NoTx`; a row that is soft-deleted keeps its place with `deleted = TRUE`.
`lots`, `matches`, `positions` and `splits` are sets of rows; `gl` is the set of
entries that are not archived (archived entries are never read again). Lots and
matches have no identity in the code beyond an uuid; here a lot is identified by
its scope and its source transaction.

* Times are numbers. Identifiers are numbers, because a replay orders trades at
  the same instant by identifier; which identifier a new row gets is open, as
  with the random uuids of the code.
* Quantities and money are integers, and the inputs are chosen so that every
  unit cost divides exactly. The `1e-9` tolerances of the code are therefore
  comparisons with zero. Rounding of Taiwan shares is kept. Rounding errors of
  floating-point arithmetic are not modelled.
* `avgCost` is kept as total cost (`quantity * avgCost`), so averaging is exact.
* The lines of an entry are signed amounts by role of GL account; `fee + tax` is
  one number.
* One operation of the service is one action: the code runs it in one database
  transaction. Operations that run at the same time are not interleaved here
  but in `ConcurrentTrades`.
* A failing operation rolls back, so it is an action that is not enabled:
  a sell of more than the open lots, an infeasible replay, a sell without
  matches, a change into or out of sell.

`Create` has four paths, as `applyCreateSideEffects` has: a movement without
scope, an incremental buy, an incremental sell, and a replay. `RebuildScopes(S)`
is `rebuildScope` for every scope of `S`, including the matches that cascade.
`PostTransactions` is archive-then-create for a set of transactions.

`Update` moves a transaction to any account, as the code does for whoever passes
the ownership check. An owner passes it for their own accounts only
(`UpdateOwn`, in `Next`); an administrator for all (`AdminNext`). The modules
that extend `Ledger` use `UpdateOwn`.

### `ConcurrentTrades`

`job[t]` is a create that has read its scope and not yet committed: the row, and
the open position and open lots as it found them. `ReadForBuy` and `ReadForSell`
read what is committed, `CommitBuy` and `CommitSell` write the values computed
from what was read (`remainingQuantity`, `quantity` and `avgCost` are absolute
in the code), and a job may fail in between. This is read committed, the default
of the database, with no row lock between the read and the write. Only creates
that are booked incrementally are split.

### State and actions of `CorpActionSync`

`reported` is what the provider answers (external, as seen by
`fetchSplitEvents`); an event may get another ratio later. `sync[y]` is the
progress of sync `y`: assets left to fetch, fetched events left to store, keys
stored in this run, scopes left to replay. A sync keeps nothing in the database
between its steps but the `CorporateAction` and `CorporateActionApplication`
rows. `SyncFails` is a fetch or database error or a crash anywhere;
`ReplayFails` is the error a replay throws. `EditBook` is any operation of an owner
in `Ledger`, trades dated before a recorded split among them. The assets of a sync are processed in any order (the code sorts them
by symbol), the scopes too (the query gives none).

`CorpActionSyncHistory` adds `waiting`: the scopes into which, since a sync
last replayed them, a user has entered a trade dated before a recorded split, or
for whose asset a sync has stored another ratio. These are the two ways in which
something comes that only a sync's replay brings into the book; no action reads
the variable.

### `ImportPlanner`, `ImportCommit` and `AtomicImport`

The planner works on the trades of one scope by calendar day, history before
file, sells before buys. It keeps lots; the model keeps the sum of the lots
opened before the day, which is all that a decision of the planner depends on
(the module's header gives the reason).

`request[q]` is one call of `commitImportTransactions`: it evaluates the rows
(`EvaluateRows`, `evaluateParsedImportRow` for every row), plans the sells
(`PlanSells`), opens the batch (`BeginBatch`), writes, skips or refuses one row
at a time (`WriteRow`, `SkipRow`, `RefuseRow`) and ends it (`FinishBatch`).
`saved` is what the open database transaction rolls back to, also when it is
aborted (`AbortBatch`: a database error, a timeout, a crash). A written row is
`Create` of `Ledger`, the action of the create endpoint, with the same choice
between incremental bookkeeping and replay. `orders` is the broker's order
number of each transaction; soft-deleted transactions keep theirs, so a row
whose transaction was soft-deleted counts as imported.

* `EditBook` and other commits come between the evaluation, the planning and
  the batch of a commit. Inside a batch nothing else touches the book, because
  database transactions are serial in `Ledger`.
* A preview is the evaluation without a commit and writes nothing, so it has no
  action of its own.
* What cannot be parsed or resolved is the `fault` of a row. A row of a file is
  at midnight of its day; a trade entered by hand has a time of day.
* The business rules that `createInTransaction` leaves to its caller are
  those the row validator has checked: the rows of `Files` satisfy them.
* The rows of the queue belong to any order of assets (the code sorts by
  identifier, which is random).

`AtomicImport` knows a book of lines (a row and its order number) and what each
request asks for. `Import(q)` adds, in one step, every line asked for that the
account does not have yet; `GiveUp(q)` adds nothing. The mapping: the book is
the transactions that are committed (those of `saved` while a batch is open),
and a request asks for its ready rows from the end of the planning to the end of
the batch. So `FinishBatch` has to be `Import`, and every failure `GiveUp`.

### State of `Valuation`

The module has no actions: it is a set of operators that read the tables of
`Ledger`, checked in every state a book can reach. `StoredPrices` are the rows
of `Price`, `AssetRate` and `AccountRate` what `FxRateService` answers;
`TicksPerDay` turns the time of a trade into its day. `TrendState` is the
replay of `PortfolioTrendService`, which has a FIFO of its own over the raw
transactions; `Holdings` reads the positions.

### State and actions of `Accounts`

`users`, `accounts`, `glAccounts` and `tx` are tables; `entries` the journal with
the GL account and currency of every line, `posted` the number of entries
created so far. `Signup` is the onboarding with its chart, `CreateUser` the bare
creation; accounts are created with their linked cash GL account, updated (the
owner and the currency may change, and the GL account follows), and removed with
their transactions. `PostManual` is a manual transfer, expense or income;
`RecordTransaction`, `UpdateTransaction` and `DeleteTransaction` are those of
`TransactionsService` as far as the journal of an owner is concerned. `caller`
is the user who sends the request: an administrator may act for others.

### State and actions of `Sessions`

`token` is the table `RefreshToken`, `jar` the cookies of each browser,
`request` what runs on the server. A refresh is a chain of statements:
`ReadToken`, then `RejectReused` or `RejectExpired` or `Swap` (the transaction
that revokes the old token and creates its successor), then the signing of the
access token, then the answer, which `Answer` delivers and `Lose` loses. `now` is
a clock; a request takes `RequestSpan` ticks at most. `ChangeRole` changes a
user's role while access tokens with the old one are out. `swappedFrom` and
`login`, in each token, are history that the code does not keep: which token a
token came from and which login it goes back to.

### State and actions of `MarketPrices`

`clock` counts half days, `firstBuy` says when an asset was first bought,
`prices[x]` the days that have a row, `job[j]` the progress of a sync: mode,
market, assets left, window. A job begins (`StartDaily`, `StartBackfill`,
`StartRefresh`), fetches one asset after the other and upserts its rows, or stops
in the middle of them, or fails; a refresh goes through both markets and answers
with a status. The pure selection of backfill candidates, cut to
`MaxAssetsPerRun` after its sort by symbol, is `BackfillCandidates`. A
provider that fails ends the market (`FetchFails`). `ChangeFirstBuy` is what
users do to the trades of an asset as far as prices see it: the first live buy
gets another day or goes away.

`BackfillHistory` adds what is needed to count: `closed`, the last evening on
which a daily sync of the market ran after its close; `counted`, the backfills
that began on the night after such an evening; and `nights`, the days on which
such a backfill came to its end. They start again when a trade changes what was
first bought. No action reads them.

### State and actions of `FxRates`

One pair of currencies. `rows[d]` counts the rows of the rate of day `d`: the
table has no unique key, so a day may have several. `request[r]` goes through
`Ask` (a stored rate answers), `Fetch` (the provider), `DeleteStored`,
`CreateStored` or `NotFound`; `RequestFails` ends it anywhere, also between the
delete and the create. `NextDay` moves the calendar between any two steps, and
a rate is published on the days `RateDays` only.

### State and actions of `AssetCatalog`

`assets` and `aliases` are tables (symbols are unique), `created` the number of
assets created so far, whose ids are taken in order, `request` the operations of
administrators split into check and write, so that a unique key may be hit:
`AliasRaced` is the violation that `createAlias` answers by reading again.
`Bootstrap` is a run of the catalog and `runs` counts them. `Collect` is what the
run takes from its three sources (of several records of a symbol the first),
`PlanCatalog` its dry run and `ApplyCatalog` the upsert, each with its counts.

## 3. Runs

| run | instance | what it shows |
|---|---|---|
| `ledger` | an account of one user with trades of 1 or 2 shares at 3 times, two of the buys at one instant, and an account of another user, between which an administrator moves trades; 4 identifiers | lots and matches are FIFO (`ChronologicalFifo`), the position agrees with the lots, rows resolve, and the user whom a live transaction belongs to has exactly one entry of it, at its current cost |
| `valuation` | two accounts of one user with different rates, an equity and a bond, 3 identifiers, trades at 4 times, two of the buys at one instant, a deposit and a fee, 3 stored prices | `JournalInv`, the inductive invariant of the journal, holds when trades change, are replayed or move between the accounts, and the investment bucket of the journal carries the cost of the open lots; the trend's own FIFO ends where the positions are, the return of the dashboard is what the matches realized, a recommended purchase reaches its target and the position shown is the open one |
| `split_sync` | one scope, 2 identifiers, buys before and between a 2-for-1 split (later corrected to 3-for-1) and a 1-for-2 reverse split, a sell after them, 2 syncs, 2 edits, 1 failure | an applied split is in the book unless the scope waits for a sync; the journal stays current; the book is reconciled in the end when it can be replayed |
| `import_planner` | every set of up to 2 trades of the book and 3 rows of the file, 3 days, 1 or 2 shares | the ready rows can be played with the book; at the end of the book no sell is blocked needlessly; the reasons fit; a file after the book is ready as a whole; no sell is funded by a buy of its day |
| `import_commit` | 2 commits of 4 files for 2 accounts, 2 edits, 3 identifiers, with and without a recorded split | the commit implements `AtomicImport`; the book is consistent at every row and after a rollback |
| `sessions` | one user with 2 browsers, 3 tokens, 2 requests, lives of one tick, 2 ticks | a login has one good token, an ended session stays ended, a changed role is in force in time |
| `market_prices` | 3 Taiwanese assets, one without a row of the day it is bought, and a US asset, 1 job, 2 assets a run, 5 days with a holiday on the third, 2 faults | the status of a refresh is true; the backfill gets to every asset that can be complete in as many nights as the places of a run require |
| `fx_rates` | 3 requests, 4 days, rates on days 2 and 3, 1 fault | an answer fits the question, stored rates stay, doubled rows are at most as many as requests |
| `accounts` | a user and an administrator, 2 accounts, 1 transaction, 2 currencies, 2 entries | rows refer to rows that are there, every account has its own cash GL account, entries balance and stay with their user, a transaction is posted |
| `asset_catalog` | 4 assets, 2 requests at a time and 3 in all, 2 runs of 2 catalogs | a class fits its type, a mapping is never replaced, the dry run predicts the upsert |
| `trend_after_split` | one scope: a buy, a split, a sell | **violation**: the trend cannot be built after a split |
| `concurrent_trades` | three trades of one scope | **violation**: two creates at once leave a book that is not that of the trades |

`ChronologicalFifo` does not repeat the replay: it compares with `FifoMatches`
and `FifoLots`, which line bought and sold shares up as intervals and match what
overlaps. Trades stand in order by time and, at one instant, by identifier. Where
all buys have times of their own, lots and matches are exactly those of the
reference. Where two lots were opened at one instant, the code fixes no order
between them (the incremental path takes them as the query returns them, the
replay by identifier), and the property compares, instant by instant, what is
left of the lots and what each sell took from them. `FifoFeasible` says besides
that a live sell never reaches past the shares bought before it.

**Bounds.** Three rows are the smallest book in which a backdated trade changes
the match of another one (buy, sell, backdated buy); four (two buys at one
instant, two sells) are the smallest in which the order of lots opened together
shows. Hard deletes free identifiers, so behaviours are unbounded in length.
Three times give before, between and after, and ties. Buys with different unit
costs and sells of one and two shares give partial consumption, consumption of
several lots and closing. In `ledger` four rows, one of them soft-deleted (which
is read by nothing but the replay, that has to leave it out), lie in the first
account only; with the second one there are three live rows and at most one entry
that a former owner has kept (`FewRows`). A sell that moves takes another lot, at
another cost. `MaxEdits` and `MaxFailures` bound the user and the environment in the sync run; the sync itself is not
bounded. Two identifiers and two edits are enough there for a backdated trade
next to another one, and for a trade that is changed or deleted while a sync has
its scopes. Deadlock is not checked: a book in which no further operation is legal,
or bounds that are used up, is a legal end.

For the planner, two trades of the book and three rows of the file are the
smallest sizes at which a later sell of the book has a choice between two sells
of the file to take back. The reference `Plays` does not simulate: it compares
sums up to each day. `UsualImportSucceeds` is about a file that comes after the
book, `NoNeedlessBlockAtTheEnd` about a file with no later trade in the book
(`FileComesLast`), `NoSameDayFunding` about a book that has no trade of the day;
what happens without these conditions is in section 5. For the commit, the
files share an order number, repeat one, have the sell before the buy, and use
another account; two requests for them and two edits between their steps give
every race of evaluation, batch and edit.

Three tokens are a login and two refreshes, two requests the smallest overlap;
with lives of one tick a token expires while its request runs. Sessions of
different users meet only in `RevokeAllForUser`, which two browsers of one user
exercise. Three Taiwanese assets with two assets a run is the smallest case in
which the cut matters, with one more asset for the refresh over both markets;
one job is enough for the cut and for the status, and other writers show as
faults. Asset 1 can be made to stay incomplete for good, so that two others share
the second place of two runs; the holiday makes every asset look incomplete on
the day after it. Trades change on the first two days only (`TradesSettle`), so
that two nights remain after the last change. The runs of three Taiwanese assets
over five days have the scheduled syncs alone, as a refresh only adds rows of
recent days; refreshes and the US asset are there in the runs of two
Taiwanese assets over three days (`Bounded`). These are constraints of the
instance and not of the module.

For rates, the first day has no rate and the last one none of its own. Three requests
with two published rates give a delete between another request's delete and
create, and rows that double. Two accounts are the smallest
number at which a GL account could be linked wrongly; one transaction moves
between them. Two requests of one alias are the race; three make one of them
come after a removal. `MaxRuns` 2 is a first and a repeated run.

**Conditions.** `OneTokenPerLogin` is about logins none of whose tokens were
swapped twice, and `EndedSessionsStayEnded` leaves out a rotation that read its
token before the end: the swap has no condition (`refresh-token.service.ts:47`),
so these are the cases the code lets through. `StoredRatesStay` leaves out a
request between its delete and its create, and one that broke off there.
`TrendAgreesWithHoldings` is checked where no split is recorded:
`trend_after_split` is the other case.
`AppliedSplitsAreInTheBook` leaves out the scopes that wait for a sync
(`waiting`): the create policy does not look at splits (section 5), and a
corrected ratio is stored before the replay. `EventuallyReconciled` takes them in:
the next sync that gets through repairs them. Both compare trades at distinct
times. `EventuallyReconciled` is about books in which every scope can be replayed.
`BackfillGetsThrough` says how many nights the backfill needs instead of that it
gets there in the end, so it assumes nothing of what runs when. A night counts
when its backfill ran to the end after a daily sync ran the evening before:
otherwise every asset is behind by a day and the first ones are taken again. An
asset takes a place every night without ever being complete when it was bought
on a day without a row, or has no row of the day before one of the nights
(`Stuck`); when such assets fill all places of a run, nothing is claimed
(section 5).

**Fairness.** *Sync*: a sync that is idle is started again (`@Cron` on
weekdays) and a sync that runs goes on. Users, the provider and failures are
not fair. `RunsOn` is weak fairness of `SyncStep` with its ENABLED condition,
"not idle", written out: TLC evaluates ENABLED of the replay very slowly.
`EventuallyReconciled` says `<>[]` because edits, failures and reports are
bounded: once they have come to rest, the syncs win, unless a scope sells shares
that the recorded splits have taken away: then every sync ends at its replay.
In the run, this happens when the reverse split is reported before the split
that pays for it, and ends when that one is reported too.
No other run assumes fairness.

## 4. Proofs

All theorems hold for every set of accounts, owners, assets, identifiers and
inputs. No module declares a `RECURSIVE` operator. What is assumed of the
constants of `Ledger` and of what extends it:

* identifiers are natural numbers, `NoTx` is no row, inputs are rows that are
  not deleted;
* `PricesAreExact`: the amount of a buy is its quantity times its unit cost. The
  code divides decimals and the model whole numbers, so this is where the two
  agree; `FilesHoldTrades` says it of the rows of broker files;
* `NewsHasRatios`: a reported split has a positive ratio. The engine throws on
  any other (`position-replay.engine.ts:255`), so no other is ever applied;
* `NewsIsOneADay`, and `SplitBooksHoldSplits` for the splits that are recorded
  from the start: an asset has at most one split or reverse split on a day. The
  key of the table allows one of each; the replay would then apply the two in
  the order in which the query returned them.

* `LedgerProofs!JournalInvariant`: `Spec => []JournalInv`. `LiveEntriesCurrent`
  alone is not inductive: a replay of one scope could change the matches of a
  sell in another scope, and an entry that archiving does not find would be
  left over. `JournalInv` adds that matches lie in the scope of their sell
  (`MatchesInScope`) and that an entry belongs to the owner of the account its
  transaction is in (`EntriesOwned`). The run `valuation` checks
  `JournalInv` itself. It is shown in two parts (`JournalIsOwned`). `OwnersInv`
  holds whoever moves what: the owner of a live transaction has its one entry.
  `PostingKeepsOwners` says when posting a set of transactions keeps it,
  `RebuildKeepsMatches` that a replay leaves the cost of every sell it does not
  post again, and each action supplies its replayed scopes and posted
  transactions (`IncrementalCreate`, `ReplayingStep`). `EntriesOwned` needs that
  an update stays with its owner (`PostingKeepsOwned`).
* `LedgerProofs!OwnersHaveTheirEntry`: `AdminSpec => []OwnersEntryCurrent`, from
  `OwnersInv` alone. `MovesKeepShares` says that lots, matches and positions do
  not depend on owners at all: they stay right under `AdminSpec` too.
* `TypeCorrect` and `JournalMirrorsLiveTransactions` follow from it.
* `PostingLinesBalance`: the lines of any transaction balance.
* `LedgerProofs!BookInvariant`: `Spec => []BookInv`, the inductive invariant of
  lots, matches and positions, from which `RowsResolve` and `PositionsMatchLots`
  follow. Its parts: the rows of the table keep the business rules and there are
  finitely many (`TableFits`); a lot is found by its scope and its buy
  (`LotsFit`); the splits can be applied (`SplitsFit`); and the two properties
  `LedgerRowsResolve` and `PositionMatchesOpenLots`, which need each other: a
  sell that is booked incrementally consumes the open lots, and that its matches
  add up to its quantity needs that these are the lots of live buys, one for
  each; a buy adds to the position, which has to be the sum of the lots before.
  The steps: `RebuildKeepsBook` for everything that replays (an update, a
  delete, a backdated create, the split sync), `NewBuyKeepsBook` and
  `NewSellKeepsBook` for the two incremental paths, `NewCashKeepsBook` for the
  rest.
* `LedgerProofs!CostInvariant`: `Spec => []CostInv`, and `BucketMatchesLots`,
  `Spec => []InvestmentBucketMatchesOpenLots`, from it and `JournalInv`. The
  property adds up a journal and the lots of all assets of an account and is not
  inductive: an operation changes one scope, so `CostInv` says it of each scope,
  in terms of the trades and matches instead of the entries. No split is
  recorded under `Spec`, and `CostInv` says so: after one, the whole numbers of
  the model would no longer divide evenly, as the decimals of the code do. `CostInv` contains `BookInv`;
  both hold in every state of the runs `ledger` and `valuation` when added to its invariants.
  The argument: fills and what is left of a lot keep its cost
  (`ConsumeIsComplete`); a buy opens a lot that costs what it paid (`BuyPays`,
  where `PricesAreExact` is needed), a sell takes out of the lots what its fills
  cost (`SellPays`), so a replay ends with lots that cost what was paid and not
  sold (`ReplayPays`, by induction over the timeline; `ReplayOfScopePays`);
  hence `RebuildKeepsCost` for all that replays and `NewBuyKeepsCost` and
  `NewSellKeepsCost` for the incremental paths. From there to the journal: the
  live transactions and their entries correspond one to one
  (`BucketOfTrades`), and sums that agree asset by asset agree (`SumByKey`).
* `LedgerProofs!ReplayIsComplete` is what the replay computes for *every* set of
  trades and splits, and what `RebuildKeepsBook` rests on. Its lemmas are about
  the operators the model is built from:
  a sum over a finite set takes its elements in any order (`SumSplits`,
  `SumRenamed`); a fold over a sequence is the last of the states that its steps
  go through (`FoldExists`, `ConsumeRuns`, `ReplayRuns`); consuming lots leaves
  every lot its source and makes at most one fill for each, which add up
  (`ConsumeIsComplete`); `compareEvents` is a strict total order, so the
  timeline has each event once (`EarlierIsAnOrder`, `InOrderIsComplete`: the
  rank of an event is a bijection); and a split, a buy and a sell keep what
  has been established of the events before (`Replayed`).
* `LedgerProofs!SharesAreFirstInFirstOut`: `Spec => []ChronologicalFifo`, the
  claim of the repository's README that sells use FIFO lots and backdated changes
  rebuild the scope. Lots and matches are rows, and the two paths order lots of
  one instant differently, so an invariant about single lots would not be
  inductive. `FifoInv` speaks of sums instead. For each scope there are functions
  that tell what is left of each live buy and what each live sell took of it, the
  rows are exactly those (`BookTells`), and (`FifoShares`): at every point of the
  order no more was sold than bought; what is left of the shares bought before
  an instant is what the sells do not reach; and what a sell took of them is what
  its interval has in common with them. `SellKeepsShares` shows that a sell after
  all others keeps this whatever lots of one instant it starts with, because a
  walk over a queue of lots takes the oldest shares (`ConsumeTakesOldest`), and
  `BuyKeepsShares` that a buy does. `ReplayIsStaged` carries it along the timeline
  of a replay, event by event (the timeline is sorted, which the rank of an event
  gives); `NewBuyIsFifo` and `NewSellIsFifo` are the incremental paths, where
  `HasLaterScopedActivity` puts the new trade after all others; a scope that is
  not touched keeps its rows (`KeptIsFifo`). `FifoInvariant` joins them. Last,
  `BookByInstant` reads the sums as the intervals of the property, and with buys
  at distinct times two neighbouring sums differ in one lot, so that
  `BookAtDistinctTimes` finds each row of `FifoLots` and `FifoMatches`.
  Assumptions: `InputsAreRows`, `PricesAreExact`.
* `SyncAndValuationProofs!SyncKeepsJournal` and `SyncKeepsBook`: the journal, the
  rows and the positions stay right under `SyncSpec`, with any number of syncs,
  failures and edits. A sync stores a split before it replays, so a book is in
  order also while a recorded split is not yet applied: `BookInv` says that lots,
  matches and positions agree, not that they follow the splits.
* `ImportCommitProofs!ImportKeepsJournal` and `ImportKeepsBook`: the same for
  `ImportSpec`, with any files and any number of requests. A rollback gives back
  the saved book, so the invariant (`ImportInv`) adds that the saved book
  satisfies `JournalInv` and `BookInv` (`JournalOf(saved)`, `RowsFit(saved)`),
  that at most one batch is open, so that the saved book is its own, and that a
  request's file is one of `Files`, so that its rows may be created. It assumes
  that files hold live trades of their account (`FilesHoldTrades`).
* `ImportCommitProofs!CommitsAreAtomic`: `ImportSpec => CommitIsAtomic`, the
  refinement of `AtomicImport`. Every step of a commit is shown to be a step of
  the abstract specification or to change nothing there (`StepsAreAtomic`): an
  operation of a user is `Edit`, the plan is `Ask`, a refused row or an abort
  `GiveUp`, the end of the batch `Import`; the evaluation, the begin of the
  batch and its rows are invisible. `FinishBatch` is the hard one: nothing in
  its guard says what the batch has done. The inductive invariant
  (`CommitInvariant`) does: while a batch is open, what the saved book has is
  unchanged; each new transaction is that of a ready row that has left the
  queue and was not imported before; no two have one order number; and each row
  that has left the queue is imported now (`BatchFits`). With the queue empty,
  new transactions and missing rows correspond one to one (`FinishImports`).
  That all ready rows were in the queue is a theorem about the planner:
  `PlanRuns` follows the fold that plans the trades of a scope, `BlockedAreRows`
  says that only ready rows of this scope are blocked, `WriteOrderIsComplete`
  that the written ones are the others, each once, and `FlattenIsComplete` that
  putting the assets' orders one after the other, in any order of the assets,
  keeps that. Two ready rows of one file have different order numbers because
  the second is a duplicate (`EvaluatedFits`). `ImportTypeCorrect` follows from
  the same invariant. Assumptions: `FilesHoldTrades`, `EditsAreBounded`.
* `FxRatesProofs!FxInvariant` is the inductive invariant of the stored rates:
  types, a request's rate is a published one not after the day it asked for.
  `AnswersFit` follows from it, and so does `RatesStay`, the action property:
  `DeleteStored` leaves its request about to create, and no other step takes
  rows away. `DoublesAreFew` counts: the rows of
  a day and the requests about to create one are together at most as many as
  there are requests (`RowsAreFew`). A create moves one from the second count to
  the first, and the delete before it leaves no row; the lemmas about `Adding`
  say so with cardinalities.
  That the newest published day exists (`LatestDay`) is a use of well-founded
  induction on finite sets of days. Assumptions: `LastDayIsADay`,
  `RateDaysAreDays`, and `RequestsAreFinite`.
* `SyncAndValuationProofs!SplitsStay` is the action property of the splits. The
  upsert of a split replaces the row of its key, so it needs that a key has one
  row, and that an application refers to a recorded split (`SplitsInv`).
* `SyncAndValuationProofs!ShownPositionIsOpen`: `Spec => []OpenPositionIsShown`.
  The MCP tool takes the latest opened position of a scope, closed or not, so an
  open position must be newer than each closed one. `DatesInv` says why: a closed
  position was opened before some live sell of its scope (`Dated`), the sell that
  closed it or one that a replay left behind it, and before the open one
  (`ClosedFirst`). An incremental buy opens a position only when it is later than
  every live trade of the scope, hence than those sells (`NewBuyKeepsDates`);
  a replay removes the positions of its scope and opens at most one, at the time of a
  trade (`ReplayOpensAtTrade`, by induction over the timeline;
  `RebuildKeepsDates`). No assumption besides those of `Ledger`.
* `SyncAndValuationProofs!DashboardFits`: `Spec => []DashboardFitsTheBook`, from
  `JournalInv` and `CostInv`. Where no entry of a deleted transaction is left,
  the entries of a user and those of an account are one-to-one with the live
  transactions (`PostedOnce`, `EntriesOfUser`, `EntriesOfAccount`), so that a sum
  over entries is one over transactions (`SumOverEntries`); each entry moves what
  its type says (`EntryMoves`), a sell the proceeds less the cost of its matches;
  and the sum over all is that of the sums by type (`SumOfTypes`).
* `SyncAndValuationProofs!RebalanceReaches`:
  `Spec => []RebalanceReachesTarget`. Held positions count as their open lots do
  (`HeldPositionTypes`), so holdings are finitely many and worth whole numbers
  (`HoldingsOfClass`); the suggestions share out one amount by value, and what
  they sum to is that amount (`AllIsBought`, where the quotient of the property
  divides exactly); with it the class is its target part of the new total
  (`TargetIsReached`, an identity of polynomials). Assumptions:
  `PricesAreNumbers` (finitely many rows), `RatesAreNumbers`.
* `SessionsProofs!SessionTypeCorrect` (types), `LoginsHaveOneToken`,
  `EndedSessionsNeverReturn`, `RolesChangeInTime`. That a login has one good
  token needs the chain of tokens that a login produces (`TokenInv`): a token
  that is not its newest one is revoked, and a refresh about to swap a token
  still has to find it unrevoked. That a role change is in force in time needs
  that what a request has read of a role is not older than the request.
* `AccountsProofs!AccountsInvariant` is the inductive invariant: the rows of the
  tables refer to each other, each account has its own cash account of its
  currency, an entry has two lines that cancel in one currency, and an entry
  belongs to the user of its transaction. `RowsResolve`, `AccountsKeepTheirCash`,
  `EntriesBalance` (by `TwoLinesBalance`: the sum over two lines is their sum),
  `TransactionsArePosted` and the action property `PostingsStay` follow.
  Assumptions: `NoneIsNoRow`, `AccountsAreNoSystemAccounts`, `ManualGlAreGl`,
  `TypesAreKnown`.
* `MarketPricesProofs!RefreshTellsTheTruth`: what a refresh answers is true. The
  invariant (`PricesInv`) follows each asset of a job: what it resolved is stored
  or still to do, and in a market that ended with success it is stored. That the
  assets in symbol order are all assets (`InOrderOfNumbers`) is a counting
  argument: the rank of an element is an injection of a finite set into as many
  numbers, hence onto them. Assumptions: `AssetsAreNumbers` (finitely many),
  `DaysAreNumbers`.
* `AssetCatalogProofs!CatalogTypeCorrect`, `ClassesFit`, `NamesKeepTheirAssets`.
  The invariant (`CatalogInv`) adds that rows lie up to the last id, that symbols
  are unique, and that what an open request is about to write fits: its class
  was checked against its type before, and the row that it found still exists.
  Assumptions: `IdsInOrder`, `NoneIsNoRow`, `PayloadsAreRows`,
  `CatalogsHaveNames`.
  `Collect` and `ApplyCatalog` are folds over a catalog of any length. A fold of
  the community modules is a function on sets of places chosen by its recursion
  equation; `FoldExists` shows that there is one when every step stays in a set
  `T`, and `FoldStays` that its result is in `T`, both by the least number for
  which they would fail.
* `AssetCatalogProofs!DryRunsAreTrue`: `CatalogSpec => []DryRunIsTrue`. The plan
  and the run are two folds over the same records, one over the identifiers it
  plans and one over the tables it changes. `FoldGoesThrough` gives the states of
  both, and `RecordAsPlanned` shows that a record keeps them alike (`Agrees`): the
  same counts, and each name resolved in the one as in the other, a planned row
  (`Planned`) standing for the row the run inserted. This needs that the records
  of a catalog have distinct symbols (`CollectIsDistinct`). A second run finds
  what the first one left: each record is settled when it was applied
  (`Settled`), later records take nothing of it away (`Remains`), and a settled
  record changes nothing. Assumption, besides those above: `NamesAreNoIds`, as
  the code's planned identifiers (`planned-` and a symbol) are no identifiers of
  rows.

Only model-checked, and why:

* Liveness (`EventuallyReconciled`): it rests on fairness and ENABLED, which the
  provers do not support.
* `BackfillGetsThrough` counts over a set of nights: a proof has to follow which
  assets each of them took, and which of those were behind again later.
* `AppliedSplitsAreInTheBook` compares the book with a new replay; it needs what
  `FifoInv` says of a book without splits for one whose lots were split and
  rounded between its buys and sells.
* `TrendAgreesWithHoldings` compares two FIFO algorithms: the trend replays the
  trades of all scopes of a user in one line of days, with prices between them,
  and the book keeps each scope by itself.
* `ReadyRowsPlay`, `NoNeedlessBlockAtTheEnd`, `ReasonsFit`,
  `UsualImportSucceeds`, `NoSameDayFunding`: what the planner decides. It is
  proved which rows it may block and that it writes the others once; that the
  written ones can be played needs the state of the plan at each day related to
  the sums of `Plays`.
* The findings' runs, `ConcurrentTrades` included, are counterexamples.

## 5. Findings

Each of these has a run whose counterexample shows it:

1. The trend replays the raw transactions without the recorded splits: after a
   split, a sell of the shares it added makes the request fail
   (`trend_after_split`); `portfolio-trend.service.ts:476`.
2. Two trades of one scope entered at once read the same lots and write absolute
   quantities (`concurrent_trades`);
   `transaction-position-orchestrator.service.ts:257`.

Met while modelling, with no run kept for them. Ledger and splits:

* An entry is archived by the *current* owner of the transaction
  (`posting.service.ts:33`), so a move between users, which an administrator may
  make, leaves the former owner an entry (README.md:20, FEATURES.md:166).
  `LiveEntriesCurrent` is therefore about `Spec`; under `AdminSpec`, which has such
  moves, `OwnersEntryCurrent` says what stays right.
* The create policy (`transaction-rebuild-policy.service.ts:202`) ignores recorded
  splits: a trade dated before an applied split is booked with the shares of
  before it until the next sync replays its scope, while README.md:21 says
  "backdated buy/sell changes rebuild affected position scopes"; a sell there can
  make the scope impossible to replay. `AppliedSplitsAreInTheBook` leaves out the
  scopes that wait for that sync, and `EventuallyReconciled` says that it comes.

* Lots opened at one instant have no order: one sell may start with the first
  and the next with the second, and a later replay changes the cost of sells
  already posted (README.md:18). This is why `ChronologicalFifo` compares lots
  of one instant together.
* `update` accepts a soft-deleted transaction and posts it (README.md:20,
  `transactions.service.ts:164`).
* A scope that cannot be replayed blocks the other scopes (README.md:152), for
  example one whose lot of one share rounds to none in a reverse split.
* Removing an account deletes its transactions (they cascade), but not the
  entries posted for them. Removing an asset deletes its positions and lots and
  sets the reference of its transactions to null (`prisma/schema.prisma:126`), so
  that they stay with their entries and belong to no scope.
* The detail of a soft-deleted sell finds no matches and shows all its proceeds
  as gain.

Import:

* Rows are planned together and written one by one, so a planned row can be
  refused and the batch rolled back, for example with a sell of the book after
  the days of the file (`transactions.import-sell-readiness.e2e-spec.ts:4`).
* The planner takes back more sells of the file than a later sell of the book
  needs (`import-sell-readiness.planner.spec.ts:406`). This is why
  `NoNeedlessBlockAtTheEnd` speaks of the end of the book only.
* A day trade in the book, or an edit during the commit, lets a buy fund a sell
  of its day (`import-sell-readiness.planner.ts:47`). This is why
  `NoSameDayFunding` is checked without them.
* A file is committed without its erroneous rows, while README.md:268 says
  "only when all rows are ready". This is why `AtomicImport` asks for the ready rows.
* The planner does not know splits: it blocks a sell of shares that only exist
  after one, or plans one the book refuses.
* README.md:278 says that after a failed batch `successCount` and
  `createdTransactionIds` reflect rows already persisted, while the batch is
  rolled back and both are empty. Responses are not modelled.

Around the book:

* The swap of a refresh token reads before its transaction and updates without a
  condition, so two overlapping refreshes of one token both succeed
  (`refresh-token.service.ts:47`, whose comment says "atomically swap it").
* A refresh that has read its token before a logout, or before all sessions of the
  user are ended, survives it (`refresh-token.service.ts:112`).
* A backfill takes the first assets by symbol that look incomplete: as many
  assets that can never be complete as a run takes keep the others out. An asset
  counts as complete by its first and latest rows, so a gap between them is
  never seen (`market-price.service.ts:442`).
* A rate of an earlier day answers however old it is, and a request for today
  that goes on past a delete replaces the newest stored rate's row.
* A manual posting takes the currency of the request, which need not be that of
  the GL account; the default chart has one currency, so an account in another
  currency cannot record what posts to a purpose of the chart. A user created
  by `POST /users` has no chart at all.
* `estimatedQuantity` of a rebalance divides an amount in the display currency
  by a price in that of the asset (`portfolio-rebalance.service.ts:187`), and
  some totals of the dashboard add accounts of different currencies. The
  properties of `Valuation` are stated where currencies agree.
* Between a split and the next price sync, holdings are valued at the price of
  before the split.

## 6. Not modelled, and what is left

Not modelled: the parsing of broker files, HTTP, request validation of single
fields, password hashing and the randomness of tokens; lists of activities and
entries, the expenses of a month, the notes of a rebalance; the rounding of
figures to 8 places and floating-point errors; the five-year look-back of the
split sync and the choice of assets by its caller; the dates and assets an
administrator may select for a price sync; `syncReferenceRates`, which nothing
calls; tags, which no code writes; the dates of the rates in a valuation;
replays and updates split into statements; deployment, seed and scripts, which
keep no state.

Left for later, in this order:

1. `AppliedSplitsAreInTheBook` in TLAPS: that incremental bookkeeping and replay agree
   also after splits.
2. `ReadyRowsPlay`, from the states of `PlanRun`.
3. Updates and replays in `ConcurrentTrades`.
