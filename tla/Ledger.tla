------------------------------- MODULE Ledger -------------------------------
(***************************************************************************)
(* The investment book of TransactionsService: transactions, the FIFO lots *)
(* and sell-lot matches derived from them, positions, and the journal      *)
(* entries posted for them.                                                *)
(*                                                                         *)
(* Every operation of the service is one database transaction and one      *)
(* action here: the row is written, the positions are brought up to date   *)
(* (incrementally, or by replaying every affected scope) and the entries   *)
(* are posted.  An operation that fails leaves nothing behind, so a        *)
(* failure is an action that is not enabled.                               *)
(***************************************************************************)
EXTENDS FifoReplay, FiniteSets, GlPosting

CONSTANTS
  Accounts,   \* Account.id
  Owner,      \* the user an account belongs to, as a function of the account
  Assets,     \* Asset.id
  NoAsset,    \* a transaction without asset
  TwAssets,   \* the assets traded in whole shares (market "tw")
  TxIds,      \* Transaction.id: numbers, because replay orders ties by id
  NoTx,       \* there is no row with this identifier
  Inputs      \* the transaction rows a caller may ask for

VARIABLES
  tx,         \* the Transaction table: a row, soft-deleted or not, or NoTx
  lots,       \* PositionLot rows
  matches,    \* SellLotMatch rows
  positions,  \* Position rows, open and closed
  splits,     \* CorporateAction rows
  gl          \* GlEntry rows that are not archived

bookVars == <<tx, lots, matches, positions, gl>>
vars == <<tx, lots, matches, positions, splits, gl>>

TxRow ==
  [account : Accounts, asset : Assets \cup {NoAsset}, type : TxTypes,
   qty : Nat, amount : Nat, charges : Nat, time : Nat, deleted : BOOLEAN]

\* The rows that may be created.
NewRows == {r \in TxRow : ~r.deleted}

ASSUME IdsAreNumbers == TxIds \subseteq Nat
ASSUME NoTxIsNoRow == NoTx \notin TxRow
ASSUME InputsAreRows == Inputs \subseteq NewRows

\* Prices are exact in the code (decimals) and here (whole numbers).
HasExactPrice(r) ==
  r.type = "buy" /\ r.qty > 0 => r.amount = r.qty * (r.amount \div r.qty)

ASSUME PricesAreExact == \A r \in Inputs : HasExactPrice(r)

-----------------------------------------------------------------------------
(***************************************************************************)
(* Scopes: getTransactionScope gives a buy or sell of an asset its         *)
(* (account, asset) pair, and every other transaction none.                *)
(***************************************************************************)
Scopes == Accounts \X Assets

ScopesOf(row) ==
  {s \in Scopes :
     row.type \in {"buy", "sell"} /\ s = <<row.account, row.asset>>}

Exists(t) == tx[t] # NoTx

Live(t) == Exists(t) /\ ~tx[t].deleted

\* The trades of a scope in a transaction table, soft-deleted ones included.
ScopedIds(table, s) ==
  {t \in TxIds : table[t] # NoTx /\ s \in ScopesOf(table[t])}

LiveTrades(table, s) == {t \in ScopedIds(table, s) : ~table[t].deleted}

LiveSells(table, s) == {t \in LiveTrades(table, s) : table[t].type = "sell"}

(***************************************************************************)
(* What replayAndPersistScope stores for a scope of a transaction table.   *)
(***************************************************************************)
\* Mutant: soft-deleted trades are replayed too.
ReplayDeletedToo(table, s) ==
  {[id |-> t, type |-> table[t].type, time |-> table[t].time,
    qty |-> table[t].qty, amount |-> table[t].amount] :
     t \in ScopedIds(table, s)}

ReplayTransactions(table, s) ==
  {[id |-> t, type |-> table[t].type, time |-> table[t].time,
    qty |-> table[t].qty, amount |-> table[t].amount] :
     t \in LiveTrades(table, s)}

\* Splits that a replay can apply, in one order: their ratios are positive,
\* and an asset has at most one on a day.
HasRatio(a) ==
  a.exDate \in Nat /\ a.ratio.num \in Nat \ {0} /\ a.ratio.den \in Nat \ {0}

AreSplits(rows) ==
  /\ IsFiniteSet(rows)
  /\ \A a \in rows : HasRatio(a)
  /\ \A a, b \in rows : a.asset = b.asset /\ a.exDate = b.exDate => a = b

CorporateActions(s) ==
  {[exDate |-> a.exDate, ratio |-> a.ratio,
    market |-> IF a.asset \in TwAssets THEN "tw" ELSE "us"] :
     a \in {b \in splits : b.asset = s[2]}}

Replay(table, s) ==
  ReplayScopeLedger(ReplayTransactions(table, s), CorporateActions(s))

LotRow(s, lot) ==
  [scope |-> s, src |-> lot.src, orig |-> lot.orig, rem |-> lot.rem,
   unit |-> lot.unit, openedAt |-> lot.openedAt]

MatchRow(s, sell, fill) ==
  [scope |-> s, sell |-> sell, src |-> fill.src, qty |-> fill.qty,
   unit |-> fill.unit]

\* Mutant: account and asset swapped.
PositionRowSwapped(s, qty, cost, openedAt, open) ==
  [scope |-> <<s[2], s[1]>>, qty |-> qty, cost |-> cost,
   openedAt |-> openedAt, open |-> open]

\* avgCost is kept as the total cost of the position, quantity * avgCost.
PositionRow(s, qty, cost, openedAt, open) ==
  [scope |-> s, qty |-> qty, cost |-> cost, openedAt |-> openedAt,
   open |-> open]

ReplayedLots(table, s) ==
  LET ledger == Replay(table, s) IN
  {LotRow(s, ledger.lots[i]) : i \in DOMAIN ledger.lots}

ReplayedMatches(table, s) ==
  LET ledger == Replay(table, s) IN
  UNION {{MatchRow(s, t, fill) : fill \in ledger.fills[t]} :
           t \in LiveSells(table, s)}

ReplayedPositions(table, s) ==
  LET ledger == Replay(table, s)
      open   == SumOpenQuantity(ledger.lots) IN
  IF open = 0 THEN {}
  ELSE {PositionRow(s, open, SumOpenCost(ledger.lots), ledger.openedAt, TRUE)}

(***************************************************************************)
(* rebuildScope for each scope of S, on the transaction table the caller   *)
(* has just written: the matches of the scope's transactions, its lots     *)
(* (matches on them cascade) and its positions are deleted and replayed.   *)
(***************************************************************************)
RebuildScopes(S) ==
  /\ \A s \in S : Replay(tx', s).ok
  /\ lots' = {l \in lots : l.scope \notin S}
               \cup UNION {ReplayedLots(tx', s) : s \in S}
  /\ matches' = {m \in matches : /\ m.scope \notin S
                                 /\ \A s \in S : m.sell \notin ScopedIds(tx', s)}
                  \cup UNION {ReplayedMatches(tx', s) : s \in S}
  /\ positions' = {p \in positions : p.scope \notin S}
                    \cup UNION {ReplayedPositions(tx', s) : s \in S}

-----------------------------------------------------------------------------
(***************************************************************************)
(* Posting.  The cost basis of a sell comes from its FIFO matches; an      *)
(* entry of the same user and transaction is archived before the new one   *)
(* is written.                                                             *)
(***************************************************************************)
MatchesOf(t, rows) == {m \in rows : m.sell = t}

HistoricalCost(t, rows) ==
  SumFunction([m \in MatchesOf(t, rows) |-> m.qty * m.unit])

\* The entry that posting transaction t of a table writes, given the matches.
PostedEntry(t, table, rows) ==
  [ref |-> t, user |-> Owner[table[t].account],
   account |-> table[t].account, date |-> table[t].time,
   lines |-> PostingLines(table[t], HistoricalCost(t, rows))]

IsEntryOf(e, t, table) == e.ref = t /\ e.user = Owner[table[t].account]

\* postTransaction for each transaction of P, on a journal where the entries
\* of archived have already been archived.  A sell without matches fails.
PostTransactions(P, archived) ==
  /\ \A t \in P : tx'[t].type = "sell" => MatchesOf(t, matches') # {}
  /\ gl' = {e \in gl : /\ ~\E t \in archived : IsEntryOf(e, t, tx)
                       /\ ~\E t \in P : IsEntryOf(e, t, tx')}
             \cup {PostedEntry(t, tx', matches') : t \in P}

\* Mutant: a replay posts no sell again.
RepostedNone(S) == {}

\* The live sells that rebuildAndRepostSellScopes posts again.
Reposted(S) == UNION {LiveSells(tx', s) : s \in S}

-----------------------------------------------------------------------------
(***************************************************************************)
(* create: TransactionRebuildPolicyService decides between incremental     *)
(* bookkeeping and a replay of the scope.                                  *)
(***************************************************************************)
HasLaterScopedActivity(s, time) ==
  \E t \in LiveTrades(tx, s) : tx[t].time >= time

HasFutureSell(s, time) == \E t \in LiveSells(tx, s) : tx[t].time >= time

\* Mutant: a buy before a sell is booked incrementally.
NeedsReplayForSellsOnly(r, s) ==
  r.type = "sell" /\ HasLaterScopedActivity(s, r.time)

NeedsFullScopeReplayOnCreate(r, s) ==
  \/ r.type = "sell" /\ HasLaterScopedActivity(s, r.time)
  \/ r.type = "buy" /\ HasFutureSell(s, r.time)

Insert(t, r) ==
  /\ ~Exists(t)
  /\ ValidRow(r, NoAsset)
  /\ tx' = [tx EXCEPT ![t] = r]
  /\ UNCHANGED splits

OpenPositions(s) == {p \in positions : p.scope = s /\ p.open}

\* findFirst over the open positions, the latest opened first.
IsActivePosition(p, s) ==
  /\ p \in OpenPositions(s)
  /\ \A q \in OpenPositions(s) : q.openedAt <= p.openedAt

\* syncPositionOnCreate: average the buy in, or open a position.
SyncPosition(s, r) ==
  \/ /\ OpenPositions(s) = {}
     /\ positions' = positions
          \cup {PositionRow(s, r.qty, r.amount, r.time, TRUE)}
  \/ \E p \in positions :
       /\ IsActivePosition(p, s)
       /\ positions' = (positions \ {p})
            \cup {PositionRow(s, p.qty + r.qty, p.cost + r.amount,
                              p.openedAt, TRUE)}

CreateBuyIncrementally(t, r) ==
  /\ r.type = "buy"
  /\ Insert(t, r)
  /\ \E s \in ScopesOf(r) :
       /\ ~NeedsFullScopeReplayOnCreate(r, s)
       /\ SyncPosition(s, r)
       /\ lots' = lots \cup
            {LotRow(s, [src |-> t, orig |-> r.qty, rem |-> r.qty,
                        unit |-> r.amount \div r.qty, openedAt |-> r.time])}
  /\ UNCHANGED matches
  /\ PostTransactions({t}, {})

OpenLots(s) == {l \in lots : l.scope = s /\ l.rem > 0}

\* The orders in which "openedAt asc" may return the open lots of a scope:
\* lots opened at the same time come in any order.
FifoOrders(s) ==
  {order \in SetToSeqs(OpenLots(s)) :
     \A i, j \in DOMAIN order :
       i < j => order[i].openedAt <= order[j].openedAt}

\* buildSellLotConsumptionPlan and applySellLotConsumptionPlan.
ConsumeOpenLots(s, p, t, r, order) ==
  LET consumed == Consume(order, r.qty)
      open     == SumOpenQuantity(consumed.lots) IN
  /\ consumed.toSell = 0
  /\ lots' = (lots \ OpenLots(s))
       \cup {LotRow(s, consumed.lots[i]) : i \in DOMAIN consumed.lots}
  /\ matches' = matches \cup {MatchRow(s, t, fill) : fill \in consumed.fills}
  /\ positions' = (positions \ {p})
       \cup {PositionRow(s, open, SumOpenCost(consumed.lots), p.openedAt,
                         open > 0)}

CreateSellIncrementally(t, r) ==
  /\ r.type = "sell"
  /\ Insert(t, r)
  /\ \E s \in ScopesOf(r) :
       /\ ~NeedsFullScopeReplayOnCreate(r, s)
       /\ \E p \in positions : \E order \in FifoOrders(s) :
            /\ IsActivePosition(p, s)
            /\ ConsumeOpenLots(s, p, t, r, order)
  /\ PostTransactions({t}, {})

\* A backdated buy or sell: the scope is replayed and its sells are posted
\* again.  The new transaction is posted too: a buy on its own, a sell with
\* the other sells of the scope.
CreateWithReplay(t, r) ==
  /\ r.type \in {"buy", "sell"}
  /\ Insert(t, r)
  /\ \E s \in ScopesOf(r) :
       /\ NeedsFullScopeReplayOnCreate(r, s)
       /\ RebuildScopes({s})
       /\ PostTransactions(Reposted({s}) \cup {t}, {})

CreateCashMovement(t, r) ==
  /\ ScopesOf(r) = {}
  /\ Insert(t, r)
  /\ UNCHANGED <<lots, matches, positions>>
  /\ PostTransactions({t}, {})

-----------------------------------------------------------------------------
(***************************************************************************)
(* update: the merged row r replaces the stored one, deleted or not.  The  *)
(* old and the new scope are replayed; the transaction is posted unless it *)
(* is a sell, which is posted with the replayed sells when it is live.     *)
(***************************************************************************)
ChangesIntoOrOutOfSell(old, r) ==
  old.type # r.type /\ "sell" \in {old.type, r.type}

\* Mutants: only the scope that the trade leaves, or enters, is affected.
ScopesLeft(old, r) == ScopesOf(old)

ScopesEntered(old, r) == ScopesOf(r)

\* getDistinctScopes of resolveUpdateMutation.
UpdateScopes(old, r) == ScopesOf(old) \cup ScopesOf(r)

Update(t, r) ==
  LET S == UpdateScopes(tx[t], r) IN
  /\ Exists(t)
  /\ ValidRow(r, NoAsset)
  /\ ~ChangesIntoOrOutOfSell(tx[t], r)
  /\ tx' = [tx EXCEPT ![t] = [r EXCEPT !.deleted = tx[t].deleted]]
  /\ UNCHANGED splits
  /\ RebuildScopes(S)
  /\ PostTransactions(
       Reposted(S) \cup (IF ScopesOf(r) # {} /\ r.type = "sell"
                           THEN {} ELSE {t}), {})

\* A user updates a transaction of one of their accounts and may move it to
\* another of them: both ownerships are validated.
UpdateOwn(t, r) ==
  /\ Update(t, r)
  /\ Owner[r.account] = Owner[tx[t].account]

(***************************************************************************)
(* remove (soft delete) and hardDelete: the entry is archived, then the    *)
(* scope of the transaction is replayed without it.  The rows that refer   *)
(* to a hard-deleted transaction cascade; its scope is rebuilt anyway.     *)
(***************************************************************************)
SoftDelete(t) ==
  LET S == ScopesOf(tx[t]) IN
  /\ Exists(t)
  /\ tx' = [tx EXCEPT ![t].deleted = TRUE]
  /\ UNCHANGED splits
  /\ RebuildScopes(S)
  /\ PostTransactions(Reposted(S), {t})

HardDelete(t) ==
  LET S == ScopesOf(tx[t]) IN
  /\ Exists(t)
  /\ tx' = [tx EXCEPT ![t] = NoTx]
  /\ UNCHANGED splits
  /\ RebuildScopes(S)
  /\ PostTransactions(Reposted(S), {t})

-----------------------------------------------------------------------------
Init ==
  /\ tx = [t \in TxIds |-> NoTx]
  /\ lots = {} /\ matches = {} /\ positions = {}
  /\ splits = {}
  /\ gl = {}

Create(t, r) ==
  \/ CreateCashMovement(t, r)
  \/ CreateBuyIncrementally(t, r)
  \/ CreateSellIncrementally(t, r)
  \/ CreateWithReplay(t, r)

Next ==
  \E t \in TxIds :
    \/ \E r \in Inputs : Create(t, r) \/ UpdateOwn(t, r)
    \/ SoftDelete(t)
    \/ HardDelete(t)

Spec == Init /\ [][Next]_vars

\* Nobody validates ownership for an administrator, who may therefore move a
\* transaction to an account of another user.
AdminNext == Next \/ \E t \in TxIds, r \in Inputs : Update(t, r)

AdminSpec == Init /\ [][AdminNext]_vars
=============================================================================
