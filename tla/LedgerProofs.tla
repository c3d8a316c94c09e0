---------------------------- MODULE LedgerProofs ----------------------------
(***************************************************************************)
(* Proofs about the investment book, for every set of accounts, assets and *)
(* identifiers and every set of inputs: first the journal, then what the   *)
(* operators of the replay compute (sums, folds, consumed lots, the        *)
(* timeline, the replay of a scope), then the lots, matches and positions, *)
(* and last what the lots cost and the investment account of the journal.  *)
(***************************************************************************)
EXTENDS LedgerProperties, FiniteSetTheorems, WellFoundedInduction, TLAPS

(***************************************************************************)
(* The type invariant: the tables of the book stay well formed.            *)
(***************************************************************************)
LEMMA RebuildTypeOK ==
  ASSUME TypeOK, NEW S \in SUBSET Scopes, RebuildScopes(S)
  PROVE  /\ \A l \in lots' : l.scope \in Scopes
         /\ \A m \in matches' : m.scope \in Scopes /\ m.sell \in TxIds
         /\ \A p \in positions' : p.scope \in Scopes /\ p.open \in BOOLEAN
<1>1. \A l \in lots' : l.scope \in Scopes
  <2>1. \A s \in S : \A l \in ReplayedLots(tx', s) : l.scope = s
    BY DEF ReplayedLots, LotRow
  <2>2. QED BY <2>1 DEF RebuildScopes, TypeOK
<1>2. \A m \in matches' : m.scope \in Scopes /\ m.sell \in TxIds
  <2>1. \A s \in S : \A m \in ReplayedMatches(tx', s) :
          m.scope = s /\ m.sell \in TxIds
    BY DEF ReplayedMatches, MatchRow, LiveSells, LiveTrades, ScopedIds
  <2>2. QED BY <2>1 DEF RebuildScopes, TypeOK
<1>3. \A p \in positions' : p.scope \in Scopes /\ p.open \in BOOLEAN
  <2>1. ASSUME NEW s \in S, NEW p \in ReplayedPositions(tx', s)
        PROVE  p.scope = s /\ p.open \in BOOLEAN
    <3>1. PICK q, c, o : p = PositionRow(s, q, c, o, TRUE)
      BY <2>1 DEF ReplayedPositions
    <3>2. p.scope = s
      BY <3>1 DEF PositionRow
    <3>3. p.open = TRUE
      BY <3>1 DEF PositionRow
    <3>4. QED BY <3>2, <3>3
  <2>2. QED BY <2>1 DEF RebuildScopes, TypeOK
<1>4. QED BY <1>1, <1>2, <1>3

(***************************************************************************)
(* The entries that posting writes are well formed.                        *)
(***************************************************************************)
LEMMA PostingTypeOK ==
  ASSUME TypeOK, NEW P \in SUBSET TxIds, NEW A, PostTransactions(P, A),
         \A t \in P : tx'[t] \in TxRow
  PROVE  \A e \in gl' :
           e.ref \in TxIds /\ e.account \in Accounts /\ e.date \in Nat
<1>1. \A t \in P : /\ PostedEntry(t, tx', matches').ref = t
                   /\ PostedEntry(t, tx', matches').account \in Accounts
                   /\ PostedEntry(t, tx', matches').date \in Nat
  BY DEF PostedEntry, TxRow
<1>2. QED BY <1>1 DEF PostTransactions, TypeOK

(***************************************************************************)
(* The lines of an entry balance, so that ensureBalanced never refuses a   *)
(* transaction, whatever its cost basis.                                   *)
(***************************************************************************)
THEOREM PostingLinesBalance ==
  ASSUME NEW row, row.type \in TxTypes, row.amount \in Int,
         row.charges \in Int, NEW cost \in Int
  PROVE  Balanced(PostingLines(row, cost))
<1>1. CASE row.type = "sell"
  <2> DEFINE pnl == row.amount + row.charges - cost
  <2>1. Positive(pnl) - Positive(-pnl) = pnl /\ pnl \in Int
        /\ Positive(pnl) \in Int /\ Positive(-pnl) \in Int
    BY DEF Positive
  <2>2. PostingLines(row, cost) = SellLines(row, cost)
    BY <1>1 DEF PostingLines
  <2>3. SellLines(row, cost) =
          [p \in GlPurposes |->
             CASE p = "cash" -> row.amount
               [] p = "fee" -> row.charges
               [] p = "invest" -> -cost
               [] p = "gain" -> -Positive(pnl)
               [] p = "loss" -> Positive(-pnl)
               [] OTHER -> 0]
    BY DEF SellLines, NoLines, GlPurposes
  <2> HIDE DEF pnl
  <2>4. /\ SellLines(row, cost)["cash"] = row.amount
        /\ SellLines(row, cost)["fee"] = row.charges
        /\ SellLines(row, cost)["invest"] = -cost
        /\ SellLines(row, cost)["gain"] = -Positive(pnl)
        /\ SellLines(row, cost)["loss"] = Positive(-pnl)
        /\ SellLines(row, cost)["equity"] = 0
        /\ SellLines(row, cost)["dividend"] = 0
    BY <2>3 DEF GlPurposes
  <2>5. pnl = row.amount + row.charges - cost
    BY DEF pnl
  <2>6. QED BY <2>1, <2>2, <2>4, <2>5 DEF Balanced
<1>2. CASE row.type # "sell"
  <2>1. ASSUME NEW a \in Int, NEW p \in {"equity", "invest", "dividend", "fee"}
        PROVE  Balanced(CashLines(a, p))
    <3>1. CashLines(a, p) =
            [q \in GlPurposes |-> IF q = p THEN -a
                                  ELSE IF q = "cash" THEN a ELSE 0]
      BY DEF CashLines, NoLines, GlPurposes
    <3>2. \A q \in GlPurposes :
            CashLines(a, p)[q] = IF q = p THEN -a
                                 ELSE IF q = "cash" THEN a ELSE 0
      BY <3>1
    <3>3. CASE p = "equity"
      BY <3>2, <3>3 DEF Balanced, GlPurposes
    <3>4. CASE p = "invest"
      BY <3>2, <3>4 DEF Balanced, GlPurposes
    <3>5. CASE p = "dividend"
      BY <3>2, <3>5 DEF Balanced, GlPurposes
    <3>6. CASE p = "fee"
      BY <3>2, <3>6 DEF Balanced, GlPurposes
    <3>7. QED BY <3>3, <3>4, <3>5, <3>6
  <2>2. -row.amount \in Int
    OBVIOUS
  <2>3. CASE row.type \in {"deposit", "withdraw"}
    BY <2>1, <2>2, <2>3 DEF PostingLines
  <2>4. CASE row.type \in {"buy", "fee"}
    BY <2>1, <2>2, <2>4 DEF PostingLines
  <2>5. CASE row.type = "dividend"
    BY <2>1, <2>5 DEF PostingLines
  <2>6. QED BY <1>2, <2>3, <2>4, <2>5 DEF TxTypes
<1>3. QED BY <1>1, <1>2

-----------------------------------------------------------------------------
(***************************************************************************)
(* What holds of the journal even where a transaction moves between users: *)
(* the tables are well formed, the matches of a sell lie in its scope, and *)
(* the user it belongs to has its one entry.                               *)
(***************************************************************************)
OwnersInv == TypeOK /\ MatchesInScope /\ OwnersEntryCurrent

(***************************************************************************)
(* Posting keeps the entries of the owners: the transactions of P get the  *)
(* entry of their new row, and the others keep one that is still right.    *)
(***************************************************************************)
LEMMA PostingKeepsOwners ==
  ASSUME OwnersEntryCurrent,
         NEW P \in SUBSET TxIds, NEW A \in SUBSET TxIds,
         PostTransactions(P, A),
         \A t \in TxIds \ P : Live(t)' =>
           /\ t \notin A
           /\ Live(t)
           /\ PostedEntry(t, tx', matches') = PostedEntry(t, tx, matches)
  PROVE  OwnersEntryCurrent'
<1>0. \A t \in TxIds : /\ PostedEntry(t, tx', matches').ref = t
                       /\ PostedEntry(t, tx', matches').user = Owner[tx'[t].account]
                       /\ PostedEntry(t, tx, matches).user = Owner[tx[t].account]
  BY DEF PostedEntry
<1> SUFFICES ASSUME NEW t \in TxIds, Live(t)'
             PROVE  {e \in gl' : e.ref = t /\ e.user = Owner[tx'[t].account]}
                      = {PostedEntry(t, tx', matches')}
  BY DEF OwnersEntryCurrent, EntriesOf
<1>1. CASE t \in P
  <2>1. ASSUME NEW e \in gl', e.ref = t, e.user = Owner[tx'[t].account]
        PROVE  e = PostedEntry(t, tx', matches')
    <3>1. CASE e \in gl /\ ~\E u \in P : IsEntryOf(e, u, tx')
      BY <1>1, <2>1, <3>1 DEF IsEntryOf
    <3>2. CASE e \in {PostedEntry(u, tx', matches') : u \in P}
      BY <1>0, <2>1, <3>2
    <3>3. QED BY <3>1, <3>2 DEF PostTransactions
  <2>2. PostedEntry(t, tx', matches') \in gl'
    BY <1>1 DEF PostTransactions
  <2>3. QED BY <1>0, <2>1, <2>2
<1>2. CASE t \notin P
  <2>1. /\ t \notin A /\ Live(t)
        /\ PostedEntry(t, tx', matches') = PostedEntry(t, tx, matches)
    BY <1>2
  <2>2. Owner[tx'[t].account] = Owner[tx[t].account]
    BY <1>0, <2>1
  <2>3. {e \in gl : e.ref = t /\ e.user = Owner[tx[t].account]}
          = {PostedEntry(t, tx, matches)}
    BY <2>1 DEF OwnersEntryCurrent, EntriesOf
  <2>4. \A e \in gl : e.ref = t => e \in gl'
    BY <1>2, <2>1 DEF PostTransactions, IsEntryOf
  <2>5. \A e \in gl' : e.ref = t => e \in gl
    BY <1>0, <1>2 DEF PostTransactions
  <2>6. QED BY <2>1, <2>2, <2>3, <2>4, <2>5
<1>3. QED BY <1>1, <1>2

(***************************************************************************)
(* Posting leaves no entry behind, where rows stay with their owner and    *)
(* the entries of removed rows are archived.                               *)
(***************************************************************************)
LEMMA PostingKeepsOwned ==
  ASSUME TypeOK, EntriesOwned,
         NEW P \in SUBSET TxIds, NEW A \in SUBSET TxIds,
         PostTransactions(P, A),
         \A t \in P : tx'[t] # NoTx,
         \A t \in TxIds : tx[t] # NoTx /\ tx'[t] # NoTx =>
           Owner[tx'[t].account] = Owner[tx[t].account],
         \A t \in TxIds : tx[t] # NoTx /\ tx'[t] = NoTx => t \in A
  PROVE  EntriesOwned'
<1>0. /\ \A e \in gl : e.ref \in TxIds /\ tx[e.ref] # NoTx
                       /\ e.user = Owner[tx[e.ref].account]
      /\ \A t \in TxIds : /\ PostedEntry(t, tx', matches').ref = t
                          /\ PostedEntry(t, tx', matches').user =
                               Owner[tx'[t].account]
  BY DEF TypeOK, EntriesOwned, Exists, PostedEntry
<1> SUFFICES ASSUME NEW e \in gl'
             PROVE  tx'[e.ref] # NoTx /\ e.user = Owner[tx'[e.ref].account]
  BY DEF EntriesOwned, Exists
<1>1. CASE e \in gl /\ ~\E t \in A : IsEntryOf(e, t, tx)
  <2>1. tx'[e.ref] # NoTx
    BY <1>0, <1>1 DEF IsEntryOf
  <2>2. QED BY <1>0, <1>1, <2>1
<1>2. CASE e \in {PostedEntry(t, tx', matches') : t \in P}
  BY <1>0, <1>2
<1>3. QED BY <1>1, <1>2 DEF PostTransactions

\* With nothing left behind, an owner's entry is the only one.
LEMMA JournalIsOwned == JournalInv <=> OwnersInv /\ EntriesOwned
<1>1. ASSUME EntriesOwned, NEW t
      PROVE  {e \in EntriesOf(t) : e.user = Owner[tx[t].account]} = EntriesOf(t)
  BY <1>1 DEF EntriesOwned, EntriesOf
<1>2. QED BY <1>1 DEF JournalInv, OwnersInv, LiveEntriesCurrent, OwnersEntryCurrent

(***************************************************************************)
(* A replay of the scopes S leaves the cost basis of every sell that it    *)
(* does not post again, provided a row that changed was in a scope of S.   *)
(***************************************************************************)
LEMMA RebuildKeepsMatches ==
  ASSUME OwnersInv, NEW S \in SUBSET Scopes, RebuildScopes(S),
         \A t \in TxIds : tx[t] # NoTx /\ tx'[t] # tx[t] =>
           ScopesOf(tx[t]) \subseteq S
  PROVE  /\ MatchesInScope'
         /\ \A t \in TxIds \ Reposted(S) :
              Live(t)' /\ tx'[t] = tx[t] =>
                PostedEntry(t, tx', matches') = PostedEntry(t, tx, matches)
<1>0. /\ \A m \in matches : /\ m.sell \in TxIds /\ tx[m.sell] # NoTx
                            /\ m.scope \in ScopesOf(tx[m.sell])
      /\ \A s \in S : \A m \in ReplayedMatches(tx', s) :
           m.scope = s /\ m.sell \in LiveSells(tx', s)
  BY DEF OwnersInv, TypeOK, MatchesInScope, Exists, ReplayedMatches, MatchRow
<1>1. MatchesInScope'
  <2> SUFFICES ASSUME NEW m \in matches'
               PROVE  /\ tx'[m.sell] # NoTx
                      /\ m.scope \in ScopesOf(tx'[m.sell])
    BY DEF MatchesInScope, Exists
  <2>1. CASE m \in matches /\ m.scope \notin S
    BY <1>0, <2>1
  <2>2. CASE \E s \in S : m \in ReplayedMatches(tx', s)
    BY <1>0, <2>2 DEF LiveSells, LiveTrades, ScopedIds
  <2>3. QED BY <2>1, <2>2 DEF RebuildScopes
<1>2. ASSUME NEW t \in TxIds \ Reposted(S), Live(t)', tx'[t] = tx[t]
      PROVE  PostedEntry(t, tx', matches') = PostedEntry(t, tx, matches)
  <2>1. CASE tx[t].type # "sell"
    BY <1>2, <2>1 DEF PostedEntry, PostingLines
  <2>2. CASE tx[t].type = "sell"
    <3>1. \A s \in S : t \notin ScopedIds(tx', s)
      BY <1>2, <2>2 DEF Reposted, LiveSells, LiveTrades, Live
    <3>2. \A s \in S : s \notin ScopesOf(tx[t])
      BY <1>2, <3>1 DEF ScopedIds, Live, Exists
    <3>3. \A m \in matches : m.sell = t => m \in matches'
      BY <1>0, <3>1, <3>2 DEF RebuildScopes
    <3>4. \A m \in matches' : m.sell = t => m \in matches
      BY <1>0, <3>1 DEF RebuildScopes, LiveSells, LiveTrades
    <3>5. MatchesOf(t, matches') = MatchesOf(t, matches)
      BY <3>3, <3>4 DEF MatchesOf
    <3>6. QED BY <1>2, <3>5 DEF PostedEntry, HistoricalCost
  <2>3. QED BY <2>1, <2>2
<1>3. QED BY <1>1, <1>2

-----------------------------------------------------------------------------
(***************************************************************************)
(* The actions.  Each one meets the hypotheses of the two lemmas with its  *)
(* own set of replayed scopes and posted transactions.                     *)
(***************************************************************************)
\* What inserting a new row means for the table and for the matches.
LEMMA InsertFacts ==
  ASSUME OwnersInv, NEW t \in TxIds, NEW r \in NewRows, Insert(t, r)
  PROVE  /\ tx' \in [TxIds -> TxRow \cup {NoTx}]
         /\ tx[t] = NoTx
         /\ tx'[t] = r /\ r \in TxRow /\ r # NoTx /\ Live(t)'
         /\ \A u \in TxIds : u # t => tx'[u] = tx[u]
         /\ \A m \in matches : m.sell # t
  BY NoTxIsNoRow
     DEF NewRows, OwnersInv, TypeOK, Insert, Exists, Live, MatchesInScope

(***************************************************************************)
(* A create that touches only its own matches.                             *)
(***************************************************************************)
LEMMA IncrementalCreate ==
  ASSUME OwnersInv, NEW t \in TxIds, NEW r \in NewRows, Insert(t, r),
         \A m \in matches : m \in matches',
         \A m \in matches' : m \in matches \/
           (m.sell = t /\ m.scope \in ScopesOf(r)),
         \A l \in lots' : l.scope \in Scopes,
         \A p \in positions' : p.scope \in Scopes /\ p.open \in BOOLEAN,
         PostTransactions({t}, {})
  PROVE  OwnersInv'
<1>0. /\ tx' \in [TxIds -> TxRow \cup {NoTx}]
      /\ tx[t] = NoTx
      /\ tx'[t] = r /\ r \in TxRow /\ r # NoTx /\ Live(t)'
      /\ \A u \in TxIds : u # t => tx'[u] = tx[u]
      /\ \A m \in matches : m.sell # t
  BY InsertFacts
<1>1. MatchesInScope'
  BY <1>0 DEF OwnersInv, TypeOK, MatchesInScope, Exists
<1>2. TypeOK'
  <2>1. \A m \in matches' : m.scope \in Scopes /\ m.sell \in TxIds
    BY <1>0 DEF OwnersInv, TypeOK, ScopesOf
  <2>2. \A e \in gl' :
          e.ref \in TxIds /\ e.account \in Accounts /\ e.date \in Nat
    BY <1>0, PostingTypeOK, {t} \in SUBSET TxIds DEF OwnersInv
  <2>3. QED BY <1>0, <2>1, <2>2 DEF TypeOK
<1>3. ASSUME NEW u \in TxIds \ {t}, Live(u)'
      PROVE  /\ Live(u)
             /\ PostedEntry(u, tx', matches') = PostedEntry(u, tx, matches)
  <2>1. tx'[u] = tx[u] /\ Live(u)
    BY <1>0, <1>3 DEF Live, Exists
  <2>2. MatchesOf(u, matches') = MatchesOf(u, matches)
    BY DEF MatchesOf
  <2>3. QED BY <2>1, <2>2 DEF PostedEntry, HistoricalCost
<1>4. OwnersEntryCurrent'
  <2>1. /\ {t} \in SUBSET TxIds
        /\ {} \in SUBSET TxIds
        /\ \A u \in TxIds \ {t} : Live(u)' =>
             /\ u \notin {}
             /\ Live(u)
             /\ PostedEntry(u, tx', matches') = PostedEntry(u, tx, matches)
    BY <1>0, <1>3
  <2>2. QED BY <2>1, PostingKeepsOwners DEF OwnersInv
<1>5. QED BY <1>1, <1>2, <1>4 DEF OwnersInv

(***************************************************************************)
(* An operation that replays scopes: one row t changes, the scopes of its  *)
(* old row are among those replayed, and the old entry of t is replaced or *)
(* archived.                                                               *)
(***************************************************************************)
LEMMA ReplayingStep ==
  ASSUME OwnersInv, NEW t \in TxIds, NEW S \in SUBSET Scopes,
         NEW E \in SUBSET {t}, NEW A \in SUBSET {t},
         tx' \in [TxIds -> TxRow \cup {NoTx}],
         \A u \in TxIds : u # t => tx'[u] = tx[u],
         tx[t] # NoTx => ScopesOf(tx[t]) \subseteq S,
         RebuildScopes(S),
         PostTransactions(Reposted(S) \cup E, A),
         E # {} => tx'[t] # NoTx,
         Live(t)' => t \in Reposted(S) \cup E
  PROVE  OwnersInv'
<1>1. Reposted(S) \cup E \in SUBSET TxIds
  BY DEF Reposted, LiveSells, LiveTrades, ScopedIds
<1>2. \A u \in Reposted(S) \cup E : tx'[u] # NoTx
  BY DEF Reposted, LiveSells, LiveTrades, ScopedIds
<1>3. MatchesInScope'
      /\ \A u \in TxIds \ Reposted(S) : Live(u)' /\ tx'[u] = tx[u] =>
           PostedEntry(u, tx', matches') = PostedEntry(u, tx, matches)
  <2>1. \A u \in TxIds : tx[u] # NoTx /\ tx'[u] # tx[u] =>
          ScopesOf(tx[u]) \subseteq S
    OBVIOUS
  <2>2. QED BY <2>1, RebuildKeepsMatches
<1>4. TypeOK'
  <2>1. /\ \A l \in lots' : l.scope \in Scopes
        /\ \A m \in matches' : m.scope \in Scopes /\ m.sell \in TxIds
        /\ \A p \in positions' : p.scope \in Scopes /\ p.open \in BOOLEAN
    BY RebuildTypeOK DEF OwnersInv
  <2>2. \A u \in Reposted(S) \cup E : tx'[u] \in TxRow
    BY <1>1, <1>2
  <2>3. \A e \in gl' :
          e.ref \in TxIds /\ e.account \in Accounts /\ e.date \in Nat
    BY <1>1, <2>2, PostingTypeOK DEF OwnersInv
  <2>4. QED BY <2>1, <2>3 DEF TypeOK
<1>5. \A u \in TxIds \ (Reposted(S) \cup E) : Live(u)' =>
        /\ u \notin A
        /\ Live(u)
        /\ PostedEntry(u, tx', matches') = PostedEntry(u, tx, matches)
  BY <1>3 DEF Live, Exists
<1>6. OwnersEntryCurrent'
  <2>1. A \in SUBSET TxIds
    OBVIOUS
  <2>2. QED BY <1>1, <1>5, <2>1, PostingKeepsOwners DEF OwnersInv
<1>7. QED BY <1>3, <1>4, <1>6 DEF OwnersInv

(***************************************************************************)
(* create, on each of its four paths, posts the new transaction and leaves *)
(* every other entry right.                                                *)
(***************************************************************************)
LEMMA CreateKeepsOwners ==
  ASSUME OwnersInv, NEW t \in TxIds, NEW r \in NewRows, Create(t, r)
  PROVE  OwnersInv'
<1>1. CASE CreateCashMovement(t, r)
  <2>1. Insert(t, r) /\ PostTransactions({t}, {})
        /\ lots' = lots /\ matches' = matches /\ positions' = positions
    BY <1>1 DEF CreateCashMovement
  <2>2. /\ \A l \in lots' : l.scope \in Scopes
        /\ \A p \in positions' : p.scope \in Scopes /\ p.open \in BOOLEAN
    BY <2>1 DEF OwnersInv, TypeOK
  <2>3. QED BY <2>1, <2>2, IncrementalCreate
<1>2. CASE CreateBuyIncrementally(t, r)
  <2>1. PICK s \in ScopesOf(r) :
          /\ SyncPosition(s, r)
          /\ lots' = lots \cup
               {LotRow(s, [src |-> t, orig |-> r.qty, rem |-> r.qty,
                           unit |-> r.amount \div r.qty,
                           openedAt |-> r.time])}
    BY <1>2 DEF CreateBuyIncrementally
  <2>2. Insert(t, r) /\ PostTransactions({t}, {}) /\ matches' = matches
    BY <1>2 DEF CreateBuyIncrementally
  <2>3. s \in Scopes
    BY DEF ScopesOf
  <2>4. \A l \in lots' : l.scope \in Scopes
    BY <2>1, <2>3 DEF OwnersInv, TypeOK, LotRow
  <2>5. \A p \in positions' : p.scope \in Scopes /\ p.open \in BOOLEAN
    <3>1. CASE positions' = positions
                 \cup {PositionRow(s, r.qty, r.amount, r.time, TRUE)}
      <4>1. /\ PositionRow(s, r.qty, r.amount, r.time, TRUE).scope = s
            /\ PositionRow(s, r.qty, r.amount, r.time, TRUE).open = TRUE
        BY DEF PositionRow
      <4>2. QED BY <2>3, <3>1, <4>1 DEF OwnersInv, TypeOK
    <3>2. ASSUME NEW p \in positions, IsActivePosition(p, s),
                 positions' = (positions \ {p})
                   \cup {PositionRow(s, p.qty + r.qty, p.cost + r.amount,
                                     p.openedAt, TRUE)}
          PROVE  \A q \in positions' : q.scope \in Scopes /\ q.open \in BOOLEAN
      <4> DEFINE new == PositionRow(s, p.qty + r.qty, p.cost + r.amount,
                                    p.openedAt, TRUE)
      <4>1. new.scope = s /\ new.open = TRUE
        BY DEF PositionRow
      <4> HIDE DEF new
      <4>2. positions' = (positions \ {p}) \cup {new}
        BY <3>2 DEF new
      <4>3. QED BY <2>3, <4>1, <4>2 DEF OwnersInv, TypeOK
    <3>3. QED BY <2>1, <3>1, <3>2 DEF SyncPosition
  <2>6. QED BY <2>2, <2>4, <2>5, IncrementalCreate
<1>3. CASE CreateSellIncrementally(t, r)
  <2>1. PICK s \in ScopesOf(r), p \in positions :
          \E order \in FifoOrders(s) : ConsumeOpenLots(s, p, t, r, order)
    BY <1>3 DEF CreateSellIncrementally
  <2>1a. PICK order \in FifoOrders(s) : ConsumeOpenLots(s, p, t, r, order)
    BY <2>1
  <2>2. Insert(t, r) /\ PostTransactions({t}, {})
    BY <1>3 DEF CreateSellIncrementally
  <2>3. s \in Scopes
    BY DEF ScopesOf
  <2>4. \A l \in lots' : l.scope \in Scopes
    BY <2>1a, <2>3 DEF ConsumeOpenLots, LotRow, OwnersInv, TypeOK
  <2>5. /\ \A m \in matches : m \in matches'
        /\ \A m \in matches' : m \in matches \/
             (m.sell = t /\ m.scope \in ScopesOf(r))
    BY <2>1a DEF ConsumeOpenLots, MatchRow
  <2>6. \A q \in positions' : q.scope \in Scopes /\ q.open \in BOOLEAN
    <3> DEFINE open == SumOpenQuantity(Consume(order, r.qty).lots)
               new  == PositionRow(s, open,
                         SumOpenCost(Consume(order, r.qty).lots),
                         p.openedAt, open > 0)
    <3>1. positions' = (positions \ {p}) \cup {new}
      BY <2>1a DEF ConsumeOpenLots
    <3>2. new.scope = s /\ new.open = (open > 0)
      BY DEF PositionRow
    <3>3. (open > 0) \in BOOLEAN
      OBVIOUS
    <3> HIDE DEF new, open
    <3>4. QED BY <2>3, <3>1, <3>2, <3>3 DEF OwnersInv, TypeOK
  <2>7. QED BY <2>2, <2>4, <2>5, <2>6, IncrementalCreate
<1>4. CASE CreateWithReplay(t, r)
  <2>1. PICK s \in ScopesOf(r) :
          RebuildScopes({s}) /\ PostTransactions(Reposted({s}) \cup {t}, {})
    BY <1>4 DEF CreateWithReplay
  <2>2. Insert(t, r)
    BY <1>4 DEF CreateWithReplay
  <2>3. /\ tx' \in [TxIds -> TxRow \cup {NoTx}]
        /\ tx[t] = NoTx /\ tx'[t] # NoTx
        /\ \A u \in TxIds : u # t => tx'[u] = tx[u]
    BY <2>2, InsertFacts
  <2>4. {s} \in SUBSET Scopes /\ {t} \in SUBSET {t} /\ {} \in SUBSET {t}
    BY DEF ScopesOf
  <2>5. QED BY <2>1, <2>3, <2>4, ReplayingStep
<1>5. QED BY <1>1, <1>2, <1>3, <1>4 DEF Create

(***************************************************************************)
(* update posts the changed row, by itself or with the sells of the scopes *)
(* it replays.                                                             *)
(***************************************************************************)
LEMMA UpdateKeepsOwners ==
  ASSUME OwnersInv, NEW t \in TxIds, NEW r \in NewRows, Update(t, r)
  PROVE  OwnersInv'
<1> DEFINE S == ScopesOf(tx[t]) \cup ScopesOf(r)
           E == IF ScopesOf(r) # {} /\ r.type = "sell" THEN {} ELSE {t}
           row == [r EXCEPT !.deleted = tx[t].deleted]
<1>1. /\ tx[t] # NoTx /\ tx[t] \in TxRow
      /\ r \in TxRow
      /\ tx' = [tx EXCEPT ![t] = row]
      /\ RebuildScopes(S)
      /\ PostTransactions(Reposted(S) \cup E, {})
  BY DEF NewRows, OwnersInv, TypeOK, Update, UpdateScopes, Exists
<1>2. row \in TxRow /\ row # NoTx /\ row.account = r.account
      /\ row.type = r.type /\ row.asset = r.asset
  BY <1>1, NoTxIsNoRow DEF TxRow
<1>3. /\ tx' \in [TxIds -> TxRow \cup {NoTx}]
      /\ tx'[t] = row
      /\ \A u \in TxIds : u # t => tx'[u] = tx[u]
  BY <1>1, <1>2 DEF OwnersInv, TypeOK
<1>4. S \in SUBSET Scopes /\ E \in SUBSET {t}
  BY DEF ScopesOf
<1>5. Live(t)' => t \in Reposted(S) \cup E
  <2>1. ASSUME Live(t)', E = {}
        PROVE  t \in Reposted(S)
    <3>1. PICK s \in ScopesOf(r) : r.type = "sell"
      BY <2>1
    <3>2. s \in ScopesOf(tx'[t])
      BY <1>2, <1>3, <3>1 DEF ScopesOf
    <3>3. t \in LiveSells(tx', s)
      BY <1>2, <1>3, <2>1, <3>1, <3>2
         DEF LiveSells, LiveTrades, ScopedIds, Live, Exists
    <3>4. QED BY <3>3 DEF Reposted
  <2>2. QED BY <2>1
<1>6. /\ tx[t] # NoTx => ScopesOf(tx[t]) \subseteq S
      /\ E # {} => tx'[t] # NoTx
      /\ {} \in SUBSET {t}
  BY <1>1, <1>2, <1>3
<1> HIDE DEF S, E, row
<1>7. QED BY <1>1, <1>3, <1>4, <1>5, <1>6, ReplayingStep

(***************************************************************************)
(* remove and hardDelete archive the entry and replay the scope the        *)
(* transaction was in.                                                     *)
(***************************************************************************)
LEMMA DeleteKeepsOwners ==
  ASSUME OwnersInv, NEW t \in TxIds, SoftDelete(t) \/ HardDelete(t)
  PROVE  OwnersInv'
<1> DEFINE S == ScopesOf(tx[t])
<1>1. /\ tx[t] # NoTx /\ tx[t] \in TxRow
      /\ RebuildScopes(S)
      /\ PostTransactions(Reposted(S), {t})
      /\ tx' = [tx EXCEPT ![t].deleted = TRUE] \/ tx' = [tx EXCEPT ![t] = NoTx]
  BY DEF OwnersInv, TypeOK, SoftDelete, HardDelete, Exists
<1>2. S \in SUBSET Scopes
  BY DEF ScopesOf
<1>3. /\ tx' \in [TxIds -> TxRow \cup {NoTx}]
      /\ \A u \in TxIds : u # t => tx'[u] = tx[u]
      /\ tx'[t] # NoTx => tx'[t].account = tx[t].account
      /\ ~Live(t)'
  <2>1. CASE tx' = [tx EXCEPT ![t].deleted = TRUE]
    <3> DEFINE row == [tx[t] EXCEPT !.deleted = TRUE]
    <3>1. row \in TxRow /\ row.account = tx[t].account /\ row.deleted
      BY <1>1 DEF TxRow
    <3>2. tx' = [tx EXCEPT ![t] = row]
      BY <2>1
    <3> HIDE DEF row
    <3>3. QED BY <3>1, <3>2 DEF OwnersInv, TypeOK, Live
  <2>2. CASE tx' = [tx EXCEPT ![t] = NoTx]
    BY <2>2 DEF OwnersInv, TypeOK, Live, Exists
  <2>3. QED BY <1>1, <2>1, <2>2
<1>4. PostTransactions(Reposted(S) \cup {}, {t})
  <2>1. Reposted(S) \cup {} = Reposted(S)
    OBVIOUS
  <2>2. QED BY <1>1, <2>1
<1>5. /\ {} \in SUBSET {t} /\ {t} \in SUBSET {t}
      /\ tx[t] # NoTx => ScopesOf(tx[t]) \subseteq S
  BY <1>3
<1> HIDE DEF S
<1>6. QED BY <1>1, <1>2, <1>3, <1>4, <1>5, ReplayingStep

(***************************************************************************)
(* The same operations leave no entry behind, as long as an update stays   *)
(* among the accounts of one owner.                                        *)
(***************************************************************************)
LEMMA CreateKeepsJournal ==
  ASSUME JournalInv, NEW t \in TxIds, NEW r \in NewRows, Create(t, r)
  PROVE  JournalInv'
<1>1. OwnersInv /\ EntriesOwned
  BY JournalIsOwned
<1>2. OwnersInv'
  BY <1>1, CreateKeepsOwners
<1>3. PICK P \in SUBSET TxIds : PostTransactions(P, {}) /\ \A u \in P : tx'[u] # NoTx
  <2>1. Insert(t, r)
    BY DEF Create, CreateCashMovement, CreateBuyIncrementally,
           CreateSellIncrementally, CreateWithReplay
  <2>2. tx'[t] # NoTx
    BY <1>1, <2>1, InsertFacts
  <2>3. CASE PostTransactions({t}, {})
    BY <2>2, <2>3
  <2>4. ASSUME NEW s, PostTransactions(Reposted({s}) \cup {t}, {})
        PROVE  \E P \in SUBSET TxIds :
                 PostTransactions(P, {}) /\ \A u \in P : tx'[u] # NoTx
    <3>1. Reposted({s}) \cup {t} \in SUBSET TxIds
          /\ \A u \in Reposted({s}) \cup {t} : tx'[u] # NoTx
      BY <2>2 DEF Reposted, LiveSells, LiveTrades, ScopedIds
    <3>2. QED BY <2>4, <3>1
  <2>5. QED BY <2>3, <2>4 DEF Create, CreateCashMovement, CreateBuyIncrementally,
                              CreateSellIncrementally, CreateWithReplay
<1>4. \A u \in TxIds : tx[u] # NoTx => tx'[u] = tx[u]
  <2>1. Insert(t, r)
    BY DEF Create, CreateCashMovement, CreateBuyIncrementally,
           CreateSellIncrementally, CreateWithReplay
  <2>2. QED BY <1>1, <2>1, InsertFacts
<1>5. EntriesOwned'
  <2>1. {} \in SUBSET TxIds
    OBVIOUS
  <2>2. QED BY <1>1, <1>3, <1>4, <2>1, PostingKeepsOwned DEF OwnersInv
<1>6. QED BY <1>2, <1>5, JournalIsOwned, PTL

LEMMA UpdateKeepsJournal ==
  ASSUME JournalInv, NEW t \in TxIds, NEW r \in NewRows, UpdateOwn(t, r)
  PROVE  JournalInv'
<1> DEFINE S == UpdateScopes(tx[t], r)
           P == Reposted(S) \cup (IF ScopesOf(r) # {} /\ r.type = "sell"
                                    THEN {} ELSE {t})
<1>1. OwnersInv /\ EntriesOwned
  BY JournalIsOwned
<1>2. OwnersInv'
  BY <1>1, UpdateKeepsOwners DEF UpdateOwn
<1>3. /\ PostTransactions(P, {})
      /\ tx' = [tx EXCEPT ![t] = [r EXCEPT !.deleted = tx[t].deleted]]
      /\ Owner[r.account] = Owner[tx[t].account]
  BY DEF UpdateOwn, Update
<1>4. /\ tx'[t] # NoTx /\ tx'[t].account = r.account
      /\ \A u \in TxIds : u # t => tx'[u] = tx[u]
  <2> DEFINE row == [r EXCEPT !.deleted = tx[t].deleted]
  <2>1. tx[t] \in TxRow /\ r \in TxRow
    BY <1>1 DEF OwnersInv, TypeOK, UpdateOwn, Update, Exists, NewRows
  <2>2. row \in TxRow /\ row.account = r.account
    BY <2>1 DEF TxRow
  <2>3. tx' = [tx EXCEPT ![t] = row]
    BY <1>3
  <2> HIDE DEF row
  <2>4. QED BY <1>1, <2>2, <2>3, NoTxIsNoRow DEF OwnersInv, TypeOK
<1>5. P \in SUBSET TxIds /\ {} \in SUBSET TxIds /\ \A u \in P : tx'[u] # NoTx
  BY <1>4 DEF Reposted, LiveSells, LiveTrades, ScopedIds
<1> HIDE DEF P
<1>6. EntriesOwned'
  BY <1>1, <1>3, <1>4, <1>5, PostingKeepsOwned DEF OwnersInv
<1>7. QED BY <1>2, <1>6, JournalIsOwned, PTL

LEMMA DeleteKeepsJournal ==
  ASSUME JournalInv, NEW t \in TxIds, SoftDelete(t) \/ HardDelete(t)
  PROVE  JournalInv'
<1> DEFINE P == Reposted(ScopesOf(tx[t]))
<1>1. OwnersInv /\ EntriesOwned
  BY JournalIsOwned
<1>2. OwnersInv'
  BY <1>1, DeleteKeepsOwners
<1>3. /\ PostTransactions(P, {t}) /\ Exists(t)
      /\ \/ tx' = [tx EXCEPT ![t].deleted = TRUE]
         \/ tx' = [tx EXCEPT ![t] = NoTx]
  BY DEF SoftDelete, HardDelete
<1>4. /\ \A u \in TxIds : u # t => tx'[u] = tx[u]
      /\ tx'[t] # NoTx => tx'[t].account = tx[t].account
  <2>1. tx[t] \in TxRow
    BY <1>1, <1>3 DEF OwnersInv, TypeOK, Exists
  <2>2. CASE tx' = [tx EXCEPT ![t].deleted = TRUE]
    <3>1. tx'[t].account = tx[t].account
      BY <1>1, <2>1, <2>2 DEF OwnersInv, TypeOK, TxRow
    <3>2. QED BY <1>1, <2>2, <3>1 DEF OwnersInv, TypeOK
  <2>3. CASE tx' = [tx EXCEPT ![t] = NoTx]
    BY <1>1, <2>3 DEF OwnersInv, TypeOK
  <2>4. QED BY <1>3, <2>2, <2>3
<1>5. P \in SUBSET TxIds /\ {t} \in SUBSET TxIds /\ \A u \in P : tx'[u] # NoTx
  BY DEF Reposted, LiveSells, LiveTrades, ScopedIds
<1> HIDE DEF P
<1>6. EntriesOwned'
  BY <1>1, <1>3, <1>4, <1>5, PostingKeepsOwned DEF OwnersInv
<1>7. QED BY <1>2, <1>6, JournalIsOwned, PTL

(***************************************************************************)
(* The empty book has an empty journal.                                    *)
(***************************************************************************)
LEMMA InitJournal == Init => JournalInv
  BY DEF Init, JournalInv, TypeOK, MatchesInScope, EntriesOwned,
         LiveEntriesCurrent, Live, Exists

(***************************************************************************)
(* The book and its journal agree in every reachable state, for any sets   *)
(* of accounts, assets, identifiers and inputs.                            *)
(***************************************************************************)
THEOREM JournalInvariant == Spec => []JournalInv
<1>1. ASSUME JournalInv, [Next]_vars
      PROVE  JournalInv'
  <2>1. CASE UNCHANGED vars
    BY <1>1, <2>1 DEF vars, JournalInv, TypeOK, MatchesInScope, EntriesOwned,
       LiveEntriesCurrent, EntriesOf, Live, Exists
  <2>2. ASSUME NEW t \in TxIds, NEW r \in Inputs, Create(t, r)
        PROVE  JournalInv'
    BY <1>1, <2>2, CreateKeepsJournal, InputsAreRows
  <2>3. ASSUME NEW t \in TxIds, NEW r \in Inputs, UpdateOwn(t, r)
        PROVE  JournalInv'
    BY <1>1, <2>3, UpdateKeepsJournal, InputsAreRows
  <2>4. ASSUME NEW t \in TxIds, SoftDelete(t) \/ HardDelete(t)
        PROVE  JournalInv'
    BY <1>1, <2>4, DeleteKeepsJournal
  <2>5. QED BY <1>1, <2>1, <2>2, <2>3, <2>4 DEF Next
<1>2. QED BY InitJournal, <1>1, PTL DEF Spec

(***************************************************************************)
(* Where administrators move transactions between users, whoever a live    *)
(* transaction belongs to has exactly one entry of it, the one its row and *)
(* its current matches call for (the former owner keeps one: OwnersInv     *)
(* does without EntriesOwned).                                             *)
(***************************************************************************)
THEOREM OwnersHaveTheirEntry == AdminSpec => []OwnersEntryCurrent
<1>1. ASSUME OwnersInv, [AdminNext]_vars PROVE OwnersInv'
  <2>1. CASE UNCHANGED vars
    BY <1>1, <2>1 DEF vars, OwnersInv, TypeOK, MatchesInScope, OwnersEntryCurrent,
       EntriesOf, Live, Exists
  <2>2. ASSUME NEW t \in TxIds, NEW r \in Inputs, Create(t, r)
        PROVE  OwnersInv'
    BY <1>1, <2>2, CreateKeepsOwners, InputsAreRows
  <2>3. ASSUME NEW t \in TxIds, NEW r \in Inputs, Update(t, r)
        PROVE  OwnersInv'
    BY <1>1, <2>3, UpdateKeepsOwners, InputsAreRows
  <2>4. ASSUME NEW t \in TxIds, SoftDelete(t) \/ HardDelete(t)
        PROVE  OwnersInv'
    BY <1>1, <2>4, DeleteKeepsOwners
  <2>5. QED BY <1>1, <2>1, <2>2, <2>3, <2>4 DEF AdminNext, Next, UpdateOwn
<1>2. Init => OwnersInv
  BY InitJournal, JournalIsOwned
<1>3. OwnersInv => OwnersEntryCurrent
  BY DEF OwnersInv
<1>4. QED BY <1>1, <1>2, <1>3, PTL DEF AdminSpec

(***************************************************************************)
(* Type correctness of the tables.                                         *)
(***************************************************************************)
THEOREM TypeCorrect == Spec => []TypeOK
<1>1. JournalInv => TypeOK
  BY DEF JournalInv
<1>2. QED BY <1>1, JournalInvariant, PTL

(***************************************************************************)
(* create, update and delete keep the journal in sync: every live          *)
(* transaction has exactly one entry, and it is the one its row and its    *)
(* current FIFO matches call for.                                          *)
(***************************************************************************)
THEOREM JournalMirrorsLiveTransactions == Spec => []LiveEntriesCurrent
<1>1. JournalInv => LiveEntriesCurrent
  BY DEF JournalInv
<1>2. QED BY <1>1, JournalInvariant, PTL

-----------------------------------------------------------------------------
\* A nonempty set of numbers has a least one.
LEMMA LeastNumber ==
  ASSUME NEW S \in SUBSET Nat, S # {}
  PROVE  \E k \in S : \A m \in S : k <= m
<1>1. PICK k \in S : \A m \in S : ~ (<<m, k>> \in OpToRel(<, Nat))
  BY NatLessThanWellFounded, WFMin
<1>2. ASSUME NEW m \in S PROVE k <= m
  <2>1. k \in Nat /\ m \in Nat /\ ~ (<<m, k>> \in OpToRel(<, Nat))
    BY <1>1
  <2>2. QED BY <2>1 DEF OpToRel
<1>3. QED BY <1>2

(***************************************************************************)
(* What holds at 0 and goes from each place to the next holds everywhere.  *)
(***************************************************************************)
LEMMA PlaceByPlace ==
  ASSUME NEW n \in Nat, NEW A, 0 \in A,
         \A i \in 1..n : i - 1 \in A => i \in A
  PROVE  0..n \subseteq A
<1> DEFINE Bad == {i \in 0..n : i \notin A}
<1>1. ASSUME Bad # {} PROVE FALSE
  <2>1. PICK i \in Bad : \A j \in Bad : i <= j
    <3>1. Bad \in SUBSET Nat
      OBVIOUS
    <3> HIDE DEF Bad
    <3>2. QED BY <1>1, <3>1, LeastNumber
  <2>2. i \in 1..n /\ i - 1 \in 0..n
    OBVIOUS
  <2>3. i - 1 \notin Bad
    <3>1. i - 1 < i
      BY <2>2
    <3> HIDE DEF Bad
    <3>2. QED BY <2>1, <2>2, <3>1
  <2>4. QED BY <2>2, <2>3
<1>2. QED BY <1>1

(***************************************************************************)
(* What holds of a subset of a finite set when it holds of its smaller     *)
(* subsets holds of all.                                                   *)
(***************************************************************************)
Grows(A, D) ==
  \A s \in SUBSET D : (\A r \in SUBSET s : r # s => r \in A) => s \in A

\* A set of subsets that grows from each subset to the next has them all.
LEMMA SubsetBySubset ==
  ASSUME NEW D, IsFiniteSet(D), NEW A, Grows(A, D)
  PROVE  SUBSET D \subseteq A
<1> DEFINE Bad == {Cardinality(s) : s \in {r \in SUBSET D : r \notin A}}
<1>1. ASSUME Bad # {} PROVE FALSE
  <2>1. Bad \in SUBSET Nat
    <3>1. \A s \in SUBSET D : Cardinality(s) \in Nat
      BY FS_Subset, FS_CardinalityType
    <3>2. QED BY <3>1
  <2>2. PICK k \in Bad : \A j \in Bad : k <= j
    <3> HIDE DEF Bad
    <3>1. QED BY <1>1, <2>1, LeastNumber
  <2>3. PICK s \in SUBSET D : s \notin A /\ k = Cardinality(s)
    BY <2>2
  <2>4. ASSUME NEW r \in SUBSET s, r # s PROVE r \in A
    <3>1. IsFiniteSet(s)
      BY FS_Subset
    <3>2. /\ Cardinality(r) <= Cardinality(s) /\ Cardinality(r) # Cardinality(s)
          /\ IsFiniteSet(r)
      BY <2>4, <3>1, FS_Subset
    <3>3. Cardinality(r) \in Nat /\ Cardinality(s) \in Nat
      BY <3>1, <3>2, FS_CardinalityType
    <3>4. Cardinality(r) \notin Bad
      <4> HIDE DEF Bad
      <4>1. QED BY <2>2, <2>3, <3>2, <3>3
    <3>5. QED BY <3>4
  <2>5. QED BY <2>3, <2>4 DEF Grows
<1>2. QED BY <1>1

-----------------------------------------------------------------------------
(***************************************************************************)
(* Sums.  SumFunction(f) is g[DOMAIN f] for a function g on the subsets of *)
(* the domain that takes one element after the other away.  Such a         *)
(* function exists, and it may take any element away.                      *)
(***************************************************************************)
AnElement(s) == CHOOSE x \in s : TRUE

Sums(g, f) ==
  \A s \in SUBSET DOMAIN f :
    g[s] = IF s = {} THEN 0 ELSE f[AnElement(s)] + g[s \ {AnElement(s)}]

Takes(g, f) ==
  \A s \in SUBSET DOMAIN f : \A x \in s : g[s] = f[x] + g[s \ {x}]

Agree(g, h, s) == g[s] = h[s]

SameOn(f, h, s) == \A x \in s : f[x] = h[x]

\* The chosen element of a nonempty set is in it.
LEMMA AnElementIsIn ==
  ASSUME NEW s, s # {}
  PROVE  AnElement(s) \in s
BY DEF AnElement

\* There is a function that sums numbers of a set that sums stay in.
LEMMA SumExists ==
  ASSUME NEW D, IsFiniteSet(D), NEW T \in SUBSET Int, 0 \in T,
         \A a, b \in T : a + b \in T, NEW f \in [D -> T]
  PROVE  \E g \in [SUBSET D -> T] : Sums(g, f)
<1> DEFINE AtMost(k) == {s \in SUBSET D : Cardinality(s) <= k}
           Level(k, g) == \A s \in AtMost(k) :
             g[s] = IF s = {} THEN 0 ELSE f[AnElement(s)] + g[s \ {AnElement(s)}]
           A == {k \in Nat : \E g \in [AtMost(k) -> T] : Level(k, g)}
           n == Cardinality(D)
<1>0. /\ n \in Nat
      /\ \A s \in SUBSET D : IsFiniteSet(s) /\ Cardinality(s) \in Nat
                               /\ Cardinality(s) <= n
  BY FS_CardinalityType, FS_Subset
<1>1. 0 \in A
  <2> DEFINE g == [s \in AtMost(0) |-> 0]
  <2>1. ASSUME NEW s \in AtMost(0) PROVE s = {}
    <3>1. Cardinality(s) = 0 /\ IsFiniteSet(s)
      BY <1>0
    <3>2. QED BY <3>1, FS_EmptySet
  <2>2. g \in [AtMost(0) -> T] /\ Level(0, g)
    BY <2>1
  <2>3. 0 \in Nat
    OBVIOUS
  <2> HIDE DEF AtMost, Level, g
  <2>4. QED BY <2>2, <2>3
<1>2. ASSUME NEW k \in 1..n, k - 1 \in A PROVE k \in A
  <2>0. k \in Nat /\ k - 1 \in Nat
    BY <1>0
  <2>1. PICK g \in [AtMost(k - 1) -> T] : Level(k - 1, g)
    BY <1>2
  <2> DEFINE h == [s \in AtMost(k) |->
                     IF Cardinality(s) = k THEN f[AnElement(s)] + g[s \ {AnElement(s)}]
                                           ELSE g[s]]
  <2>2. ASSUME NEW s \in SUBSET D, s # {}
        PROVE  AnElement(s) \in D /\ f[AnElement(s)] \in T
               /\ Cardinality(s \ {AnElement(s)}) = Cardinality(s) - 1
    <3>1. AnElement(s) \in s /\ IsFiniteSet(s)
      BY <1>0, <2>2, AnElementIsIn
    <3>2. QED BY <3>1, FS_RemoveElement
  <2>3. ASSUME NEW s \in AtMost(k)
        PROVE  /\ Cardinality(s) # k => s \in AtMost(k - 1)
               /\ Cardinality(s) = k => s # {} /\ s \ {AnElement(s)} \in AtMost(k - 1)
    <3>1. Cardinality(s) \in Nat /\ Cardinality(s) <= k /\ s \in SUBSET D
      BY <1>0
    <3>2. s # {} => Cardinality(s \ {AnElement(s)}) = Cardinality(s) - 1
      BY <2>2, <3>1
    <3>3. Cardinality(s) = k => s # {}
      <4>1. Cardinality({}) = 0 /\ k # 0
        BY FS_EmptySet
      <4>2. QED BY <4>1
    <3>4. QED BY <2>0, <3>1, <3>2, <3>3
  <2>4. h \in [AtMost(k) -> T]
    <3>1. ASSUME NEW s \in AtMost(k) PROVE h[s] \in T
      <4>1. CASE Cardinality(s) = k
        <5>1. /\ s # {} /\ g[s \ {AnElement(s)}] \in T /\ s \in SUBSET D
          BY <2>3, <4>1
        <5>2. f[AnElement(s)] \in T
          BY <2>2, <5>1
        <5>3. QED BY <4>1, <5>1, <5>2
      <4>2. CASE Cardinality(s) # k
        BY <2>3, <4>2
      <4>3. QED BY <4>1, <4>2
    <3>2. QED BY <3>1
  <2>5. ASSUME NEW s \in AtMost(k)
        PROVE  h[s] = IF s = {} THEN 0 ELSE f[AnElement(s)] + h[s \ {AnElement(s)}]
    <3>0. s \in SUBSET D /\ Cardinality(s) \in Nat
      BY <1>0
    <3>1. CASE Cardinality(s) = k
      <4>1. s # {} /\ s \ {AnElement(s)} \in AtMost(k - 1)
        BY <2>3, <3>1
      <4>2. Cardinality(s \ {AnElement(s)}) = k - 1
        BY <2>2, <3>0, <3>1, <4>1
      <4>3. h[s \ {AnElement(s)}] = g[s \ {AnElement(s)}]
        BY <2>0, <4>1, <4>2
      <4>4. QED BY <3>1, <4>1, <4>3
    <3>2. CASE Cardinality(s) # k
      <4>1. s \in AtMost(k - 1) /\ h[s] = g[s]
        BY <2>3, <3>2
      <4>2. g[s] = IF s = {} THEN 0 ELSE f[AnElement(s)] + g[s \ {AnElement(s)}]
        BY <2>1, <4>1
      <4>3. s # {} => h[s \ {AnElement(s)}] = g[s \ {AnElement(s)}]
        <5>1. s # {} => Cardinality(s \ {AnElement(s)}) = Cardinality(s) - 1
          BY <2>2, <3>0
        <5>2. s # {} => s \ {AnElement(s)} \in AtMost(k) /\ Cardinality(s \ {AnElement(s)}) # k
          BY <2>0, <3>0, <5>1
        <5>3. QED BY <5>2
      <4>4. QED BY <4>1, <4>2, <4>3
    <3>3. QED BY <3>1, <3>2
  <2> HIDE DEF h, AtMost
  <2>6. QED BY <2>0, <2>4, <2>5
<1>3. n \in A
  <2> HIDE DEF A, n
  <2>1. 0..n \subseteq A
    BY <1>0, <1>1, <1>2, PlaceByPlace
  <2>2. QED BY <1>0, <2>1
<1>4. AtMost(n) = SUBSET D
  BY <1>0
<1>5. QED BY <1>3, <1>4 DEF Sums

\* Any element may be the one taken away.
LEMMA SumTakes ==
  ASSUME NEW D, IsFiniteSet(D), NEW f \in [D -> Int],
         NEW g \in [SUBSET D -> Int], Sums(g, f)
  PROVE  Takes(g, f)
<1> DEFINE A == {s \in SUBSET D : \A x \in s : g[s] = f[x] + g[s \ {x}]}
<1>1. ASSUME NEW s \in SUBSET D, \A r \in SUBSET s : r # s => r \in A
      PROVE  s \in A
  <2>1. ASSUME NEW x \in s PROVE g[s] = f[x] + g[s \ {x}]
    <3>1. AnElement(s) \in s /\ g[s] = f[AnElement(s)] + g[s \ {AnElement(s)}]
      BY AnElementIsIn DEF Sums
    <3>2. CASE x = AnElement(s)
      BY <3>1, <3>2
    <3>3. CASE x # AnElement(s)
      <4> DEFINE y == AnElement(s)
      <4>1. s \ {y} \in A /\ s \ {x} \in A
        BY <1>1, <3>1
      <4>2. g[s \ {y}] = f[x] + g[(s \ {y}) \ {x}]
            /\ g[s \ {x}] = f[y] + g[(s \ {x}) \ {y}]
        BY <3>1, <3>3, <4>1
      <4>3. g[(s \ {y}) \ {x}] = g[(s \ {x}) \ {y}]
        <5>1. (s \ {y}) \ {x} = (s \ {x}) \ {y}
          OBVIOUS
        <5>2. QED BY <5>1, Zenon
      <4>4. f[x] \in Int /\ f[y] \in Int /\ g[(s \ {y}) \ {x}] \in Int
        BY <3>1
      <4>5. g[s] = f[y] + g[s \ {y}]
        BY <3>1
      <4> HIDE DEF y
      <4>6. QED BY <4>2, <4>3, <4>4, <4>5
    <3>4. QED BY <3>2, <3>3
  <2>2. QED BY <2>1
<1>2. SUBSET D \subseteq A
  <2> HIDE DEF A
  <2>1. Grows(A, D)
    BY <1>1 DEF Grows
  <2>2. QED BY <2>1, SubsetBySubset
<1>3. QED BY <1>2 DEF Takes

\* Two sums of the same numbers are equal.
LEMMA SumsAgree ==
  ASSUME NEW D, NEW f \in [D -> Int], NEW g \in [SUBSET D -> Int],
         IsFiniteSet(D), Sums(g, f),
         NEW E \in SUBSET D, NEW h \in [E -> Int], NEW k \in [SUBSET E -> Int],
         Sums(k, h), SameOn(f, h, E)
  PROVE  Agree(g, k, E)
<1> DEFINE A == {s \in SUBSET E : g[s] = k[s]}
<1>1. ASSUME NEW s \in SUBSET E, \A r \in SUBSET s : r # s => r \in A
      PROVE  s \in A
  <2>1. CASE s = {}
    BY <2>1 DEF Sums
  <2>2. CASE s # {}
    <3>1. AnElement(s) \in s
      BY <2>2, AnElementIsIn
    <3>2. /\ g[s] = f[AnElement(s)] + g[s \ {AnElement(s)}]
          /\ k[s] = h[AnElement(s)] + k[s \ {AnElement(s)}]
      BY <3>1 DEF Sums, SameOn
    <3>3. s \ {AnElement(s)} \in A
      BY <1>1, <3>1
    <3>4. f[AnElement(s)] = h[AnElement(s)]
      BY <3>1 DEF SameOn
    <3>5. QED BY <3>2, <3>3, <3>4
  <2>3. QED BY <2>1, <2>2
<1>2. SUBSET E \subseteq A
  <2> HIDE DEF A
  <2>1. Grows(A, E)
    BY <1>1 DEF Grows
  <2>2. IsFiniteSet(E)
    BY FS_Subset
  <2>3. QED BY <2>1, <2>2, SubsetBySubset
<1>3. QED BY <1>2 DEF Agree

-----------------------------------------------------------------------------
\* SumFunction is such a sum.
LEMMA SumIsSum ==
  ASSUME NEW D, IsFiniteSet(D), NEW f \in [D -> Int],
         NEW g \in [SUBSET D -> Int], Sums(g, f)
  PROVE  SumFunction(f) = g[D]
<1> DEFINE IsSum(h) == h = [s \in SUBSET D |->
             IF s = {} THEN 0
             ELSE f[CHOOSE x \in s : TRUE] + h[s \ {CHOOSE x \in s : TRUE}]]
<1>1. SumFunction(f) = (CHOOSE h : IsSum(h))[D]
  BY DEF SumFunction, SumFunctionOnSet, FoldFunctionOnSet, MapThenFoldSet
<1>2. \E h : IsSum(h)
  <2>1. IsSum(g)
    BY DEF Sums, AnElement
  <2> HIDE DEF IsSum
  <2>2. QED BY <2>1
<1>3. PICK h : h = (CHOOSE k : IsSum(k)) /\ IsSum(h)
  <2> HIDE DEF IsSum
  <2>1. QED BY <1>2
<1>4. DOMAIN f = D /\ DOMAIN h = SUBSET D
  BY <1>3
<1>5. \A s \in SUBSET D :
        h[s] = IF s = {} THEN 0 ELSE f[AnElement(s)] + h[s \ {AnElement(s)}]
  BY <1>3 DEF AnElement
<1> DEFINE A == {s \in SUBSET D : h[s] = g[s]}
<1>6. ASSUME NEW s \in SUBSET D, \A r \in SUBSET s : r # s => r \in A
      PROVE  s \in A
  <2>1. CASE s = {}
    BY <1>5, <2>1 DEF Sums
  <2>2. CASE s # {}
    <3>1. AnElement(s) \in s
      BY <2>2, AnElementIsIn
    <3>2. /\ g[s] = f[AnElement(s)] + g[s \ {AnElement(s)}]
          /\ h[s] = f[AnElement(s)] + h[s \ {AnElement(s)}]
      BY <1>4, <1>5, <3>1 DEF Sums
    <3>3. s \ {AnElement(s)} \in A
      BY <1>6, <3>1
    <3>4. QED BY <3>2, <3>3
  <2>3. QED BY <2>1, <2>2
<1>7. SUBSET D \subseteq A
  <2> HIDE DEF A
  <2>1. Grows(A, D)
    BY <1>6 DEF Grows
  <2>2. QED BY <2>1, SubsetBySubset
<1>8. QED BY <1>1, <1>3, <1>7

\* The sum of numbers of a set that sums stay in is in it.
LEMMA SumType ==
  ASSUME NEW D, IsFiniteSet(D), NEW T \in SUBSET Int, 0 \in T,
         \A a, b \in T : a + b \in T, NEW f \in [D -> T]
  PROVE  SumFunction(f) \in T
<1>1. PICK g \in [SUBSET D -> T] : Sums(g, f)
  BY SumExists
<1>2. f \in [D -> Int] /\ g \in [SUBSET D -> Int]
  OBVIOUS
<1>3. SumFunction(f) = g[D]
  BY <1>1, <1>2, SumIsSum
<1>4. QED BY <1>3

\* The sum of integers is one.
LEMMA SumInt ==
  ASSUME NEW D, IsFiniteSet(D), NEW f \in [D -> Int]
  PROVE  SumFunction(f) \in Int
<1>1. Int \in SUBSET Int /\ 0 \in Int /\ \A a, b \in Int : a + b \in Int
  OBVIOUS
<1>2. QED BY <1>1, SumType

\* The empty sum.
LEMMA SumOfNone ==
  ASSUME NEW f, DOMAIN f = {}, f \in [{} -> Int]
  PROVE  SumFunction(f) = 0
<1>1. Int \in SUBSET Int /\ 0 \in Int /\ \A a, b \in Int : a + b \in Int
      /\ IsFiniteSet({})
  BY FS_EmptySet
<1>2. PICK g \in [SUBSET {} -> Int] : Sums(g, f)
  BY <1>1, SumExists
<1>3. SumFunction(f) = g[{}]
  BY <1>1, <1>2, SumIsSum
<1>4. QED BY <1>2, <1>3 DEF Sums

\* The sum of all is one of them and the sum of the others.
LEMMA SumSplits ==
  ASSUME NEW D, IsFiniteSet(D), NEW f \in [D -> Int], NEW x \in D
  PROVE  SumFunction(f) = f[x] + SumFunction([y \in D \ {x} |-> f[y]])
<1> DEFINE E == D \ {x}
           h == [y \in E |-> f[y]]
<1>0. Int \in SUBSET Int /\ 0 \in Int /\ \A a, b \in Int : a + b \in Int
  OBVIOUS
<1>1. IsFiniteSet(E) /\ h \in [E -> Int]
  BY FS_RemoveElement
<1>2. PICK g \in [SUBSET D -> Int] : Sums(g, f)
  BY <1>0, SumExists
<1>3. PICK k \in [SUBSET E -> Int] : Sums(k, h)
  <2> HIDE DEF h, E
  <2>1. QED BY <1>0, <1>1, SumExists
<1>4. g[E] = k[E]
  <2>1. SameOn(f, h, E) /\ E \in SUBSET D
    BY DEF SameOn
  <2> HIDE DEF h, E
  <2>2. Agree(g, k, E)
    BY <1>1, <1>2, <1>3, <2>1, SumsAgree
  <2>3. QED BY <2>2 DEF Agree
<1>5. SumFunction(f) = g[D] /\ SumFunction(h) = k[E]
  <2> HIDE DEF h, E
  <2>1. QED BY <1>1, <1>2, <1>3, SumIsSum
<1>6. g[D] = f[x] + g[D \ {x}]
  <2>1. Takes(g, f)
    BY <1>2, SumTakes
  <2>2. QED BY <2>1 DEF Takes
<1>7. QED BY <1>4, <1>5, <1>6

IntegerOn(f, D) == f \in [D -> Int]

RestOf(E, D, x) == x \in D /\ E = D \ {x}

\* The sum with one element, and without it.
LEMMA SumOfRest ==
  ASSUME NEW D, NEW E, NEW f, NEW g, NEW x, IsFiniteSet(D), RestOf(E, D, x),
         IntegerOn(f, D), IntegerOn(g, E), SameOn(g, f, E)
  PROVE  SumFunction(f) = f[x] + SumFunction(g)
<1>1. g = [y \in D \ {x} |-> f[y]]
  BY DEF IntegerOn, RestOf, SameOn
<1>2. SumFunction(f) = f[x] + SumFunction([y \in D \ {x} |-> f[y]])
  BY SumSplits DEF IntegerOn, RestOf
<1>3. QED BY <1>1, <1>2, Zenon

\* The sum of the first i numbers is the last one and the sum of the others.
LEMMA SumOfPlaces ==
  ASSUME NEW i \in Nat \ {0}, NEW f, NEW g,
         IntegerOn(f, 1..i), IntegerOn(g, 1..(i - 1)), SameOn(g, f, 1..(i - 1))
  PROVE  SumFunction(f) = f[i] + SumFunction(g)
<1>1. IsFiniteSet(1..i) /\ RestOf(1..(i - 1), 1..i, i)
  <2>1. i \in 1..i /\ 1..(i - 1) = (1..i) \ {i}
    OBVIOUS
  <2>2. IsFiniteSet(1..i)
    BY FS_Interval
  <2>3. QED BY <2>1, <2>2 DEF RestOf
<1> DEFINE D == 1..i
           E == 1..(i - 1)
<1> HIDE DEF D, E
<1>2. IsFiniteSet(D) /\ RestOf(E, D, i) /\ IntegerOn(f, D) /\ IntegerOn(g, E)
      /\ SameOn(g, f, E)
  BY <1>1 DEF D, E
<1>3. QED BY <1>2, SumOfRest

\* Numbers that are not negative: none is greater than their sum.
LEMMA SumNat ==
  ASSUME NEW D, IsFiniteSet(D), NEW f \in [D -> Nat]
  PROVE  SumFunction(f) \in Nat /\ \A x \in D : f[x] <= SumFunction(f)
<1>0. Nat \in SUBSET Int /\ 0 \in Nat /\ \A a, b \in Nat : a + b \in Nat
  OBVIOUS
<1>1. SumFunction(f) \in Nat
  BY <1>0, SumType
<1>2. ASSUME NEW x \in D PROVE f[x] <= SumFunction(f)
  <2> DEFINE h == [y \in D \ {x} |-> f[y]]
  <2>1. IsFiniteSet(D \ {x}) /\ h \in [D \ {x} -> Nat] /\ f \in [D -> Int]
    BY FS_RemoveElement
  <2>2. SumFunction(f) = f[x] + SumFunction(h)
    BY <2>1, SumSplits
  <2>3. SumFunction(h) \in Nat
    <3> HIDE DEF h
    <3>1. QED BY <1>0, <2>1, SumType
  <2>4. QED BY <2>2, <2>3
<1>3. QED BY <1>1, <1>2

\* Numbers may be summed under other names.
LEMMA SumRenamed ==
  ASSUME NEW D, IsFiniteSet(D), NEW E, NEW p \in Bijection(D, E),
         NEW f \in [E -> Int]
  PROVE  SumFunction(f) = SumFunction([x \in D |-> f[p[x]]])
<1> DEFINE Image(s) == {p[x] : x \in s}
           A == {s \in SUBSET D : SumFunction([y \in Image(s) |-> f[y]])
                                     = SumFunction([x \in s |-> f[p[x]]])}
<1>0. /\ p \in [D -> E]
      /\ \A x, y \in D : p[x] = p[y] => x = y
      /\ \A y \in E : \E x \in D : p[x] = y
      /\ IsFiniteSet(E)
  <2>1. IsFiniteSet(E)
    BY FS_Bijection DEF ExistsBijection
  <2>2. QED BY <2>1 DEF Bijection, Injection, Surjection, IsInjective
<1>1. ASSUME NEW s \in SUBSET D, \A r \in SUBSET s : r # s => r \in A
      PROVE  s \in A
  <2> DEFINE F(r) == [y \in Image(r) |-> f[y]]
             G(r) == [x \in r |-> f[p[x]]]
  <2>0. ASSUME NEW r \in SUBSET D
        PROVE  /\ IsFiniteSet(r) /\ IsFiniteSet(Image(r)) /\ Image(r) \subseteq E
               /\ F(r) \in [Image(r) -> Int] /\ G(r) \in [r -> Int]
    <3>1. Image(r) \subseteq E
      BY <1>0
    <3>2. IsFiniteSet(r) /\ IsFiniteSet(Image(r))
      BY <1>0, <3>1, FS_Subset
    <3>3. \A x \in r : f[p[x]] \in Int
      BY <1>0
    <3>4. QED BY <3>1, <3>2, <3>3
  <2>1. CASE s = {}
    <3>1. F(s) \in [{} -> Int] /\ G(s) \in [{} -> Int]
          /\ DOMAIN F(s) = {} /\ DOMAIN G(s) = {}
      BY <2>1
    <3> HIDE DEF F, G
    <3>2. SumFunction(F(s)) = SumFunction(G(s))
      BY <3>1, SumOfNone
    <3>3. QED BY <3>2 DEF F, G
  <2>2. ASSUME NEW x \in s PROVE s \in A
    <3> DEFINE r == s \ {x}
    <3>1. r \in A
      BY <1>1
    <3>2. SumFunction(F(r)) = SumFunction(G(r))
      BY <3>1
    <3>3. p[x] \in Image(s) /\ Image(s) \ {p[x]} = Image(r)
      BY <1>0
    <3>4. SumFunction(F(s)) = F(s)[p[x]] + SumFunction([y \in Image(r) |-> F(s)[y]])
      <4>1. /\ IsFiniteSet(Image(s)) /\ F(s) \in [Image(s) -> Int]
        BY <2>0
      <4> HIDE DEF F, Image
      <4>2. SumFunction(F(s)) = F(s)[p[x]]
              + SumFunction([y \in Image(s) \ {p[x]} |-> F(s)[y]])
        BY ZenonT(60), <3>3, <4>1, SumSplits
      <4>3. QED BY <3>3, <4>2
    <3>5. SumFunction(G(s)) = G(s)[x] + SumFunction([y \in r |-> G(s)[y]])
      <4>1. IsFiniteSet(s) /\ G(s) \in [s -> Int]
        BY <2>0
      <4> HIDE DEF G
      <4>2. QED BY ZenonT(60), <4>1, SumSplits
    <3>6. [y \in Image(r) |-> F(s)[y]] = F(r) /\ [y \in r |-> G(s)[y]] = G(r)
          /\ F(s)[p[x]] = G(s)[x]
      BY <3>3
    <3>7. SumFunction(F(s)) = SumFunction(G(s))
      <4> HIDE DEF F, G
      <4>1. QED BY <3>2, <3>4, <3>5, <3>6
    <3>8. QED BY <3>7
  <2>3. QED BY <2>1, <2>2
<1>2. D \in A
  <2> HIDE DEF A
  <2>1. Grows(A, D)
    BY <1>1 DEF Grows
  <2>2. SUBSET D \subseteq A
    BY <2>1, SubsetBySubset
  <2>3. QED BY <2>2
<1>3. [y \in Image(D) |-> f[y]] = f
  BY <1>0
<1>4. QED BY <1>2, <1>3

\* What is zero may be left out.
LEMMA SumWithoutZeros ==
  ASSUME NEW D, IsFiniteSet(D), NEW f \in [D -> Int], NEW E \in SUBSET D,
         \A x \in D \ E : f[x] = 0
  PROVE  SumFunction(f) = SumFunction([x \in E |-> f[x]])
<1> DEFINE F(r) == [x \in E \cup r |-> f[x]]
           A == {r \in SUBSET (D \ E) : SumFunction(F(r)) = SumFunction(F({}))}
<1>1. ASSUME NEW s \in SUBSET (D \ E), \A r \in SUBSET s : r # s => r \in A
      PROVE  s \in A
  <2>1. CASE s = {}
    BY <2>1
  <2>2. ASSUME NEW x \in s PROVE s \in A
    <3> DEFINE r == s \ {x}
    <3>1. r \in A /\ F(s)[x] = 0
      BY <1>1
    <3>2. IsFiniteSet(E \cup s) /\ F(s) \in [E \cup s -> Int] /\ x \in E \cup s
      <4>1. E \cup s \in SUBSET D
        OBVIOUS
      <4>2. QED BY <4>1, FS_Subset
    <3>3. SumFunction(F(s)) = F(s)[x]
            + SumFunction([y \in (E \cup s) \ {x} |-> F(s)[y]])
      <4> HIDE DEF F
      <4>1. QED BY <3>2, SumSplits
    <3>4. [y \in (E \cup s) \ {x} |-> F(s)[y]] = F(r)
      <4>1. (E \cup s) \ {x} = E \cup r
        OBVIOUS
      <4>2. QED BY <4>1
    <3>5. SumFunction(F(r)) = SumFunction(F({})) /\ SumFunction(F(r)) \in Int
      <4>1. IsFiniteSet(E \cup r) /\ F(r) \in [E \cup r -> Int]
        <5>1. E \cup r \in SUBSET D
          OBVIOUS
        <5>2. QED BY <5>1, FS_Subset
      <4>2. SumFunction(F(r)) \in Int
        <5> HIDE DEF F
        <5>1. QED BY <4>1, SumInt
      <4>3. QED BY <3>1, <4>2
    <3>6. SumFunction(F(s)) = SumFunction(F({}))
      <4> HIDE DEF F
      <4>1. QED BY <3>1, <3>3, <3>4, <3>5
    <3>7. QED BY <3>6
  <2>3. QED BY <2>1, <2>2
<1>2. D \ E \in A
  <2> HIDE DEF A
  <2>1. IsFiniteSet(D \ E)
    BY FS_Subset
  <2> DEFINE C == D \ E
  <2>2. SUBSET C \subseteq A
    <3>1. Grows(A, C)
      BY <1>1 DEF Grows
    <3>2. IsFiniteSet(C)
      BY <2>1
    <3> HIDE DEF C
    <3>3. QED BY <3>1, <3>2, SubsetBySubset
  <2>3. QED BY <2>2
<1>3. F(D \ E) = f /\ F({}) = [x \in E |-> f[x]]
  <2>1. E \cup (D \ E) = D /\ E \cup {} = E
    OBVIOUS
  <2>2. QED BY <2>1
<1>4. QED BY <1>2, <1>3

\* The greatest of some of the first n numbers.
LEMMA GreatestNumber ==
  ASSUME NEW n \in Nat, NEW s \in SUBSET (1..n), s # {}
  PROVE  Max(s) \in s /\ \A m \in s : m <= Max(s)
<1> DEFINE T == {n - m : m \in s}
<1>1. T \in SUBSET Nat /\ T # {}
  <2>1. \A m \in s : n - m \in Nat
    OBVIOUS
  <2>2. QED BY <2>1
<1>2. PICK x \in T : \A y \in T : x <= y
  <2> HIDE DEF T
  <2>1. QED BY <1>1, LeastNumber
<1>3. PICK k \in s : x = n - k
  BY <1>2
<1>4. ASSUME NEW m \in s PROVE k >= m
  <2>1. n - m \in T /\ k \in 1..n /\ m \in 1..n
    OBVIOUS
  <2> HIDE DEF T
  <2>2. n - k <= n - m
    BY <1>2, <1>3, <2>1
  <2>3. QED BY <2>1, <2>2
<1>5. QED BY <1>3, <1>4 DEF Max

-----------------------------------------------------------------------------
(***************************************************************************)
(* Folds.  FoldLeft is a function on the sets of places, defined by its    *)
(* greatest place: there is such a function when every step stays in a set *)
(* T.  Read on the first places, it is the sequence of what the fold has   *)
(* computed after each place.                                              *)
(***************************************************************************)
Folds(g, n, base, step) ==
  \A s \in SUBSET (1..n) :
    g[s] = IF s = {} THEN base ELSE step[Max(s)][g[s \ {Max(s)}]]

\* There is a function that folds in a set T.
LEMMA FoldExists ==
  ASSUME NEW n \in Nat, NEW T, NEW base \in T, NEW step \in [1..n -> [T -> T]]
  PROVE  \E g \in [SUBSET (1..n) -> T] : Folds(g, n, base, step)
<1> USE DEF Folds
<1> DEFINE Fold(k, g) == \A s \in SUBSET (1..k) :
             g[s] = IF s = {} THEN base ELSE step[Max(s)][g[s \ {Max(s)}]]
           Bad == {k \in 0..n : ~ \E g \in [SUBSET (1..k) -> T] : Fold(k, g)}
<1>1. SUFFICES ASSUME Bad # {} PROVE FALSE
  <2>1. ASSUME n \notin Bad PROVE \E g \in [SUBSET (1..n) -> T] : Fold(n, g)
    <3> HIDE DEF Fold
    <3>1. n \in 0..n
      OBVIOUS
    <3>2. QED BY <2>1, <3>1
  <2>2. n \in Bad => Bad # {}
    OBVIOUS
  <2> HIDE DEF Bad
  <2>3. QED BY <2>1, <2>2
<1>2. PICK k \in Bad : \A m \in Bad : k <= m
  <2>1. Bad \in SUBSET Nat
    OBVIOUS
  <2> HIDE DEF Bad
  <2>2. QED BY <1>1, <2>1, LeastNumber
<1>3. CASE k = 0
  <2> DEFINE g == [s \in SUBSET (1..k) |-> base]
  <2>1. SUBSET (1..k) = {{}}
    BY <1>3
  <2>2. g \in [SUBSET (1..k) -> T] /\ Fold(k, g)
    BY <2>1
  <2>3. QED BY <1>2, <2>2
<1>4. CASE k # 0
  <2>1. k - 1 \in 0..n /\ k \in 1..n /\ k - 1 \notin Bad
    <3>1. k \in 0..n
      BY <1>2
    <3>2. k - 1 \in 0..n /\ k \in 1..n /\ ~ (k <= k - 1)
      BY <1>4, <3>1
    <3> HIDE DEF Bad
    <3>3. QED BY <1>2, <3>2
  <2>2. PICK g \in [SUBSET (1..(k - 1)) -> T] : Fold(k - 1, g)
    BY <2>1
  <2> DEFINE h == [s \in SUBSET (1..k) |->
                     IF k \in s THEN step[k][g[s \ {k}]] ELSE g[s]]
  <2>3. ASSUME NEW s \in SUBSET (1..k)
        PROVE  /\ k \notin s => s \in SUBSET (1..(k - 1))
               /\ s \ {k} \in SUBSET (1..(k - 1))
    BY <2>1
  <2>4. h \in [SUBSET (1..k) -> T]
    <3>1. ASSUME NEW s \in SUBSET (1..k) PROVE h[s] \in T
      <4>1. CASE k \in s
        BY <2>1, <2>3, <4>1
      <4>2. CASE k \notin s
        BY <2>3, <4>2
      <4>3. QED BY <4>1, <4>2
    <3>2. QED BY <3>1
  <2>5. ASSUME NEW s \in SUBSET (1..k)
        PROVE  h[s] = IF s = {} THEN base ELSE step[Max(s)][h[s \ {Max(s)}]]
    <3>1. CASE k \in s
      <4>1. Max(s) = k
        <5>0. k \in Nat /\ s # {}
          BY <2>1, <3>1
        <5>1. Max(s) \in s /\ k <= Max(s) /\ k \in Nat
          BY <3>1, <5>0, GreatestNumber
        <5>2. Max(s) \in 1..k
          BY <5>1
        <5>3. QED BY <5>1, <5>2
      <4>2. h[s \ {k}] = g[s \ {k}]
        OBVIOUS
      <4>3. QED BY <3>1, <4>1, <4>2
    <3>2. CASE k \notin s
      <4>1. h[s] = g[s] /\ s \in SUBSET (1..(k - 1))
        BY <2>3, <3>2
      <4>2. g[s] = IF s = {} THEN base ELSE step[Max(s)][g[s \ {Max(s)}]]
        BY <2>2, <4>1
      <4>3. h[s \ {Max(s)}] = g[s \ {Max(s)}]
        BY <3>2
      <4>4. QED BY <4>1, <4>2, <4>3
    <3>3. QED BY <3>1, <3>2
  <2> HIDE DEF h
  <2>6. QED BY <1>2, <2>4, <2>5
<1>5. QED BY <1>3, <1>4

\* The greatest of the first n places is n.
LEMMA LastPlace ==
  ASSUME NEW i \in Nat \ {0}
  PROVE  1..i # {} /\ Max(1..i) = i /\ (1..i) \ {i} = 1..(i - 1)
<1>1. i \in 1..i /\ (1..i) \ {i} = 1..(i - 1)
  OBVIOUS
<1>2. Max(1..i) \in 1..i /\ \A m \in 1..i : m <= Max(1..i)
  <2>1. 1..i \in SUBSET (1..i) /\ 1..i # {} /\ i \in Nat
    BY <1>1
  <2>2. QED BY <2>1, GreatestNumber
<1>3. QED BY <1>1, <1>2

-----------------------------------------------------------------------------
(***************************************************************************)
(* Consuming lots.                                                         *)
(***************************************************************************)
Fills == [src : Nat, qty : Nat, unit : Nat]

\* Records that are lots, whatever else they are.
WithRem(l, k) == [l EXCEPT !.rem = k]

AreLots(E) ==
  \A l \in E :
    /\ l.src \in Nat /\ l.rem \in Nat /\ l.unit \in Nat
    /\ \A k \in Nat : WithRem(l, k) \in E /\ WithRem(l, k).rem = k
                         /\ WithRem(l, k).src = l.src
                         /\ WithRem(l, k).unit = l.unit

ConsumeStates(E) == [toSell : Nat, lots : Seq(E), fills : SUBSET Fills]

\* The smaller of two numbers is a number not greater than either.
LEMMA MinOfTwo ==
  ASSUME NEW a \in Nat, NEW b \in Nat
  PROVE  /\ Min({a, b}) \in Nat
         /\ Min({a, b}) <= a /\ Min({a, b}) <= b
<1>1. \E x \in {a, b} : \A y \in {a, b} : x <= y
  OBVIOUS
<1>2. Min({a, b}) \in {a, b} /\ \A y \in {a, b} : Min({a, b}) <= y
  BY <1>1 DEF Min
<1>3. QED BY <1>2

\* Consuming a lot stays in the states of the fold.
LEMMA ConsumeLotTypes ==
  ASSUME NEW E, AreLots(E), NEW st \in ConsumeStates(E), NEW lot \in E
  PROVE  ConsumeLot(st, lot) \in ConsumeStates(E)
<1> DEFINE taken == Min({lot.rem, st.toSell})
<1>1. /\ st.toSell \in Nat /\ st.lots \in Seq(E) /\ st.fills \in SUBSET Fills
      /\ lot.rem \in Nat /\ lot.src \in Nat /\ lot.unit \in Nat
  BY DEF ConsumeStates, AreLots
<1>2. taken \in Nat /\ taken <= lot.rem /\ taken <= st.toSell
  BY <1>1, MinOfTwo
<1>3. st.toSell - taken \in Nat /\ lot.rem - taken \in Nat
  BY <1>1, <1>2
<1>4. [lot EXCEPT !.rem = @ - taken] \in E
  <2>1. WithRem(lot, lot.rem - taken) \in E
    BY <1>3 DEF AreLots
  <2>2. QED BY <2>1 DEF WithRem
<1>5. [src |-> lot.src, qty |-> taken, unit |-> lot.unit] \in Fills
  BY <1>1, <1>2 DEF Fills
<1> HIDE DEF taken
<1>6. Append(st.lots, [lot EXCEPT !.rem = @ - taken]) \in Seq(E)
  BY <1>1, <1>4
<1>7. QED BY <1>1, <1>3, <1>5, <1>6 DEF ConsumeLot, ConsumeStates, taken

\* What Consume has computed after each lot.
ConsumeRun(r, seq, q) ==
  /\ r[0] = [toSell |-> q, lots |-> <<>>, fills |-> {}]
  /\ \A i \in 1..Len(seq) : r[i] = ConsumeLot(r[i - 1], seq[i])
  /\ Consume(seq, q) = r[Len(seq)]

\* consumeLots computes a state after each lot, and returns the last.
LEMMA ConsumeRuns ==
  ASSUME NEW E, AreLots(E), NEW seq \in Seq(E), NEW q \in Nat
  PROVE  \E r \in [0..Len(seq) -> ConsumeStates(E)] : ConsumeRun(r, seq, q)
<1> DEFINE n == Len(seq)
           T == ConsumeStates(E)
           base == [toSell |-> q, lots |-> <<>>, fills |-> {}]
           step == [i \in 1..n |-> [st \in T |-> ConsumeLot(st, seq[i])]]
           IsFold(g) == g = [s \in SUBSET (DOMAIN seq) |->
                               IF s = {} THEN base
                               ELSE ConsumeLot(g[s \ {Max(s)}], seq[Max(s)])]
<1>1. n \in Nat /\ DOMAIN seq = 1..n /\ \A i \in 1..n : seq[i] \in E
  OBVIOUS
<1>2. Consume(seq, q) = (CHOOSE g : IsFold(g))[DOMAIN seq]
  BY DEF Consume, FoldLeft, MapThenFoldSet
<1>3. base \in T
  <2>1. <<>> \in Seq(E)
    OBVIOUS
  <2>2. QED BY <2>1 DEF ConsumeStates
<1>4. step \in [1..n -> [T -> T]]
  <2>1. \A i \in 1..n, st \in T : ConsumeLot(st, seq[i]) \in T
    BY <1>1, ConsumeLotTypes
  <2> HIDE DEF T
  <2>2. QED BY <2>1
<1> HIDE DEF T, base
<1>5. \E g : IsFold(g)
  <2>1. PICK g \in [SUBSET (1..n) -> T] : Folds(g, n, base, step)
    <3> HIDE DEF step, n
    <3>1. QED BY <1>1, <1>3, <1>4, FoldExists
  <2>2. ASSUME NEW s \in SUBSET (1..n), s # {}
        PROVE  step[Max(s)][g[s \ {Max(s)}]] = ConsumeLot(g[s \ {Max(s)}], seq[Max(s)])
    <3>1. Max(s) \in s
      <4> HIDE DEF n
      <4>1. QED BY <1>1, <2>2, GreatestNumber
    <3>2. Max(s) \in 1..n /\ g[s \ {Max(s)}] \in T
      BY <3>1
    <3>3. QED BY <3>2
  <2>3. IsFold(g)
    <3> HIDE DEF step
    <3>1. QED BY <1>1, <2>1, <2>2 DEF Folds
  <2> HIDE DEF IsFold
  <2>4. QED BY <2>3
<1>6. PICK g : g = (CHOOSE h : IsFold(h)) /\ IsFold(g)
  <2> HIDE DEF IsFold
  <2>1. QED BY <1>5
<1> DEFINE r == [i \in 0..n |-> g[1..i]]
<1>7. r[0] = base
  <2>1. 1..0 = {} /\ 0 \in 0..n
    BY <1>1
  <2>2. r[0] = g[{}]
    BY <2>1
  <2>3. g[{}] = base
    BY <1>6
  <2>4. QED BY <2>2, <2>3
<1>8. ASSUME NEW i \in 1..n PROVE r[i] = ConsumeLot(r[i - 1], seq[i])
  <2>1. i \in Nat \ {0} /\ i \in 0..n /\ i - 1 \in 0..n /\ 1..i \in SUBSET (1..n)
    BY <1>1
  <2>2. 1..i # {} /\ Max(1..i) = i /\ (1..i) \ {i} = 1..(i - 1)
    BY <2>1, LastPlace
  <2>3. \A s \in SUBSET (1..n) : s # {} =>
          g[s] = ConsumeLot(g[s \ {Max(s)}], seq[Max(s)])
    BY <1>1, <1>6
  <2>4. g[1..i] = ConsumeLot(g[(1..i) \ {Max(1..i)}], seq[Max(1..i)])
    BY <2>1, <2>2, <2>3
  <2>5. r[i] = g[1..i] /\ r[i - 1] = g[1..(i - 1)]
    BY <2>1
  <2> HIDE DEF r
  <2>6. QED BY <2>2, <2>4, <2>5, Zenon
<1>9. r \in [0..n -> T]
  <2> DEFINE A == {i \in 0..n : r[i] \in T}
  <2>1. 0 \in A
    BY <1>1, <1>3, <1>7
  <2>2. ASSUME NEW i \in 1..n, i - 1 \in A PROVE i \in A
    <3>1. r[i] = ConsumeLot(r[i - 1], seq[i]) /\ r[i - 1] \in T /\ seq[i] \in E
          /\ i \in 0..n
      BY <1>1, <1>8, <2>2
    <3> HIDE DEF r
    <3>2. QED BY <3>1, ConsumeLotTypes DEF T
  <2>3. 0..n \subseteq A
    <3> HIDE DEF A, n
    <3>1. QED BY <1>1, <2>1, <2>2, PlaceByPlace
  <2>4. QED BY <2>3
<1>10. Consume(seq, q) = r[n]
  BY <1>1, <1>2, <1>6
<1>11. ConsumeRun(r, seq, q)
  BY <1>7, <1>8, <1>10 DEF ConsumeRun, base
<1>12. QED BY <1>9, <1>11 DEF T

(***************************************************************************)
(* What has been consumed after the first i lots, which have different     *)
(* sources: the lots are the same but for what they still hold, there is   *)
(* at most one fill for each of them, the fills make up what is no longer  *)
(* to sell, and their cost is what the lots have lost.                     *)
(***************************************************************************)
SourcesDiffer(seq) ==
  \A i, j \in DOMAIN seq : seq[i].src = seq[j].src => i = j

Filled(fills) == SumFunction([f \in fills |-> f.qty])

\* What fills cost, and what the first i lots of a sequence cost.
SpentOn(fills) == SumFunction([f \in fills |-> f.qty * f.unit])

CostOf(seq, i) == SumFunction([j \in 1..i |-> seq[j].rem * seq[j].unit])

OneFillEach(fills) == \A f, g \in fills : f.src = g.src => f = g

Consumed(st, seq, i, q) ==
  /\ DOMAIN st.lots = 1..i
  /\ \A j \in 1..i : st.lots[j] = WithRem(seq[j], st.lots[j].rem)
  /\ IsFiniteSet(st.fills)
  /\ \A f \in st.fills : \E j \in 1..i : f.src = seq[j].src
  /\ OneFillEach(st.fills)
  /\ Filled(st.fills) + st.toSell = q
  /\ SpentOn(st.fills) + CostOf(st.lots, i) = CostOf(seq, i)

Priced(seq, i) == \A j \in 1..i : seq[j].rem \in Nat /\ seq[j].unit \in Nat

\* A lot more costs what it holds at its unit cost.
LEMMA CostGrows ==
  ASSUME NEW i \in Nat, i # 0, NEW seq, Priced(seq, i)
  PROVE  /\ CostOf(seq, i) = seq[i].rem * seq[i].unit + CostOf(seq, i - 1)
         /\ CostOf(seq, i - 1) \in Nat
<1> DEFINE f == [j \in 1..i |-> seq[j].rem * seq[j].unit]
           g == [j \in 1..(i - 1) |-> seq[j].rem * seq[j].unit]
<1>1. \A j \in 1..i : seq[j].rem * seq[j].unit \in Nat
  BY DEF Priced
<1>2. i \in 1..i /\ 1..(i - 1) \subseteq 1..i
  OBVIOUS
<1>3. IntegerOn(f, 1..i) /\ IntegerOn(g, 1..(i - 1)) /\ SameOn(g, f, 1..(i - 1))
  BY <1>1, <1>2 DEF IntegerOn, SameOn
<1>4. f[i] = seq[i].rem * seq[i].unit
  BY <1>2
<1>5. g \in [1..(i - 1) -> Nat] /\ IsFiniteSet(1..(i - 1))
  <2>1. i - 1 \in Int
    OBVIOUS
  <2>2. IsFiniteSet(1..(i - 1))
    BY <2>1, FS_Interval
  <2>3. QED BY <1>1, <1>2, <2>2
<1> HIDE DEF f, g
<1>6. SumFunction(f) = f[i] + SumFunction(g)
  BY <1>3, SumOfPlaces
<1>7. SumFunction(g) \in Nat
  BY <1>5, SumNat
<1>8. QED BY <1>4, <1>6, <1>7 DEF CostOf, f, g

\* One more fill, of another source.
LEMMA FillsGrow ==
  ASSUME NEW S \in SUBSET Fills, IsFiniteSet(S), NEW x \in Fills, x \notin S
  PROVE  /\ IsFiniteSet(S \cup {x}) /\ Filled(S \cup {x}) = x.qty + Filled(S)
         /\ Filled(S) \in Nat
         /\ SpentOn(S \cup {x}) = x.qty * x.unit + SpentOn(S)
         /\ SpentOn(S) \in Nat
<1> DEFINE D == S \cup {x}
           f == [y \in D |-> y.qty]
           g == [y \in S |-> y.qty]
           c == [y \in D |-> y.qty * y.unit]
           d == [y \in S |-> y.qty * y.unit]
<1>1. IsFiniteSet(D) /\ RestOf(S, D, x)
  BY FS_AddElement DEF RestOf
<1>2. \A y \in D : y.qty \in Nat /\ y.qty * y.unit \in Nat
  <2>1. \A y \in D : y.qty \in Nat /\ y.unit \in Nat
    BY DEF Fills
  <2>2. QED BY <2>1
<1>3. /\ IntegerOn(f, D) /\ IntegerOn(g, S) /\ SameOn(g, f, S)
      /\ IntegerOn(c, D) /\ IntegerOn(d, S) /\ SameOn(d, c, S)
      /\ f[x] = x.qty /\ c[x] = x.qty * x.unit
      /\ g \in [S -> Nat] /\ d \in [S -> Nat]
  <2>1. x \in D /\ S \subseteq D
    OBVIOUS
  <2> HIDE DEF D
  <2>2. QED BY <1>2, <2>1 DEF IntegerOn, SameOn
<1> HIDE DEF D, f, g, c, d
<1>4. /\ SumFunction(f) = f[x] + SumFunction(g)
      /\ SumFunction(c) = c[x] + SumFunction(d)
  BY <1>1, <1>3, SumOfRest
<1>5. SumFunction(g) \in Nat /\ SumFunction(d) \in Nat
  BY <1>3, SumNat
<1>6. QED BY <1>1, <1>3, <1>4, <1>5 DEF Filled, SpentOn, D, f, g, c, d

\* What consumeLots establishes of all the lots it is given.
LEMMA ConsumeIsComplete ==
  ASSUME NEW E, AreLots(E), NEW seq \in Seq(E), SourcesDiffer(seq), NEW q \in Nat
  PROVE  /\ Consume(seq, q) \in ConsumeStates(E)
         /\ Consumed(Consume(seq, q), seq, Len(seq), q)
<1> DEFINE n == Len(seq)
<1>0. n \in Nat /\ DOMAIN seq = 1..n /\ \A i \in 1..n : seq[i] \in E
  OBVIOUS
<1>1. PICK r \in [0..n -> ConsumeStates(E)] : ConsumeRun(r, seq, q)
  BY ConsumeRuns
<1> DEFINE A == {i \in 0..n : Consumed(r[i], seq, i, q)}
<1>2. 0 \in A
  <2>1. r[0].lots = <<>> /\ r[0].fills = {} /\ r[0].toSell = q
    BY <1>1 DEF ConsumeRun
  <2>2. Filled({}) = 0
    <3> DEFINE f == [x \in {} |-> x.qty]
    <3>1. f \in [{} -> Int] /\ DOMAIN f = {}
      OBVIOUS
    <3> HIDE DEF f
    <3>2. SumFunction(f) = 0
      BY <3>1, SumOfNone
    <3>3. QED BY <3>2 DEF Filled, f
  <2>3. IsFiniteSet({})
    BY FS_EmptySet
  <2>4. SpentOn({}) = 0 /\ CostOf(<<>>, 0) = 0 /\ CostOf(seq, 0) = 0
    <3> DEFINE c == [x \in {} |-> x.qty * x.unit]
               d == [j \in 1..0 |-> <<>>[j].rem * <<>>[j].unit]
               e == [j \in 1..0 |-> seq[j].rem * seq[j].unit]
    <3>1. /\ c \in [{} -> Int] /\ DOMAIN c = {}
          /\ d \in [{} -> Int] /\ DOMAIN d = {}
          /\ e \in [{} -> Int] /\ DOMAIN e = {}
      OBVIOUS
    <3> HIDE DEF c, d, e
    <3>2. SumFunction(c) = 0 /\ SumFunction(d) = 0 /\ SumFunction(e) = 0
      BY <3>1, SumOfNone
    <3>3. QED BY <3>2 DEF SpentOn, CostOf, c, d, e
  <2>5. Consumed(r[0], seq, 0, q)
    BY <2>1, <2>2, <2>3, <2>4 DEF Consumed, OneFillEach
  <2>6. QED BY <1>0, <2>5
<1>3. ASSUME NEW i \in 1..n, i - 1 \in A PROVE i \in A
  <2> DEFINE st == r[i - 1]
             lot == seq[i]
             taken == Min({lot.rem, st.toSell})
             fill == [src |-> lot.src, qty |-> taken, unit |-> lot.unit]
             left == [lot EXCEPT !.rem = @ - taken]
  <2>1. /\ i \in Nat /\ i - 1 \in Nat /\ i - 1 \in 0..n /\ i \in 0..n
        /\ st \in ConsumeStates(E) /\ lot \in E
        /\ r[i] = ConsumeLot(st, lot)
        /\ Consumed(st, seq, i - 1, q)
    BY <1>0, <1>1, <1>3 DEF ConsumeRun
  <2>2. /\ st.toSell \in Nat /\ st.lots \in Seq(E) /\ st.fills \in SUBSET Fills
        /\ lot.rem \in Nat /\ lot.src \in Nat /\ lot.unit \in Nat
    BY <2>1 DEF ConsumeStates, AreLots
  <2>3. taken \in Nat /\ taken <= lot.rem /\ taken <= st.toSell
    BY <2>2, MinOfTwo
  <2>4. left = WithRem(lot, lot.rem - taken) /\ lot.rem - taken \in Nat
    BY <2>2, <2>3 DEF WithRem
  <2>5. left = WithRem(lot, left.rem) /\ left.rem = lot.rem - taken
        /\ left.unit = lot.unit
    <3>1. /\ WithRem(lot, lot.rem - taken).rem = lot.rem - taken
          /\ WithRem(lot, lot.rem - taken).unit = lot.unit
      BY <2>1, <2>4 DEF AreLots
    <3>2. QED BY <2>4, <3>1
  <2>6. /\ r[i].toSell = st.toSell - taken
        /\ r[i].lots = Append(st.lots, left)
        /\ r[i].fills = IF taken = 0 THEN st.fills ELSE st.fills \cup {fill}
    <3> HIDE DEF st
    <3>1. QED BY <2>1 DEF ConsumeLot
  <2>7. /\ fill \in Fills /\ fill.src = seq[i].src /\ fill.qty = taken
        /\ fill.unit = lot.unit
    BY <2>2, <2>3 DEF Fills
  <2> HIDE DEF st, lot, taken, fill, left
  <2>8. Len(st.lots) = i - 1 /\ DOMAIN st.lots = 1..(i - 1)
    BY <2>1, <2>2 DEF Consumed
  <2>9. DOMAIN r[i].lots = 1..i
        /\ \A j \in 1..i : r[i].lots[j] = IF j = i THEN left ELSE st.lots[j]
    BY <2>1, <2>2, <2>6, <2>8
  <2>10. \A j \in 1..i : r[i].lots[j] = WithRem(seq[j], r[i].lots[j].rem)
    <3>1. ASSUME NEW j \in 1..i, j # i
          PROVE  r[i].lots[j] = WithRem(seq[j], r[i].lots[j].rem)
      <4>1. j \in 1..(i - 1) /\ r[i].lots[j] = st.lots[j]
        BY <2>1, <2>9, <3>1
      <4>2. st.lots[j] = WithRem(seq[j], st.lots[j].rem)
        BY <2>1, <4>1 DEF Consumed
      <4>3. QED BY <4>1, <4>2
    <3>2. i \in 1..i /\ r[i].lots[i] = left
      BY <2>1, <2>9
    <3>3. QED BY <2>5, <3>1, <3>2 DEF lot
  <2>11. ASSUME NEW f \in st.fills PROVE f.src # fill.src
    <3>1. PICK j \in 1..(i - 1) : f.src = seq[j].src
      BY <2>1 DEF Consumed
    <3>2. j \in 1..n /\ i \in 1..n /\ j # i
      BY <1>0
    <3>3. QED BY <1>0, <2>7, <3>1, <3>2 DEF SourcesDiffer
  <2>12. \A f \in r[i].fills : \E j \in 1..i : f.src = seq[j].src
    <3>1. i \in 1..i /\ 1..(i - 1) \subseteq 1..i
      BY <2>1
    <3>2. QED BY <2>1, <2>6, <2>7, <3>1 DEF Consumed
  <2>13. OneFillEach(r[i].fills)
    BY <2>1, <2>6, <2>11 DEF Consumed, OneFillEach
  <2>14. IsFiniteSet(st.fills) /\ Filled(st.fills) + st.toSell = q
    BY <2>1 DEF Consumed
  <2>15. IsFiniteSet(r[i].fills) /\ Filled(r[i].fills) + r[i].toSell = q
    <3>1. CASE taken = 0
      BY <2>2, <2>6, <2>14, <3>1
    <3>2. CASE taken # 0
      <4>1. fill \notin st.fills
        BY <2>11
      <4>2. /\ IsFiniteSet(st.fills \cup {fill})
            /\ Filled(st.fills \cup {fill}) = fill.qty + Filled(st.fills)
            /\ Filled(st.fills) \in Nat
        BY <2>2, <2>7, <2>14, <4>1, FillsGrow
      <4>3. r[i].fills = st.fills \cup {fill}
        BY <2>6, <3>2
      <4>4. Filled(r[i].fills) = taken + Filled(st.fills)
        BY <2>7, <4>2, <4>3
      <4>5. QED BY SMTT(60), <2>2, <2>3, <2>6, <2>14, <4>2, <4>3, <4>4
    <3>3. QED BY <3>1, <3>2
  <2>16. SpentOn(r[i].fills) + CostOf(r[i].lots, i) = CostOf(seq, i)
    <3>1. \A j \in 1..i : seq[j].rem \in Nat /\ seq[j].unit \in Nat
      <4>1. \A j \in 1..i : seq[j] \in E
        BY <1>0
      <4>2. QED BY <4>1 DEF AreLots
    <3>2. /\ CostOf(seq, i) = lot.rem * lot.unit + CostOf(seq, i - 1)
          /\ CostOf(seq, i - 1) \in Nat
      <4>1. Priced(seq, i) /\ i # 0
        BY <1>0, <3>1 DEF Priced
      <4>2. QED BY <2>1, <4>1, CostGrows DEF lot
    <3>3. \A j \in 1..i : r[i].lots[j].rem \in Nat /\ r[i].lots[j].unit \in Nat
      <4>1. \A j \in 1..(i - 1) : st.lots[j].rem \in Nat /\ st.lots[j].unit \in Nat
        <5>1. \A j \in 1..(i - 1) : st.lots[j] \in E
          BY <2>2, <2>8
        <5>2. QED BY <5>1 DEF AreLots
      <4>2. \A j \in 1..i : j # i => j \in 1..(i - 1)
        BY <2>1
      <4>3. left.rem \in Nat /\ left.unit \in Nat
        BY <2>2, <2>4, <2>5
      <4>4. QED BY <2>9, <4>1, <4>2, <4>3
    <3>4. /\ CostOf(r[i].lots, i) = left.rem * left.unit + CostOf(st.lots, i - 1)
          /\ CostOf(st.lots, i - 1) \in Nat
      <4>1. CostOf(r[i].lots, i - 1) = CostOf(st.lots, i - 1)
        <5>1. \A j \in 1..(i - 1) : r[i].lots[j] = st.lots[j]
          BY <2>1, <2>9
        <5>2. QED BY <5>1 DEF CostOf
      <4>2. r[i].lots[i] = left
        BY <2>1, <2>9
      <4>3. Priced(r[i].lots, i) /\ i # 0
        BY <1>0, <3>3 DEF Priced
      <4>4. QED BY <2>1, <4>1, <4>2, <4>3, CostGrows
    <3>5. SpentOn(st.fills) + CostOf(st.lots, i - 1) = CostOf(seq, i - 1)
      BY <2>1 DEF Consumed
    <3>6. left.rem * left.unit = lot.rem * lot.unit - taken * lot.unit
          /\ lot.rem * lot.unit \in Nat /\ taken * lot.unit \in Nat
      <4>1. \A a \in Nat, b \in Nat, c \in Nat :
              (a - b) * c = a * c - b * c /\ a * c \in Nat
        OBVIOUS
      <4>2. QED BY SMTT(60), <2>2, <2>3, <2>5, <4>1
    <3>7. SpentOn(st.fills) \in Nat
          /\ SpentOn(r[i].fills) = taken * lot.unit + SpentOn(st.fills)
      <4>1. CASE taken = 0
        <5>1. SpentOn(st.fills) \in Nat
          <6> DEFINE c == [f \in st.fills |-> f.qty * f.unit]
          <6>1. \A f \in st.fills : f.qty \in Nat /\ f.unit \in Nat
            BY <2>2 DEF Fills
          <6>2. \A f \in st.fills : f.qty * f.unit \in Nat
            BY <6>1
          <6>3. c \in [st.fills -> Nat]
            BY <6>2
          <6> HIDE DEF c
          <6>4. QED BY <2>14, <6>3, SumNat DEF SpentOn, c
        <5>2. taken * lot.unit = 0
          BY <2>2, <4>1
        <5>3. QED BY <2>6, <4>1, <5>1, <5>2
      <4>2. CASE taken # 0
        <5>1. fill \notin st.fills /\ r[i].fills = st.fills \cup {fill}
          BY <2>6, <2>11, <4>2
        <5>2. QED BY <2>2, <2>7, <2>14, <5>1, FillsGrow
      <4>3. QED BY <4>1, <4>2
    <3> DEFINE ll == lot.rem * lot.unit
               tt == taken * lot.unit
               rr == left.rem * left.unit
    <3> HIDE DEF ll, tt, rr
    <3>8. rr = ll - tt /\ ll \in Nat /\ tt \in Nat
      BY <3>6 DEF ll, tt, rr
    <3>9. /\ CostOf(r[i].lots, i) = rr + CostOf(st.lots, i - 1)
          /\ CostOf(seq, i) = ll + CostOf(seq, i - 1)
          /\ SpentOn(r[i].fills) = tt + SpentOn(st.fills)
      BY <3>2, <3>4, <3>7 DEF ll, tt, rr
    <3>10. QED BY <3>2, <3>4, <3>5, <3>7, <3>8, <3>9
  <2>17. Consumed(r[i], seq, i, q)
    BY <2>9, <2>10, <2>12, <2>13, <2>15, <2>16 DEF Consumed
  <2>18. QED BY <2>1, <2>17
<1>4. n \in A
  <2> HIDE DEF A, n
  <2>1. 0..n \subseteq A
    BY <1>0, <1>2, <1>3, PlaceByPlace
  <2>2. QED BY <1>0, <2>1
<1>5. Consume(seq, q) = r[n] /\ n \in 0..n
  BY <1>0, <1>1 DEF ConsumeRun
<1>6. QED BY <1>1, <1>4, <1>5

(***************************************************************************)
(* The timeline.  Trades have identifiers and splits of one asset days of  *)
(* their own, so that Earlier is a strict total order on the events.  The  *)
(* number of events that are earlier than an event is its place: places    *)
(* are different, and there are as many as events, so each is taken.       *)
(***************************************************************************)
AreTrades(trades) ==
  /\ IsFiniteSet(trades)
  /\ \A r \in trades : /\ r.id \in Nat /\ r.time \in Nat
                       /\ r.type \in {"buy", "sell"}
                       /\ r.qty \in Nat \ {0} /\ r.amount \in Nat
  /\ \A r, q \in trades : r.id = q.id => r = q

AreActions(actions) ==
  /\ IsFiniteSet(actions)
  /\ \A a \in actions : /\ a.exDate \in Nat
                        /\ a.ratio.num \in Nat \ {0}
                        /\ a.ratio.den \in Nat \ {0}
  /\ \A a, b \in actions : a.exDate = b.exDate => a = b

Events(trades, actions) == SplitEvents(actions) \cup TradeEvents(trades)

Ordered(E) ==
  /\ IsFiniteSet(E)
  /\ \A e \in E : e.time \in Nat /\ e.priority \in Nat /\ e.id \in Nat
  /\ \A e, f \in E :
       e.time = f.time /\ e.priority = f.priority /\ e.id = f.id => e = f

\* No two events of a scope have the same time, priority and identifier.
LEMMA EventsAreOrdered ==
  ASSUME NEW trades, AreTrades(trades), NEW actions, AreActions(actions)
  PROVE  Ordered(Events(trades, actions))
<1> DEFINE f == [a \in actions |->
                   [kind |-> "split", time |-> a.exDate, priority |-> 0, id |-> 0,
                    ratio |-> a.ratio, market |-> a.market]]
           g == [r \in trades |->
                   [kind |-> r.type, time |-> r.time, priority |-> 1, id |-> r.id,
                    qty |-> r.qty, amount |-> r.amount]]
<1>1. f \in Surjection(actions, SplitEvents(actions))
  BY DEF Surjection, SplitEvents
<1>2. g \in Surjection(trades, TradeEvents(trades))
  BY DEF Surjection, TradeEvents
<1>3. IsFiniteSet(SplitEvents(actions)) /\ IsFiniteSet(TradeEvents(trades))
  <2>1. IsFiniteSet(actions) /\ IsFiniteSet(trades)
    BY DEF AreTrades, AreActions
  <2> HIDE DEF f, g
  <2>2. QED BY <1>1, <1>2, <2>1, FS_Surjection
<1>4. IsFiniteSet(Events(trades, actions))
  BY <1>3, FS_Union DEF Events
<1>5. ASSUME NEW e \in Events(trades, actions)
      PROVE  /\ e.time \in Nat /\ e.priority \in {0, 1} /\ e.id \in Nat
             /\ e.priority = 0 => \E a \in actions : e = f[a] /\ e.time = a.exDate
             /\ e.priority = 1 => \E r \in trades : e = g[r] /\ e.id = r.id
  BY DEF Events, SplitEvents, TradeEvents, AreTrades, AreActions
<1>6. ASSUME NEW e \in Events(trades, actions), NEW d \in Events(trades, actions),
             e.time = d.time, e.priority = d.priority, e.id = d.id
      PROVE  e = d
  <2>1. CASE e.priority = 0
    <3>1. PICK a \in actions : e = f[a] /\ e.time = a.exDate
      BY <1>5, <2>1
    <3>2. PICK b \in actions : d = f[b] /\ d.time = b.exDate
      BY <1>5, <1>6, <2>1
    <3> HIDE DEF f
    <3>3. QED BY <1>6, <3>1, <3>2 DEF AreActions
  <2>2. CASE e.priority = 1
    <3>1. PICK r \in trades : e = g[r] /\ e.id = r.id
      BY <1>5, <2>2
    <3>2. PICK q \in trades : d = g[q] /\ d.id = q.id
      BY <1>5, <1>6, <2>2
    <3> HIDE DEF g
    <3>3. QED BY <1>6, <3>1, <3>2 DEF AreTrades
  <2>3. e.priority \in {0, 1}
    BY <1>5
  <2>4. QED BY <2>1, <2>2, <2>3
<1>7. QED BY <1>4, <1>5, <1>6 DEF Ordered

\* compareEvents is a strict total order on such events.
LEMMA EarlierIsAnOrder ==
  ASSUME NEW E, Ordered(E), NEW e \in E, NEW f \in E
  PROVE  /\ ~ Earlier(e, e)
         /\ Earlier(e, f) => ~ Earlier(f, e)
         /\ e # f => Earlier(e, f) \/ Earlier(f, e)
         /\ \A d \in E : Earlier(d, e) /\ Earlier(e, f) => Earlier(d, f)
<1>1. /\ e.time \in Nat /\ e.priority \in Nat /\ e.id \in Nat
      /\ f.time \in Nat /\ f.priority \in Nat /\ f.id \in Nat
      /\ e.time = f.time /\ e.priority = f.priority /\ e.id = f.id => e = f
  BY DEF Ordered
<1>2. ~ Earlier(e, e) /\ (Earlier(e, f) => ~ Earlier(f, e))
  BY <1>1 DEF Earlier
<1>3. e # f => Earlier(e, f) \/ Earlier(f, e)
  BY <1>1 DEF Earlier
<1>4. ASSUME NEW d \in E, Earlier(d, e), Earlier(e, f) PROVE Earlier(d, f)
  <2>1. d.time \in Nat /\ d.priority \in Nat /\ d.id \in Nat
    BY DEF Ordered
  <2>2. QED BY <1>1, <1>4, <2>1 DEF Earlier
<1>5. QED BY <1>2, <1>3, <1>4

(***************************************************************************)
(* The place of an element is the number of elements below it.  Under a    *)
(* strict total order, places are different, and there are as many as      *)
(* elements, so each is taken.                                             *)
(***************************************************************************)
IsOrder(below, S) ==
  /\ below \in [S -> SUBSET S]
  /\ \A e \in S : e \notin below[e]
  /\ \A e, g \in S : e # g => e \in below[g] \/ g \in below[e]
  /\ \A d, e, g \in S : d \in below[e] /\ e \in below[g] => d \in below[g]

HasPlaces(below, S) ==
  /\ \A i \in 1..Cardinality(S) : \E e \in S : Cardinality(below[e]) = i - 1
  /\ \A e \in S : Cardinality(below[e]) \in 0..(Cardinality(S) - 1)
  /\ \A e, g \in S : Cardinality(below[e]) = Cardinality(below[g]) => e = g
  /\ \A e, g \in S : e \in below[g] => Cardinality(below[e]) < Cardinality(below[g])

\* Under an order, each place is taken by one element.
LEMMA PlacesAreTaken ==
  ASSUME NEW S, IsFiniteSet(S), NEW below, IsOrder(below, S)
  PROVE  HasPlaces(below, S)
<1> DEFINE n == Cardinality(S)
           rank == [e \in S |-> Cardinality(below[e])]
<1>1. n \in Nat
  BY FS_CardinalityType
<1>2. ASSUME NEW e \in S
      PROVE  IsFiniteSet(below[e]) /\ Cardinality(below[e]) \in 0..(n - 1)
  <2>1. below[e] \in SUBSET S /\ e \notin below[e]
    BY DEF IsOrder
  <2>2. IsFiniteSet(below[e]) /\ Cardinality(below[e]) <= n
    BY <2>1, FS_Subset
  <2>3. Cardinality(below[e]) \in Nat
    BY <2>2, FS_CardinalityType
  <2>4. Cardinality(below[e]) # n
    BY <2>1, FS_Subset
  <2>5. QED BY <1>1, <2>2, <2>3, <2>4
<1>3. ASSUME NEW e \in S, NEW g \in S, e \in below[g]
      PROVE  Cardinality(below[e]) < Cardinality(below[g])
  <2>1. /\ IsFiniteSet(below[e]) /\ IsFiniteSet(below[g])
        /\ Cardinality(below[e]) \in Nat /\ Cardinality(below[g]) \in Nat
    BY <1>1, <1>2
  <2>2. below[e] \in SUBSET below[g] /\ e \notin below[e]
    <3>1. below[e] \in SUBSET S /\ below[g] \in SUBSET S
      BY DEF IsOrder
    <3>2. ASSUME NEW d \in below[e] PROVE d \in below[g]
      BY <1>3, <3>1, <3>2 DEF IsOrder
    <3>3. QED BY <3>2 DEF IsOrder
  <2>3. Cardinality(below[e]) <= Cardinality(below[g])
        /\ Cardinality(below[e]) # Cardinality(below[g])
    BY <1>3, <2>1, <2>2, FS_Subset
  <2>4. QED BY <2>1, <2>3
<1>4. rank \in Injection(S, 0..(n - 1))
  <2>1. rank \in [S -> 0..(n - 1)]
    BY <1>2
  <2>2. ASSUME NEW e \in S, NEW g \in S, rank[e] = rank[g] PROVE e = g
    <3>1. Cardinality(below[e]) \in Nat /\ Cardinality(below[g]) \in Nat
      BY <1>2
    <3>2. e \notin below[g] /\ g \notin below[e]
      BY <1>3, <2>2, <3>1
    <3>3. QED BY <3>2 DEF IsOrder
  <2>3. QED BY <2>1, <2>2 DEF Injection, IsInjective
<1>5. IsFiniteSet(0..(n - 1)) /\ Cardinality(0..(n - 1)) = n
  <2>1. 0 \in Int /\ n - 1 \in Int /\ (0 > n - 1 => n = 0) /\ (n - 1) - 0 + 1 = n
    BY <1>1
  <2> HIDE DEF n
  <2>2. QED BY <2>1, FS_Interval
<1>6. rank \in Surjection(S, 0..(n - 1))
  BY <1>1, <1>4, <1>5, FS_Injection
<1>7. ASSUME NEW i \in 1..n PROVE \E e \in S : Cardinality(below[e]) = i - 1
  <2>1. i - 1 \in 0..(n - 1)
    BY <1>1
  <2>2. PICK e \in S : rank[e] = i - 1
    BY <1>6, <2>1 DEF Surjection
  <2>3. QED BY <2>2
<1>8. ASSUME NEW e \in S, NEW g \in S, Cardinality(below[e]) = Cardinality(below[g])
      PROVE  e = g
  <2>1. rank[e] = rank[g]
    BY <1>8
  <2> HIDE DEF rank
  <2>2. QED BY <1>4, <2>1 DEF Injection, IsInjective
<1>9. QED BY <1>2, <1>3, <1>7, <1>8 DEF HasPlaces

\* So the sequence of the elements by their places has each of them once.
ByPlaces(seq, below, S) ==
  /\ DOMAIN seq = 1..Cardinality(S)
  /\ seq = [i \in DOMAIN seq |-> seq[i]]
  /\ \A i \in DOMAIN seq : seq[i] \in S /\ Cardinality(below[seq[i]]) = i - 1

\* It is an enumeration of the set in its order.
LEMMA EachHasOnePlace ==
  ASSUME NEW S, IsFiniteSet(S), NEW below, IsOrder(below, S), NEW seq,
         ByPlaces(seq, below, S)
  PROVE  /\ seq \in Seq(S) /\ Len(seq) = Cardinality(S)
         /\ seq \in Bijection(1..Len(seq), S)
         /\ \A i, j \in 1..Len(seq) : i < j => seq[i] \in below[seq[j]]
<1> DEFINE n == Cardinality(S)
<1>1. n \in Nat
  BY FS_CardinalityType
<1>2. HasPlaces(below, S)
  BY PlacesAreTaken
<1>3. \A i \in 1..n : seq[i] \in S /\ Cardinality(below[seq[i]]) = i - 1
  BY DEF ByPlaces
<1>4. seq \in [1..n -> S]
  BY DEF ByPlaces
<1> HIDE DEF n
<1>5. seq \in Seq(S) /\ Len(seq) = n
  BY <1>1, <1>4
<1>6. ASSUME NEW i \in 1..n, NEW j \in 1..n, seq[i] = seq[j] PROVE i = j
  <2>1. i - 1 = j - 1
    BY <1>3, <1>6
  <2>2. i \in Int /\ j \in Int
    BY <1>1
  <2>3. QED BY <2>1, <2>2
<1>7. ASSUME NEW e \in S PROVE \E i \in 1..n : seq[i] = e
  <2>1. Cardinality(below[e]) \in 0..(n - 1)
    BY <1>2 DEF HasPlaces, n
  <2>2. \A k \in 0..(n - 1) : k + 1 \in 1..n /\ (k + 1) - 1 = k
    BY <1>1
  <2>3. PICK i \in 1..n : i - 1 = Cardinality(below[e])
    BY <2>1, <2>2
  <2>4. seq[i] \in S /\ Cardinality(below[seq[i]]) = Cardinality(below[e])
    BY <1>3, <2>3
  <2>5. seq[i] = e
    BY <1>2, <2>4 DEF HasPlaces
  <2>6. QED BY <2>5
<1>8. seq \in Bijection(1..n, S)
  BY <1>4, <1>6, <1>7 DEF Bijection, Injection, Surjection, IsInjective
<1>9. ASSUME NEW i \in 1..n, NEW j \in 1..n, i < j PROVE seq[i] \in below[seq[j]]
  <2>1. seq[i] \in S /\ seq[j] \in S /\ seq[i] # seq[j]
    BY <1>1, <1>3, <1>6, <1>9
  <2>2. ASSUME seq[j] \in below[seq[i]] PROVE FALSE
    <3>1. Cardinality(below[seq[j]]) < Cardinality(below[seq[i]])
      BY <1>2, <2>1, <2>2 DEF HasPlaces
    <3>2. Cardinality(below[seq[j]]) = j - 1 /\ Cardinality(below[seq[i]]) = i - 1
      BY <1>3
    <3>3. QED BY <1>1, <1>9, <3>1, <3>2
  <2>3. QED BY <2>1, <2>2 DEF IsOrder
<1>10. QED BY <1>5, <1>8, <1>9 DEF n

\* Each event has one place, after the earlier ones.
LEMMA InOrderIsComplete ==
  ASSUME NEW E, Ordered(E)
  PROVE  LET seq == InOrder(E, Earlier) IN
         /\ seq \in Seq(E)
         /\ seq \in Bijection(1..Len(seq), E)
         /\ \A i, j \in 1..Len(seq) : i < j => Earlier(seq[i], seq[j])
<1> DEFINE below == [e \in E |-> {f \in E : Earlier(f, e)}]
           seq == InOrder(E, Earlier)
           n == Cardinality(E)
<1>1. IsFiniteSet(E)
  BY DEF Ordered
<1>2. IsOrder(below, E)
  BY EarlierIsAnOrder DEF IsOrder
<1>3. HasPlaces(below, E)
  BY <1>1, <1>2, PlacesAreTaken
<1>4. seq = [i \in 1..n |->
               CHOOSE e \in E : Cardinality({f \in E : Earlier(f, e)}) = i - 1]
  BY DEF InOrder
<1>5. ASSUME NEW i \in 1..n
      PROVE  seq[i] \in E /\ Cardinality(below[seq[i]]) = i - 1
  <2>1. PICK e \in E : Cardinality(below[e]) = i - 1
    BY <1>3 DEF HasPlaces
  <2>2. Cardinality({f \in E : Earlier(f, e)}) = i - 1
    BY <2>1
  <2>3. seq[i] = CHOOSE d \in E : Cardinality({f \in E : Earlier(f, d)}) = i - 1
    BY <1>4
  <2> HIDE DEF seq
  <2>4. seq[i] \in E /\ Cardinality({f \in E : Earlier(f, seq[i])}) = i - 1
    BY <2>2, <2>3
  <2>5. QED BY <2>4
<1> HIDE DEF below
<1>6. DOMAIN seq = 1..n /\ seq = [i \in DOMAIN seq |-> seq[i]]
  BY <1>4
<1> HIDE DEF seq, n
<1>7. ByPlaces(seq, below, E)
  BY <1>5, <1>6 DEF ByPlaces, n
<1>8. /\ seq \in Seq(E) /\ seq \in Bijection(1..Len(seq), E)
      /\ \A i, j \in 1..Len(seq) : i < j => seq[i] \in below[seq[j]]
  BY <1>1, <1>2, <1>7, EachHasOnePlace
<1>9. \A i, j \in 1..Len(seq) : i < j => Earlier(seq[i], seq[j])
  <2>1. \A i \in 1..Len(seq) : seq[i] \in E
    BY <1>8
  <2>2. QED BY <1>8, <2>1 DEF below
<1>10. QED BY <1>8, <1>9 DEF seq

\* The timeline has each event once, after the earlier ones.
LEMMA TimelineIsComplete ==
  ASSUME NEW trades, AreTrades(trades), NEW actions, AreActions(actions)
  PROVE  LET seq == BuildTimeline(trades, actions) IN
         /\ seq \in Seq(Events(trades, actions))
         /\ \A i, j \in 1..Len(seq) : seq[i] = seq[j] => i = j
         /\ \A i, j \in 1..Len(seq) : i < j => Earlier(seq[i], seq[j])
         /\ \A e \in Events(trades, actions) : \E i \in 1..Len(seq) : seq[i] = e
<1>1. Ordered(Events(trades, actions))
  BY EventsAreOrdered
<1>2. BuildTimeline(trades, actions) = InOrder(Events(trades, actions), Earlier)
  BY DEF BuildTimeline, Events
<1>3. LET seq == BuildTimeline(trades, actions) IN
      /\ seq \in Seq(Events(trades, actions))
      /\ seq \in Bijection(1..Len(seq), Events(trades, actions))
      /\ \A i, j \in 1..Len(seq) : i < j => Earlier(seq[i], seq[j])
  BY <1>1, <1>2, InOrderIsComplete
<1>4. QED BY <1>3 DEF Bijection, Injection, Surjection, IsInjective

(***************************************************************************)
(* The states of a replay of trades.                                       *)
(***************************************************************************)
LotStates == [src : Nat, orig : Nat, rem : Nat, unit : Nat, openedAt : Nat]

SellIds(trades) == {r.id : r \in {x \in trades : x.type = "sell"}}

ReplayStates(trades) ==
  [lots : Seq(LotStates), fills : [SellIds(trades) -> SUBSET Fills],
   openedAt : Nat, ok : BOOLEAN]

\* The lots of a replay are lots that Consume can take.
LEMMA LotStatesAreLots == AreLots(LotStates)
BY DEF AreLots, LotStates, WithRem

\* An event is a split with a ratio, or a trade of the scope.
LEMMA EventTypes ==
  ASSUME NEW trades, AreTrades(trades), NEW actions, AreActions(actions),
         NEW e \in Events(trades, actions)
  PROVE  /\ e.kind \in {"split", "buy", "sell"}
         /\ e.kind = "split" => e.ratio.num \in Nat \ {0} /\ e.ratio.den \in Nat \ {0}
         /\ e.kind # "split" => e.priority = 1 /\ \E r \in trades :
              /\ r.id = e.id /\ r.type = e.kind /\ r.qty = e.qty
              /\ e.id \in Nat /\ e.time \in Nat /\ e.qty \in Nat \ {0} /\ e.amount \in Nat
BY DEF Events, SplitEvents, TradeEvents, AreTrades, AreActions

\* A split leaves a lot a lot, of the same buy.
LEMMA SplitLotTypes ==
  ASSUME NEW lot \in LotStates, NEW e,
         e.ratio.num \in Nat \ {0}, e.ratio.den \in Nat \ {0}
  PROVE  SplitLot(lot, e) \in LotStates /\ SplitLot(lot, e).src = lot.src
<1> DEFINE num == e.ratio.num
           den == e.ratio.den
<1>1. \A q \in Nat : q * num \in Nat /\ q * den \in Nat
  OBVIOUS
<1>2. \A a \in Nat, b \in Nat \ {0} : a \div b \in Nat
  OBVIOUS
<1>3. num \in Nat \ {0} /\ den \in Nat \ {0} /\ 2 * den \in Nat \ {0}
  OBVIOUS
<1>4. ASSUME NEW q \in Nat
      PROVE  SplitQuantity(q, e.ratio, e.market) \in Nat /\ (q * den) \div num \in Nat
  <2>1. q * num \in Nat /\ q * den \in Nat /\ 2 * (q * num) + den \in Nat
    BY <1>1, <1>3
  <2> HIDE DEF num, den
  <2>2. (2 * (q * num) + den) \div (2 * den) \in Nat /\ (q * num) \div den \in Nat
        /\ (q * den) \div num \in Nat
    BY <1>2, <1>3, <2>1
  <2>3. QED BY <2>2 DEF SplitQuantity, RoundTwShareQuantity, num, den
<1>5. CASE lot.rem = 0
  BY <1>5 DEF SplitLot
<1>6. CASE lot.rem # 0
  <2>1. lot.rem \in Nat /\ lot.orig \in Nat /\ lot.unit \in Nat
    BY DEF LotStates
  <2>2. /\ SplitQuantity(lot.rem, e.ratio, e.market) \in Nat
        /\ SplitQuantity(lot.orig, e.ratio, e.market) \in Nat
        /\ (lot.unit * e.ratio.den) \div e.ratio.num \in Nat
    BY <1>4, <2>1
  <2>3. QED BY <1>6, <2>2 DEF SplitLot, LotStates
<1>7. QED BY <1>5, <1>6

\* An event of the timeline takes a replay state to a replay state.
LEMMA ReplayEventTypes ==
  ASSUME NEW trades, AreTrades(trades), NEW actions, AreActions(actions),
         NEW e \in Events(trades, actions), NEW st \in ReplayStates(trades)
  PROVE  ReplayEvent(st, e) \in ReplayStates(trades)
<1>0. /\ st.lots \in Seq(LotStates) /\ st.openedAt \in Nat /\ st.ok \in BOOLEAN
      /\ st.fills \in [SellIds(trades) -> SUBSET Fills]
  BY DEF ReplayStates
<1>1. CASE e.kind = "split"
  <2> DEFINE after == [i \in DOMAIN st.lots |-> SplitLot(st.lots[i], e)]
  <2>1. e.ratio.num \in Nat \ {0} /\ e.ratio.den \in Nat \ {0}
    BY <1>1, EventTypes
  <2>2. \A lot \in LotStates : SplitLot(lot, e) \in LotStates
    BY <2>1, SplitLotTypes
  <2>3. after \in Seq(LotStates)
    BY <1>0, <2>2
  <2>4. ReplayEvent(st, e) = [st EXCEPT !.lots = after]
    BY <1>1 DEF ReplayEvent, ReplaySplit
  <2> HIDE DEF after
  <2>5. QED BY <1>0, <2>3, <2>4 DEF ReplayStates
<1>2. CASE e.kind = "buy"
  <2> DEFINE lot == [src |-> e.id, orig |-> e.qty, rem |-> e.qty,
                     unit |-> e.amount \div e.qty, openedAt |-> e.time]
             opened == IF SumOpenQuantity(st.lots) = 0 THEN e.time ELSE st.openedAt
  <2>1. e.id \in Nat /\ e.time \in Nat /\ e.qty \in Nat \ {0} /\ e.amount \in Nat
    BY <1>2, EventTypes
  <2>2. e.amount \div e.qty \in Nat
    BY <2>1
  <2>3. lot \in LotStates /\ opened \in Nat
    BY <1>0, <2>1, <2>2 DEF LotStates
  <2>4. ReplayEvent(st, e) = [st EXCEPT !.lots = Append(st.lots, lot),
                                        !.openedAt = opened]
    BY <1>2 DEF ReplayEvent, ReplayBuy
  <2> HIDE DEF lot, opened
  <2>5. Append(st.lots, lot) \in Seq(LotStates)
    BY <1>0, <2>3
  <2>6. QED BY <1>0, <2>3, <2>4, <2>5 DEF ReplayStates
<1>3. CASE e.kind = "sell"
  <2> DEFINE consumed == Consume(st.lots, e.qty)
  <2>1. e.qty \in Nat
    BY <1>3, EventTypes
  <2>2. consumed \in ConsumeStates(LotStates)
    <3>1. PICK r \in [0..Len(st.lots) -> ConsumeStates(LotStates)] :
            ConsumeRun(r, st.lots, e.qty)
      BY <1>0, <2>1, LotStatesAreLots, ConsumeRuns
    <3>2. Len(st.lots) \in 0..Len(st.lots)
      BY <1>0
    <3>3. QED BY <3>1, <3>2 DEF ConsumeRun
  <2>3. ReplayEvent(st, e) = [st EXCEPT !.lots = consumed.lots,
                                        !.fills = [st.fills EXCEPT ![e.id] = consumed.fills],
                                        !.ok = st.ok /\ consumed.toSell = 0]
    BY <1>3 DEF ReplayEvent, ReplaySell
  <2> HIDE DEF consumed
  <2>4. consumed.lots \in Seq(LotStates) /\ consumed.fills \in SUBSET Fills
    BY <2>2 DEF ConsumeStates
  <2>5. [st.fills EXCEPT ![e.id] = consumed.fills] \in [SellIds(trades) -> SUBSET Fills]
    BY <1>0, <2>4
  <2>6. (st.ok /\ consumed.toSell = 0) \in BOOLEAN
    OBVIOUS
  <2>7. QED BY <1>0, <2>3, <2>4, <2>5, <2>6 DEF ReplayStates
<1>4. QED BY <1>1, <1>2, <1>3, EventTypes

\* What a replay has computed after each event of its timeline.
ReplayRun(r, trades, actions) ==
  LET seq == BuildTimeline(trades, actions) IN
  /\ r[0] = EmptyReplay(trades)
  /\ \A i \in 1..Len(seq) : r[i] = ReplayEvent(r[i - 1], seq[i])
  /\ ReplayScopeLedger(trades, actions) = r[Len(seq)]

\* A replay computes a state after each event, and returns the last.
LEMMA ReplayRuns ==
  ASSUME NEW trades, AreTrades(trades), NEW actions, AreActions(actions)
  PROVE  \E r \in [0..Len(BuildTimeline(trades, actions)) -> ReplayStates(trades)] :
           ReplayRun(r, trades, actions)
<1> DEFINE seq == BuildTimeline(trades, actions)
           n == Len(seq)
           T == ReplayStates(trades)
           base == EmptyReplay(trades)
           step == [i \in 1..n |-> [st \in T |-> ReplayEvent(st, seq[i])]]
           IsFold(g) == g = [s \in SUBSET (DOMAIN seq) |->
                               IF s = {} THEN base
                               ELSE ReplayEvent(g[s \ {Max(s)}], seq[Max(s)])]
<1>1. n \in Nat /\ DOMAIN seq = 1..n
      /\ \A i \in 1..n : seq[i] \in Events(trades, actions)
  BY TimelineIsComplete
<1>2. ReplayScopeLedger(trades, actions) = (CHOOSE g : IsFold(g))[DOMAIN seq]
  BY DEF ReplayScopeLedger, FoldLeft, MapThenFoldSet
<1>3. base \in T
  <2>1. <<>> \in Seq(LotStates)
    OBVIOUS
  <2>2. [s \in SellIds(trades) |-> {}] \in [SellIds(trades) -> SUBSET Fills]
    OBVIOUS
  <2>3. base = [lots |-> <<>>, fills |-> [s \in SellIds(trades) |-> {}],
                openedAt |-> 0, ok |-> TRUE]
    BY DEF EmptyReplay, SellIds
  <2> HIDE DEF base
  <2>4. QED BY <2>1, <2>2, <2>3 DEF ReplayStates
<1>4. \A i \in 1..n, st \in T : ReplayEvent(st, seq[i]) \in T
  BY <1>1, ReplayEventTypes
<1>5. step \in [1..n -> [T -> T]]
  <2> HIDE DEF T, seq
  <2>1. QED BY <1>4
<1> HIDE DEF T, base, seq
<1>6. \E g : IsFold(g)
  <2>1. PICK g \in [SUBSET (1..n) -> T] : Folds(g, n, base, step)
    <3> HIDE DEF step, n
    <3>1. QED BY <1>1, <1>3, <1>5, FoldExists
  <2>2. ASSUME NEW s \in SUBSET (1..n), s # {}
        PROVE  step[Max(s)][g[s \ {Max(s)}]] = ReplayEvent(g[s \ {Max(s)}], seq[Max(s)])
    <3>1. Max(s) \in s
      <4> HIDE DEF n
      <4>1. QED BY <1>1, <2>2, GreatestNumber
    <3>2. Max(s) \in 1..n /\ g[s \ {Max(s)}] \in T
      BY <3>1
    <3>3. QED BY <3>2
  <2>3. IsFold(g)
    <3> HIDE DEF step
    <3>1. QED BY <1>1, <2>1, <2>2 DEF Folds
  <2> HIDE DEF IsFold
  <2>4. QED BY <2>3
<1>7. PICK g : g = (CHOOSE h : IsFold(h)) /\ IsFold(g)
  <2> HIDE DEF IsFold
  <2>1. QED BY <1>6
<1> DEFINE r == [i \in 0..n |-> g[1..i]]
<1>8. r[0] = base
  <2>1. 1..0 = {} /\ 0 \in 0..n
    BY <1>1
  <2>2. r[0] = g[{}]
    BY <2>1
  <2>3. g[{}] = base
    BY <1>7
  <2>4. QED BY <2>2, <2>3
<1>9. ASSUME NEW i \in 1..n PROVE r[i] = ReplayEvent(r[i - 1], seq[i])
  <2>1. i \in Nat \ {0} /\ i \in 0..n /\ i - 1 \in 0..n /\ 1..i \in SUBSET (1..n)
    BY <1>1
  <2>2. 1..i # {} /\ Max(1..i) = i /\ (1..i) \ {i} = 1..(i - 1)
    BY <2>1, LastPlace
  <2>3. \A s \in SUBSET (1..n) : s # {} =>
          g[s] = ReplayEvent(g[s \ {Max(s)}], seq[Max(s)])
    BY <1>1, <1>7
  <2>4. g[1..i] = ReplayEvent(g[(1..i) \ {Max(1..i)}], seq[Max(1..i)])
    BY <2>1, <2>2, <2>3
  <2>5. r[i] = g[1..i] /\ r[i - 1] = g[1..(i - 1)]
    BY <2>1
  <2> HIDE DEF r
  <2>6. QED BY <2>2, <2>4, <2>5, Zenon
<1>10. r \in [0..n -> T]
  <2> DEFINE A == {i \in 0..n : r[i] \in T}
  <2>1. 0 \in A
    BY <1>1, <1>3, <1>8
  <2>2. ASSUME NEW i \in 1..n, i - 1 \in A PROVE i \in A
    <3> HIDE DEF r, n
    <3>1. i \in 0..n /\ i - 1 \in 0..n
      BY <1>1
    <3>2. r[i - 1] \in T
      BY <2>2, <3>1
    <3>3. r[i] = ReplayEvent(r[i - 1], seq[i])
      BY <1>9
    <3>4. r[i] \in T
      BY <1>4, <3>2, <3>3
    <3>5. QED BY <3>1, <3>4
  <2>3. 0..n \subseteq A
    <3> HIDE DEF A, n
    <3>1. QED BY <1>1, <2>1, <2>2, PlaceByPlace
  <2>4. QED BY <2>3
<1>11. ReplayScopeLedger(trades, actions) = r[n]
  BY <1>1, <1>2, <1>7
<1>12. ReplayRun(r, trades, actions)
  BY <1>8, <1>9, <1>11 DEF ReplayRun, base, seq
<1>13. QED BY <1>10, <1>12 DEF T, seq

(***************************************************************************)
(* What a replay has established after i events: each lot comes from a buy *)
(* that it has seen and no two come from the same one, and while it is     *)
(* feasible every sell that it has seen is matched in full, by one fill    *)
(* for each of the lots that it consumed.                                  *)
(***************************************************************************)
Covered(fills, held) ==
  \A f \in fills : \E k \in DOMAIN held : held[k].src = f.src

SoldInFull(fills, q, held) ==
  /\ IsFiniteSet(fills)
  /\ OneFillEach(fills)
  /\ Filled(fills) = q
  /\ Covered(fills, held)

SellsMatched(st, seq, i) ==
  \A j \in 1..i :
    seq[j].kind = "sell" => SoldInFull(st.fills[seq[j].id], seq[j].qty, st.lots)

FromBuys(held, seq, i) ==
  \A k \in DOMAIN held :
    \E j \in 1..i : seq[j].kind = "buy" /\ seq[j].id = held[k].src

Replayed(st, seq, i) ==
  /\ FromBuys(st.lots, seq, i)
  /\ SourcesDiffer(st.lots)
  /\ st.ok => SellsMatched(st, seq, i)

\* Two different trades of a timeline have different identifiers.
TradesDiffer(seq) ==
  \A i, j \in DOMAIN seq :
    seq[i].kind # "split" /\ seq[j].kind # "split" /\ seq[i].id = seq[j].id
      => i = j

\* The trades of a timeline differ in their identifiers.
LEMMA TimelineTradesDiffer ==
  ASSUME NEW trades, AreTrades(trades), NEW actions, AreActions(actions)
  PROVE  TradesDiffer(BuildTimeline(trades, actions))
<1> DEFINE seq == BuildTimeline(trades, actions)
<1>1. /\ seq \in Seq(Events(trades, actions))
      /\ \A i, j \in 1..Len(seq) : seq[i] = seq[j] => i = j
  BY TimelineIsComplete
<1>2. ASSUME NEW e \in Events(trades, actions), NEW f \in Events(trades, actions),
             e.kind # "split", f.kind # "split", e.id = f.id
      PROVE  e = f
  <2>1. PICK r \in trades :
          e = [kind |-> r.type, time |-> r.time, priority |-> 1, id |-> r.id,
               qty |-> r.qty, amount |-> r.amount]
    BY <1>2 DEF Events, SplitEvents, TradeEvents
  <2>2. PICK q \in trades :
          f = [kind |-> q.type, time |-> q.time, priority |-> 1, id |-> q.id,
               qty |-> q.qty, amount |-> q.amount]
    BY <1>2 DEF Events, SplitEvents, TradeEvents
  <2>3. r = q
    BY <1>2, <2>1, <2>2 DEF AreTrades
  <2>4. QED BY <2>1, <2>2, <2>3
<1> HIDE DEF seq
<1>3. TradesDiffer(seq)
  BY <1>1, <1>2 DEF TradesDiffer
<1>4. QED BY <1>3 DEF seq

\* Lots with the same sources in the same places.
SameSources(held, after) ==
  DOMAIN held = DOMAIN after /\ \A k \in DOMAIN held : after[k].src = held[k].src

\* What is said of sources stays true of lots with the same sources.
LEMMA SameSourcesKeep ==
  ASSUME NEW held, NEW after, SameSources(held, after)
  PROVE  /\ SourcesDiffer(held) => SourcesDiffer(after)
         /\ \A seq, i : FromBuys(held, seq, i) => FromBuys(after, seq, i)
         /\ \A fills, q : SoldInFull(fills, q, held) => SoldInFull(fills, q, after)
BY DEF SameSources, SourcesDiffer, FromBuys, SoldInFull, Covered

\* A split changes quantities and unit costs, and no source.
LEMMA SplitKeepsReplay ==
  ASSUME NEW trades, AreTrades(trades), NEW actions, AreActions(actions),
         NEW st \in ReplayStates(trades), NEW seq, NEW i \in Nat \ {0},
         seq[i] \in Events(trades, actions), seq[i].kind = "split",
         Replayed(st, seq, i - 1)
  PROVE  Replayed(ReplayEvent(st, seq[i]), seq, i)
<1> DEFINE e == seq[i]
           after == [k \in DOMAIN st.lots |-> SplitLot(st.lots[k], e)]
           nst == ReplayEvent(st, e)
<1>1. nst = [st EXCEPT !.lots = after]
  BY DEF ReplayEvent, ReplaySplit
<1>2. nst.lots = after /\ nst.fills = st.fills /\ nst.ok = st.ok
  <2> HIDE DEF after, nst
  <2>1. QED BY <1>1 DEF ReplayStates
<1>3. SameSources(st.lots, after)
  <2>1. e.ratio.num \in Nat \ {0} /\ e.ratio.den \in Nat \ {0}
    BY EventTypes
  <2>2. \A k \in DOMAIN st.lots : st.lots[k] \in LotStates
    BY DEF ReplayStates
  <2> HIDE DEF e
  <2>3. \A k \in DOMAIN st.lots : SplitLot(st.lots[k], e).src = st.lots[k].src
    BY <2>1, <2>2, SplitLotTypes
  <2>4. QED BY <2>3 DEF SameSources
<1>4. i \notin 1..(i - 1) /\ 1..i = (1..(i - 1)) \cup {i}
  OBVIOUS
<1> HIDE DEF after, nst
<1>5. FromBuys(nst.lots, seq, i)
  <2>1. FromBuys(after, seq, i - 1)
    BY <1>3, SameSourcesKeep DEF Replayed
  <2>2. QED BY <1>2, <1>4, <2>1 DEF FromBuys
<1>6. SourcesDiffer(nst.lots)
  BY <1>2, <1>3, SameSourcesKeep DEF Replayed
<1>7. ASSUME nst.ok PROVE SellsMatched(nst, seq, i)
  <2>1. SellsMatched(st, seq, i - 1)
    BY <1>2, <1>7 DEF Replayed
  <2>2. \A fills, q : SoldInFull(fills, q, st.lots) => SoldInFull(fills, q, after)
    BY <1>3, SameSourcesKeep
  <2>3. \A j \in 1..(i - 1) : seq[j].kind = "sell" =>
          SoldInFull(nst.fills[seq[j].id], seq[j].qty, nst.lots)
    BY <1>2, <2>1, <2>2 DEF SellsMatched
  <2>4. seq[i].kind # "sell"
    OBVIOUS
  <2>5. QED BY <1>4, <2>3, <2>4 DEF SellsMatched
<1>8. QED BY <1>5, <1>6, <1>7 DEF Replayed, nst

\* A buy appends one lot, of a source not seen before.
LEMMA BuyKeepsReplay ==
  ASSUME NEW trades, AreTrades(trades), NEW actions, AreActions(actions),
         NEW st \in ReplayStates(trades), NEW seq, NEW i \in Nat \ {0},
         1..i \subseteq DOMAIN seq, TradesDiffer(seq),
         seq[i] \in Events(trades, actions), seq[i].kind = "buy",
         Replayed(st, seq, i - 1)
  PROVE  Replayed(ReplayEvent(st, seq[i]), seq, i)
<1> DEFINE e == seq[i]
           lot == [src |-> e.id, orig |-> e.qty, rem |-> e.qty,
                   unit |-> e.amount \div e.qty, openedAt |-> e.time]
           after == Append(st.lots, lot)
           nst == ReplayEvent(st, e)
           n == Len(st.lots)
<1>1. nst = [st EXCEPT !.lots = after,
                       !.openedAt = IF SumOpenQuantity(st.lots) = 0 THEN e.time ELSE @]
  BY DEF ReplayEvent, ReplayBuy
<1>2. nst.lots = after /\ nst.fills = st.fills /\ nst.ok = st.ok
  <2> HIDE DEF after, nst
  <2>1. QED BY <1>1 DEF ReplayStates
<1>3. lot.src = e.id
  OBVIOUS
<1>4. i \notin 1..(i - 1) /\ 1..i = (1..(i - 1)) \cup {i} /\ i \in 1..i
  OBVIOUS
<1> HIDE DEF lot
<1>5. /\ n \in Nat /\ DOMAIN st.lots = 1..n /\ DOMAIN after = 1..(n + 1)
      /\ \A k \in 1..n : after[k] = st.lots[k]
      /\ after[n + 1] = lot
  <2>1. st.lots \in Seq(LotStates)
    BY DEF ReplayStates
  <2>2. QED BY <2>1
<1> HIDE DEF after, nst, n
<1>6. \A k \in 1..(n + 1) : k # n + 1 => k \in 1..n
  BY <1>5
<1>7. FromBuys(nst.lots, seq, i)
  <2>1. \A k \in 1..n : \E j \in 1..(i - 1) :
          seq[j].kind = "buy" /\ seq[j].id = st.lots[k].src
    BY <1>5 DEF Replayed, FromBuys
  <2>2. \A k \in 1..(n + 1) : \E j \in 1..i :
          seq[j].kind = "buy" /\ seq[j].id = after[k].src
    BY <1>3, <1>4, <1>5, <1>6, <2>1
  <2>3. QED BY <1>2, <1>5, <2>2 DEF FromBuys
<1>8. SourcesDiffer(nst.lots)
  <2>1. ASSUME NEW k \in 1..n PROVE st.lots[k].src # e.id
    <3>1. PICK j \in 1..(i - 1) : seq[j].kind = "buy" /\ seq[j].id = st.lots[k].src
      BY <1>5 DEF Replayed, FromBuys
    <3>2. j # i /\ j \in 1..i
      BY <1>4
    <3>3. QED BY <1>4, <3>1, <3>2 DEF TradesDiffer
  <2>2. SourcesDiffer(st.lots)
    BY DEF Replayed
  <2>3. QED BY <1>2, <1>3, <1>5, <1>6, <2>1, <2>2 DEF SourcesDiffer
<1>9. ASSUME nst.ok PROVE SellsMatched(nst, seq, i)
  <2>1. SellsMatched(st, seq, i - 1)
    BY <1>2, <1>9 DEF Replayed
  <2>2. \A k \in 1..n : k \in 1..(n + 1)
    BY <1>5
  <2>3. \A fills : Covered(fills, st.lots) => Covered(fills, after)
    BY <1>5, <2>2 DEF Covered
  <2>4. \A fills, q : SoldInFull(fills, q, st.lots) => SoldInFull(fills, q, after)
    BY <2>3 DEF SoldInFull
  <2>5. \A j \in 1..(i - 1) : seq[j].kind = "sell" =>
          SoldInFull(nst.fills[seq[j].id], seq[j].qty, nst.lots)
    BY <1>2, <2>1, <2>4 DEF SellsMatched
  <2>6. seq[i].kind # "sell"
    OBVIOUS
  <2>7. QED BY <1>4, <2>5, <2>6 DEF SellsMatched
<1>10. QED BY <1>7, <1>8, <1>9 DEF Replayed, nst

\* A feasible sell is matched in full, and keeps the matches of others.
LEMMA SellKeepsReplay ==
  ASSUME NEW trades, AreTrades(trades), NEW actions, AreActions(actions),
         NEW st \in ReplayStates(trades), NEW seq, NEW i \in Nat \ {0},
         1..i \subseteq DOMAIN seq, TradesDiffer(seq),
         \A j \in 1..i : seq[j] \in Events(trades, actions),
         seq[i].kind = "sell", Replayed(st, seq, i - 1)
  PROVE  Replayed(ReplayEvent(st, seq[i]), seq, i)
<1> DEFINE e == seq[i]
           consumed == Consume(st.lots, e.qty)
           nst == ReplayEvent(st, e)
           n == Len(st.lots)
<1>0. i \notin 1..(i - 1) /\ 1..i = (1..(i - 1)) \cup {i} /\ i \in 1..i
  OBVIOUS
<1>1. /\ e \in Events(trades, actions) /\ e.qty \in Nat /\ e.id \in SellIds(trades)
      /\ st.lots \in Seq(LotStates) /\ SourcesDiffer(st.lots)
      /\ st.fills \in [SellIds(trades) -> SUBSET Fills]
  <2>1. e \in Events(trades, actions)
    BY <1>0
  <2>2. \E r \in trades : r.id = e.id /\ r.type = e.kind /\ e.qty \in Nat
    BY <2>1, EventTypes
  <2>3. QED BY <2>1, <2>2 DEF ReplayStates, Replayed, SellIds
<1>2. nst = [st EXCEPT !.lots = consumed.lots,
                       !.fills = [st.fills EXCEPT ![e.id] = consumed.fills],
                       !.ok = st.ok /\ consumed.toSell = 0]
  BY DEF ReplayEvent, ReplaySell
<1>3. /\ nst.lots = consumed.lots
      /\ nst.fills = [st.fills EXCEPT ![e.id] = consumed.fills]
      /\ nst.ok = (st.ok /\ consumed.toSell = 0)
  <2> HIDE DEF consumed, nst, e
  <2>1. QED BY <1>2 DEF ReplayStates
<1>4. /\ consumed \in ConsumeStates(LotStates)
      /\ Consumed(consumed, st.lots, n, e.qty)
  <2> HIDE DEF e
  <2>1. QED BY <1>1, LotStatesAreLots, ConsumeIsComplete
<1>5. n \in Nat /\ DOMAIN st.lots = 1..n /\ \A k \in 1..n : st.lots[k] \in LotStates
  BY <1>1
<1> HIDE DEF consumed, nst, n
<1>6. SameSources(st.lots, nst.lots)
  <2>1. \A k \in 1..n : consumed.lots[k] = WithRem(st.lots[k], consumed.lots[k].rem)
    BY <1>4 DEF Consumed
  <2>2. DOMAIN consumed.lots = 1..n
    BY <1>4 DEF Consumed
  <2>3. \A k \in 1..n : consumed.lots[k] \in LotStates
    <3>1. consumed.lots \in Seq(LotStates)
      BY <1>4 DEF ConsumeStates
    <3>2. /\ DOMAIN consumed.lots = 1..Len(consumed.lots)
          /\ \A k \in 1..Len(consumed.lots) : consumed.lots[k] \in LotStates
      BY <3>1
    <3>3. QED BY <2>2, <3>2
  <2>4. \A k \in 1..n : consumed.lots[k].rem \in Nat
    BY <2>3 DEF LotStates
  <2>5. \A k \in 1..n : consumed.lots[k].src = st.lots[k].src
    <3>1. \A l \in LotStates : \A k \in Nat : WithRem(l, k).src = l.src
      BY LotStatesAreLots DEF AreLots
    <3>2. QED BY <1>5, <2>1, <2>4, <3>1
  <2>6. QED BY <1>3, <1>5, <2>2, <2>5 DEF SameSources
<1>7. FromBuys(nst.lots, seq, i)
  <2>1. FromBuys(nst.lots, seq, i - 1)
    BY <1>6, SameSourcesKeep DEF Replayed
  <2>2. QED BY <1>0, <2>1 DEF FromBuys
<1>8. SourcesDiffer(nst.lots)
  BY <1>6, SameSourcesKeep DEF Replayed
<1>9. ASSUME nst.ok PROVE SellsMatched(nst, seq, i)
  <2>0. st.ok /\ consumed.toSell = 0
    BY <1>3, <1>9
  <2>1. SellsMatched(st, seq, i - 1)
    BY <2>0 DEF Replayed
  <2>2. \A fills, q : SoldInFull(fills, q, st.lots) => SoldInFull(fills, q, nst.lots)
    BY <1>6, SameSourcesKeep
  <2>3. ASSUME NEW j \in 1..(i - 1), seq[j].kind = "sell"
        PROVE  SoldInFull(nst.fills[seq[j].id], seq[j].qty, nst.lots)
    <3>1. j \in 1..i /\ j # i /\ j \in DOMAIN seq /\ i \in DOMAIN seq
      BY <1>0
    <3>2. seq[j].id # e.id
      BY <2>3, <3>1 DEF TradesDiffer
    <3>3. nst.fills[seq[j].id] = st.fills[seq[j].id]
      <4>1. seq[j].id \in SellIds(trades)
        <5>1. seq[j] \in Events(trades, actions)
          BY <3>1
        <5>2. \E r \in trades : r.id = seq[j].id /\ r.type = seq[j].kind
          BY <2>3, <5>1, EventTypes
        <5>3. QED BY <2>3, <5>2 DEF SellIds
      <4>2. QED BY <1>1, <1>3, <3>2, <4>1
    <3>4. SoldInFull(st.fills[seq[j].id], seq[j].qty, st.lots)
      BY <2>1, <2>3 DEF SellsMatched
    <3>5. QED BY <2>2, <3>3, <3>4
  <2>4. SoldInFull(nst.fills[e.id], e.qty, nst.lots)
    <3>1. nst.fills[e.id] = consumed.fills
      BY <1>1, <1>3
    <3>2. /\ IsFiniteSet(consumed.fills) /\ OneFillEach(consumed.fills)
          /\ Filled(consumed.fills) + consumed.toSell = e.qty
          /\ \A f \in consumed.fills : \E k \in 1..n : f.src = st.lots[k].src
      BY <1>4 DEF Consumed
    <3>3. Filled(consumed.fills) \in Int
      <4>1. [f \in consumed.fills |-> f.qty] \in [consumed.fills -> Int]
        BY <1>4 DEF ConsumeStates, Fills
      <4>2. QED BY <3>2, <4>1, SumInt DEF Filled
    <3>4. Filled(consumed.fills) = e.qty
      BY <2>0, <3>2, <3>3
    <3>5. Covered(consumed.fills, nst.lots)
      BY <1>5, <1>6, <3>2 DEF Covered, SameSources
    <3>6. QED BY <3>1, <3>2, <3>4, <3>5 DEF SoldInFull
  <2>5. QED BY <1>0, <2>3, <2>4 DEF SellsMatched
<1>10. QED BY <1>7, <1>8, <1>9 DEF Replayed, nst

(***************************************************************************)
(* What a replay computes.  Its lots come from buys, one from each; when   *)
(* it is feasible every sell is matched in full with lots that are there.  *)
(***************************************************************************)
ReplayResult(L, trades) ==
  /\ L \in ReplayStates(trades)
  /\ SourcesDiffer(L.lots)
  /\ \A k \in DOMAIN L.lots : \E r \in trades : r.type = "buy" /\ r.id = L.lots[k].src
  /\ L.ok => \A r \in trades :
       r.type = "sell" => SoldInFull(L.fills[r.id], r.qty, L.lots)

(***************************************************************************)
(* What replayScopeLedger returns for every set of trades and splits: each *)
(* lot comes from a buy and no two from the same one, and when the replay  *)
(* does not throw every sell is matched in full, with at most one match    *)
(* for each lot, by lots that it returns.                                  *)
(***************************************************************************)
THEOREM ReplayIsComplete ==
  ASSUME NEW trades, AreTrades(trades), NEW actions, AreActions(actions)
  PROVE  ReplayResult(ReplayScopeLedger(trades, actions), trades)
<1> DEFINE seq == BuildTimeline(trades, actions)
           n == Len(seq)
           L == ReplayScopeLedger(trades, actions)
<1>1. /\ seq \in Seq(Events(trades, actions))
      /\ \A e \in Events(trades, actions) : \E i \in 1..n : seq[i] = e
      /\ TradesDiffer(seq)
  BY TimelineIsComplete, TimelineTradesDiffer
<1>2. PICK r \in [0..n -> ReplayStates(trades)] : ReplayRun(r, trades, actions)
  BY ReplayRuns
<1>3. /\ r[0] = EmptyReplay(trades)
      /\ \A i \in 1..n : r[i] = ReplayEvent(r[i - 1], seq[i])
      /\ L = r[n]
  BY <1>2 DEF ReplayRun
<1>4. n \in Nat /\ DOMAIN seq = 1..n
      /\ \A i \in 1..n : seq[i] \in Events(trades, actions)
  BY <1>1
<1> DEFINE A == {i \in 0..n : Replayed(r[i], seq, i)}
<1> HIDE DEF seq, n, L
<1>5. 0 \in A
  <2>1. r[0].lots = <<>> /\ DOMAIN <<>> = {} /\ 1..0 = {} /\ 0 \in 0..n
    BY <1>3, <1>4 DEF EmptyReplay
  <2>2. DOMAIN r[0].lots = {}
    BY <2>1
  <2>3. FromBuys(r[0].lots, seq, 0) /\ SourcesDiffer(r[0].lots)
    BY <2>2 DEF FromBuys, SourcesDiffer
  <2>4. SellsMatched(r[0], seq, 0)
    BY <2>1 DEF SellsMatched
  <2>5. QED BY <2>1, <2>3, <2>4 DEF Replayed
<1>6. ASSUME NEW i \in 1..n, i - 1 \in A PROVE i \in A
  <2>1. /\ i \in Nat \ {0} /\ i \in 0..n /\ i - 1 \in 0..n /\ 1..i \subseteq 1..n
        /\ i \in 1..i
    BY <1>4
  <2>2. Replayed(r[i - 1], seq, i - 1) /\ r[i - 1] \in ReplayStates(trades)
    BY <1>6, <2>1
  <2>3. seq[i].kind \in {"split", "buy", "sell"}
    BY <1>4, EventTypes
  <2>4. /\ \A j \in 1..i : seq[j] \in Events(trades, actions)
        /\ 1..i \subseteq DOMAIN seq
    BY <1>4, <2>1
  <2>5. seq[i] \in Events(trades, actions)
    BY <1>4
  <2>6. Replayed(ReplayEvent(r[i - 1], seq[i]), seq, i)
    <3>1. CASE seq[i].kind = "split"
      BY <2>1, <2>2, <2>5, <3>1, SplitKeepsReplay
    <3>2. CASE seq[i].kind = "buy"
      BY <1>1, <2>1, <2>2, <2>4, <2>5, <3>2, BuyKeepsReplay
    <3>3. CASE seq[i].kind = "sell"
      BY <1>1, <2>1, <2>2, <2>4, <3>3, SellKeepsReplay
    <3>4. QED BY <2>3, <3>1, <3>2, <3>3
  <2>7. QED BY <1>3, <2>1, <2>6
<1>7. Replayed(L, seq, n) /\ L \in ReplayStates(trades)
  <2> HIDE DEF A
  <2>1. 0..n \subseteq A
    BY <1>4, <1>5, <1>6, PlaceByPlace
  <2>2. n \in 0..n /\ n \in A
    BY <1>4, <2>1
  <2>3. QED BY <1>3, <2>2 DEF A
<1>8. ASSUME NEW k \in DOMAIN L.lots
      PROVE  \E x \in trades : x.type = "buy" /\ x.id = L.lots[k].src
  <2>1. PICK j \in 1..n : seq[j].kind = "buy" /\ seq[j].id = L.lots[k].src
    BY <1>7 DEF Replayed, FromBuys
  <2>2. seq[j] \in Events(trades, actions)
    BY <1>4
  <2>3. QED BY <2>1, <2>2, EventTypes
<1>9. ASSUME L.ok, NEW x \in trades, x.type = "sell"
      PROVE  SoldInFull(L.fills[x.id], x.qty, L.lots)
  <2> DEFINE e == [kind |-> x.type, time |-> x.time, priority |-> 1, id |-> x.id,
                   qty |-> x.qty, amount |-> x.amount]
  <2>1. e \in Events(trades, actions)
    BY DEF Events, TradeEvents
  <2>2. e.kind = "sell" /\ e.id = x.id /\ e.qty = x.qty
    BY <1>9
  <2> HIDE DEF e
  <2>3. PICK j \in 1..n : seq[j] = e
    BY <1>1, <2>1 DEF n
  <2>4. SellsMatched(L, seq, n)
    BY <1>7, <1>9 DEF Replayed
  <2>5. QED BY <2>2, <2>3, <2>4 DEF SellsMatched
<1>10. QED BY <1>7, <1>8, <1>9 DEF ReplayResult, Replayed, L

(***************************************************************************)
(* Sums over rows that are numbered: the rows of the numbers that count.   *)
(***************************************************************************)
Renamed(g, f, p, D) == \A x \in D : g[x] = f[p[x]]

ZeroOff(f, E, D) == E \subseteq D /\ \A x \in D \ E : f[x] = 0

OneToOne(p, D, E) == p \in Bijection(D, E)

\* The same numbers under other names, with the functions given.
LEMMA SumRenamedTo ==
  ASSUME NEW D, NEW E, NEW p, NEW f, NEW g, IsFiniteSet(D),
         OneToOne(p, D, E), IntegerOn(f, E), IntegerOn(g, D), Renamed(g, f, p, D)
  PROVE  SumFunction(f) = SumFunction(g)
<1>1. g = [x \in D |-> f[p[x]]]
  BY DEF Renamed, IntegerOn
<1>2. SumFunction(f) = SumFunction([x \in D |-> f[p[x]]])
  BY SumRenamed DEF OneToOne, IntegerOn
<1>3. QED BY <1>1, <1>2, Zenon

\* The numbers that may be nonzero have the sum of all.
LEMMA SumOfPart ==
  ASSUME NEW D, NEW E, NEW f, NEW g, IsFiniteSet(D),
         IntegerOn(f, D), IntegerOn(g, E), SameOn(g, f, E), ZeroOff(f, E, D)
  PROVE  SumFunction(f) = SumFunction(g)
<1>1. g = [x \in E |-> f[x]]
  BY DEF SameOn, IntegerOn
<1>2. E \in SUBSET D /\ \A x \in D \ E : f[x] = 0
  BY DEF ZeroOff
<1>3. SumFunction(f) = SumFunction([x \in E |-> f[x]])
  BY <1>2, SumWithoutZeros DEF IntegerOn
<1>4. QED BY <1>1, <1>3, Zenon

Numbers(row, n, P, Q, f, w) ==
  /\ P \subseteq 1..n /\ Q = {row[i] : i \in P}
  /\ \A i, j \in P : row[i] = row[j] => i = j
  /\ \A i \in (1..n) \ P : w[i] = 0
  /\ \A i \in P : f[row[i]] = w[i]

NaturalOn(f, D) == f \in [D -> Nat]

\* The sum over the rows that count is the sum over their numbers.
LEMMA SumOfRows ==
  ASSUME NEW n, NEW w, NEW row, NEW P, NEW Q, NEW f, n \in Nat,
         NaturalOn(w, 1..n), NaturalOn(f, Q), Numbers(row, n, P, Q, f, w)
  PROVE  SumFunction(f) = SumFunction(w)
<1> DEFINE p == [i \in P |-> row[i]]
           v == [i \in P |-> w[i]]
<1>1. IsFiniteSet(1..n) /\ IsFiniteSet(P) /\ P \subseteq 1..n
  <2>1. IsFiniteSet(1..n)
    BY FS_Interval
  <2>2. P \in SUBSET (1..n)
    BY DEF Numbers
  <2>3. QED BY <2>1, <2>2, FS_Subset
<1>2. OneToOne(p, P, Q)
  <2>1. p \in [P -> Q]
    BY DEF Numbers
  <2>2. \A i, j \in P : p[i] = p[j] => i = j
    BY DEF Numbers
  <2>3. \A y \in Q : \E i \in P : p[i] = y
    BY DEF Numbers
  <2> HIDE DEF p
  <2>4. QED BY <2>1, <2>2, <2>3 DEF OneToOne, Bijection, Injection, Surjection, IsInjective
<1>3. IntegerOn(f, Q) /\ IntegerOn(w, 1..n) /\ IntegerOn(v, P)
  BY <1>1 DEF NaturalOn, IntegerOn
<1>4. Renamed(v, f, p, P)
  BY DEF Numbers, Renamed
<1>5. SameOn(v, w, P) /\ ZeroOff(w, P, 1..n)
  BY DEF Numbers, SameOn, ZeroOff
<1> HIDE DEF p, v
<1>6. SumFunction(f) = SumFunction(v)
  BY <1>1, <1>2, <1>3, <1>4, SumRenamedTo
<1>7. SumFunction(w) = SumFunction(v)
  BY <1>1, <1>3, <1>5, SumOfPart
<1>8. QED BY <1>6, <1>7

\* The rows of a sequence of lots, and those still open.
RowsOf(s, seq) == {LotRow(s, seq[i]) : i \in DOMAIN seq}

OpenOf(rows) == {l \in rows : l.rem > 0}

\* Rows of lots hold what the sequence of lots says they do.
LEMMA LotsOfSequence ==
  ASSUME NEW s, NEW E, AreLots(E), NEW seq \in Seq(E), SourcesDiffer(seq)
  PROVE  /\ IsFiniteSet(RowsOf(s, seq))
         /\ SharesIn(OpenOf(RowsOf(s, seq))) = SumOpenQuantity(seq)
         /\ CostIn(OpenOf(RowsOf(s, seq))) = SumOpenCost(seq)
         /\ SumOpenQuantity(seq) \in Nat
<1> DEFINE n == Len(seq)
           P == {i \in 1..n : seq[i].rem > 0}
           Q == OpenOf(RowsOf(s, seq))
           row == [i \in 1..n |-> LotRow(s, seq[i])]
           wq == [i \in DOMAIN seq |-> seq[i].rem]
           wc == [i \in DOMAIN seq |-> seq[i].rem * seq[i].unit]
           fq == [l \in Q |-> l.rem]
           fc == [l \in Q |-> l.rem * l.unit]
<1>1. n \in Nat /\ DOMAIN seq = 1..n /\ \A i \in 1..n : seq[i] \in E
  OBVIOUS
<1>2. \A i \in 1..n : seq[i].rem \in Nat /\ seq[i].unit \in Nat /\ seq[i].src \in Nat
  BY <1>1 DEF AreLots
<1>3. \A i \in 1..n : row[i].rem = seq[i].rem /\ row[i].unit = seq[i].unit
                      /\ row[i].src = seq[i].src
  BY DEF LotRow
<1>4. \A i, j \in 1..n : row[i] = row[j] => i = j
  <2> HIDE DEF row
  <2>1. QED BY <1>1, <1>3 DEF SourcesDiffer
<1>5. RowsOf(s, seq) = {row[i] : i \in 1..n}
  BY <1>1 DEF RowsOf
<1>6. IsFiniteSet(RowsOf(s, seq))
  <2> HIDE DEF row
  <2>1. IsFiniteSet(1..n)
    BY <1>1, FS_Interval
  <2>2. [i \in 1..n |-> row[i]] \in Surjection(1..n, RowsOf(s, seq))
    BY <1>5 DEF Surjection
  <2>3. QED BY <2>1, <2>2, FS_Surjection
<1>7. Q = {row[i] : i \in P}
  <2> HIDE DEF row
  <2>1. QED BY <1>3, <1>5 DEF OpenOf
<1>8. P \in SUBSET (1..n)
  OBVIOUS
<1>9. \A i \in (1..n) \ P : seq[i].rem = 0
  BY <1>2
<1>10. wq \in [1..n -> Nat] /\ wc \in [1..n -> Nat]
  BY <1>1, <1>2
<1>11. fq \in [Q -> Nat] /\ fc \in [Q -> Nat]
  <2> HIDE DEF row, Q, P
  <2>1. \A l \in Q : l.rem \in Nat /\ l.unit \in Nat
    BY <1>2, <1>3, <1>7, <1>8
  <2>2. QED BY <2>1
<1>12. /\ \A i \in (1..n) \ P : wq[i] = 0 /\ wc[i] = 0
       /\ \A i \in P : fq[row[i]] = wq[i] /\ fc[row[i]] = wc[i]
  <2>1. \A i \in P : row[i] \in Q
    BY <1>7
  <2>2. \A i \in (1..n) \ P : wq[i] = 0 /\ wc[i] = 0
    BY <1>1, <1>2, <1>9
  <2> HIDE DEF row, Q
  <2>3. \A i \in P : fq[row[i]] = row[i].rem /\ fc[row[i]] = row[i].rem * row[i].unit
    BY <2>1
  <2>4. \A i \in P : wq[i] = seq[i].rem /\ wc[i] = seq[i].rem * seq[i].unit
    BY <1>1
  <2>5. QED BY <1>3, <1>8, <2>2, <2>3, <2>4
<1> HIDE DEF n, P, row, Q, fq, fc, wq, wc
<1>13. Numbers(row, n, P, Q, fq, wq) /\ Numbers(row, n, P, Q, fc, wc)
  BY <1>4, <1>7, <1>8, <1>12 DEF Numbers
<1>14. SumFunction(fq) = SumFunction(wq) /\ SumFunction(fc) = SumFunction(wc)
  <2>1. NaturalOn(wq, 1..n) /\ NaturalOn(wc, 1..n) /\ NaturalOn(fq, Q) /\ NaturalOn(fc, Q)
    BY <1>10, <1>11 DEF NaturalOn
  <2>2. QED BY <1>1, <1>13, <2>1, SumOfRows
<1>15. SumFunction(wq) \in Nat
  <2>1. IsFiniteSet(1..n)
    BY <1>1, FS_Interval
  <2>2. QED BY <1>10, <2>1, SumNat
<1>16. QED BY <1>6, <1>14, <1>15
     DEF SharesIn, CostIn, SumOpenQuantity, SumOpenCost, fq, fc, wq, wc, Q

\* The position that a sequence of lots calls for.
LEMMA PositionOfSequence ==
  ASSUME NEW s, NEW E, AreLots(E), NEW seq \in Seq(E), SourcesDiffer(seq), NEW at,
         NEW held,
         held = IF SumOpenQuantity(seq) = 0 THEN {}
                ELSE {PositionRow(s, SumOpenQuantity(seq), SumOpenCost(seq), at, TRUE)}
  PROVE  PositionFits(held, OpenOf(RowsOf(s, seq)))
<1>1. /\ SharesIn(OpenOf(RowsOf(s, seq))) = SumOpenQuantity(seq)
      /\ CostIn(OpenOf(RowsOf(s, seq))) = SumOpenCost(seq)
  BY LotsOfSequence
<1>2. CASE SumOpenQuantity(seq) = 0
  BY <1>1, <1>2 DEF PositionFits
<1>3. CASE SumOpenQuantity(seq) # 0
  <2> DEFINE p == PositionRow(s, SumOpenQuantity(seq), SumOpenCost(seq), at, TRUE)
  <2>1. held = {p}
    BY <1>3
  <2>2. p.qty = SumOpenQuantity(seq) /\ p.cost = SumOpenCost(seq)
    BY DEF PositionRow
  <2> HIDE DEF p
  <2>3. QED BY <1>1, <1>3, <2>1, <2>2 DEF PositionFits
<1>4. QED BY <1>2, <1>3

-----------------------------------------------------------------------------
(***************************************************************************)
(* A replay of a scope of a table.                                         *)
(***************************************************************************)
ScopeReplayed(L, table, s) ==
  /\ L.lots \in Seq(LotStates)
  /\ SourcesDiffer(L.lots)
  /\ \A k \in DOMAIN L.lots :
       /\ L.lots[k].src \in LiveTrades(table, s)
       /\ table[L.lots[k].src].type = "buy"
  /\ L.ok => \A t \in LiveSells(table, s) :
       /\ L.fills[t] \subseteq Fills
       /\ SoldInFull(L.fills[t], table[t].qty, L.lots)

\* The live trades of a scope are trades that a timeline can order.
LEMMA ScopeTrades ==
  ASSUME NEW table, TableFits(table), NEW s \in Scopes
  PROVE  AreTrades(ReplayTransactions(table, s))
<1> DEFINE f == [t \in LiveTrades(table, s) |->
                   [id |-> t, type |-> table[t].type, time |-> table[t].time,
                    qty |-> table[t].qty, amount |-> table[t].amount]]
<1>1. LiveTrades(table, s) \subseteq {t \in TxIds : table[t] # NoTx}
  BY DEF LiveTrades, ScopedIds
<1>2. IsFiniteSet(LiveTrades(table, s))
  BY <1>1, FS_Subset DEF TableFits
<1>3. f \in Surjection(LiveTrades(table, s), ReplayTransactions(table, s))
  BY DEF Surjection, ReplayTransactions
<1>4. IsFiniteSet(ReplayTransactions(table, s))
  <2> HIDE DEF f
  <2>1. QED BY <1>2, <1>3, FS_Surjection
<1>5. ASSUME NEW t \in LiveTrades(table, s)
      PROVE  /\ t \in Nat /\ table[t].time \in Nat
             /\ table[t].type \in {"buy", "sell"}
             /\ table[t].qty \in Nat \ {0} /\ table[t].amount \in Nat
  <2>1. t \in TxIds /\ table[t] # NoTx /\ s \in ScopesOf(table[t])
    BY DEF LiveTrades, ScopedIds
  <2>2. table[t] \in TxRow /\ ValidRow(table[t], NoAsset) /\ t \in Nat
    BY <2>1, IdsAreNumbers DEF TableFits
  <2>3. table[t].type \in {"buy", "sell"}
    BY <2>1 DEF ScopesOf
  <2>4. table[t].time \in Nat /\ table[t].qty \in Nat /\ table[t].amount \in Nat
    BY <2>2 DEF TxRow
  <2>5. table[t].qty > 0
    BY <2>2, <2>3 DEF ValidRow
  <2>6. QED BY <2>2, <2>3, <2>4, <2>5
<1>6. \A r \in ReplayTransactions(table, s) : \E t \in LiveTrades(table, s) :
        r = [id |-> t, type |-> table[t].type, time |-> table[t].time,
             qty |-> table[t].qty, amount |-> table[t].amount]
  BY DEF ReplayTransactions
<1>7. \A r \in ReplayTransactions(table, s) :
        /\ r.id \in Nat /\ r.time \in Nat /\ r.type \in {"buy", "sell"}
        /\ r.qty \in Nat \ {0} /\ r.amount \in Nat
  BY <1>5, <1>6
<1>8. \A r, q \in ReplayTransactions(table, s) : r.id = q.id => r = q
  BY <1>6
<1>9. QED BY <1>4, <1>7, <1>8 DEF AreTrades

\* So are its splits: one of an asset on a day.
LEMMA ScopeActions ==
  ASSUME SplitsFit, NEW s \in Scopes
  PROVE  AreActions(CorporateActions(s))
<1> DEFINE own == {b \in splits : b.asset = s[2]}
           f == [a \in own |->
                   [exDate |-> a.exDate, ratio |-> a.ratio,
                    market |-> IF a.asset \in TwAssets THEN "tw" ELSE "us"]]
<1>1. IsFiniteSet(own)
  BY FS_Subset DEF SplitsFit, AreSplits
<1>2. f \in Surjection(own, CorporateActions(s))
  BY DEF Surjection, CorporateActions
<1>3. IsFiniteSet(CorporateActions(s))
  <2> HIDE DEF f
  <2>1. QED BY <1>1, <1>2, FS_Surjection
<1>4. \A c \in CorporateActions(s) : \E a \in own :
        c = f[a] /\ c.exDate = a.exDate /\ c.ratio = a.ratio
  BY DEF CorporateActions
<1>5. \A a \in own : /\ a.exDate \in Nat
                     /\ a.ratio.num \in Nat \ {0} /\ a.ratio.den \in Nat \ {0}
  BY DEF SplitsFit, AreSplits, HasRatio
<1>6. \A a, b \in own : a.exDate = b.exDate => a = b
  BY DEF SplitsFit, AreSplits
<1> HIDE DEF own
<1>7. QED BY <1>3, <1>4, <1>5, <1>6 DEF AreActions

\* What a replay of a scope establishes, in terms of the table.
LEMMA ReplayFits ==
  ASSUME NEW table, TableFits(table), SplitsFit, NEW s \in Scopes
  PROVE  ScopeReplayed(Replay(table, s), table, s)
<1> DEFINE trades == ReplayTransactions(table, s)
           L == Replay(table, s)
<1>1. ReplayResult(L, trades)
  <2>1. AreTrades(trades) /\ AreActions(CorporateActions(s))
    BY ScopeTrades, ScopeActions
  <2> HIDE DEF trades
  <2>2. ReplayResult(ReplayScopeLedger(trades, CorporateActions(s)), trades)
    BY <2>1, ReplayIsComplete
  <2>3. QED BY <2>2 DEF Replay, trades
<1> HIDE DEF L
<1>2. L.lots \in Seq(LotStates) /\ SourcesDiffer(L.lots)
      /\ L.fills \in [SellIds(trades) -> SUBSET Fills]
  <2> HIDE DEF trades
  <2>1. QED BY <1>1 DEF ReplayResult, ReplayStates
<1>3. \A r \in trades : r.id \in LiveTrades(table, s) /\ r.type = table[r.id].type
  BY DEF ReplayTransactions
<1>4. \A k \in DOMAIN L.lots :
        L.lots[k].src \in LiveTrades(table, s) /\ table[L.lots[k].src].type = "buy"
  <2> HIDE DEF trades
  <2>1. QED BY <1>1, <1>3 DEF ReplayResult
<1>5. ASSUME L.ok, NEW t \in LiveSells(table, s)
      PROVE  /\ L.fills[t] \subseteq Fills
             /\ SoldInFull(L.fills[t], table[t].qty, L.lots)
  <2>1. t \in LiveTrades(table, s) /\ table[t].type = "sell"
    BY DEF LiveSells
  <2> DEFINE x == [id |-> t, type |-> table[t].type, time |-> table[t].time,
                   qty |-> table[t].qty, amount |-> table[t].amount]
  <2>2. x \in trades
    BY <2>1 DEF ReplayTransactions
  <2>3. PICK r \in trades : r.id = t /\ r.type = "sell" /\ r.qty = table[t].qty
    BY <2>1, <2>2
  <2> HIDE DEF trades
  <2>4. t \in SellIds(trades)
    BY <2>3 DEF SellIds
  <2>5. SoldInFull(L.fills[r.id], r.qty, L.lots)
    BY <1>1, <1>5, <2>3 DEF ReplayResult
  <2>6. QED BY <1>2, <2>3, <2>4, <2>5
<1>6. QED BY <1>2, <1>4, <1>5 DEF ScopeReplayed, L

-----------------------------------------------------------------------------
(***************************************************************************)
(* The match rows of a sell carry what its fills do.                       *)
(***************************************************************************)
LEMMA SoldOfFills ==
  ASSUME NEW s, NEW t, NEW fills \in SUBSET Fills, IsFiniteSet(fills)
  PROVE  SoldOf({MatchRow(s, t, f) : f \in fills}) = Filled(fills)
<1> DEFINE rows == {MatchRow(s, t, f) : f \in fills}
           p == [f \in fills |-> MatchRow(s, t, f)]
           h == [m \in rows |-> m.qty]
           v == [f \in fills |-> f.qty]
<1>1. \A f \in fills : p[f].qty = f.qty /\ p[f].src = f.src /\ p[f].unit = f.unit
  BY DEF MatchRow
<1>2. \A m \in rows : \E f \in fills : m = p[f]
  OBVIOUS
<1>3. p \in [fills -> rows]
  OBVIOUS
<1>4. h = [m \in rows |-> m.qty]
  OBVIOUS
<1> HIDE DEF p, rows, h
<1>5. OneToOne(p, fills, rows)
  <2>1. \A f, e \in fills : p[f] = p[e] => f = e
    BY <1>1 DEF Fills
  <2>2. QED BY <1>2, <1>3, <2>1 DEF OneToOne, Bijection, Injection, Surjection, IsInjective
<1>6. \A m \in rows : m.qty \in Int
  BY <1>1, <1>2 DEF Fills
<1>7. IntegerOn(h, rows) /\ IntegerOn(v, fills)
  BY <1>4, <1>6 DEF IntegerOn, Fills
<1>8. Renamed(v, h, p, fills)
  BY <1>1, <1>3, <1>4 DEF Renamed
<1> HIDE DEF v
<1>9. SumFunction(h) = SumFunction(v)
  BY <1>5, <1>7, <1>8, SumRenamedTo
<1>10. QED BY <1>9 DEF SoldOf, Filled, h, v, rows

(***************************************************************************)
(* A replay of the scopes S after rows of these scopes have changed.       *)
(***************************************************************************)
\* The old and the new scope of a row that changes are in S.
RowChanges(S) ==
  /\ TableFits(tx')
  /\ \A t \in TxIds : tx'[t] # tx[t] =>
       /\ tx[t] # NoTx => ScopesOf(tx[t]) \subseteq S
       /\ tx'[t] # NoTx => ScopesOf(tx'[t]) \subseteq S

\* A row has at most one scope.
LEMMA OneScope ==
  ASSUME NEW row, NEW s \in ScopesOf(row), NEW r \in ScopesOf(row)
  PROVE  s = r /\ s \in Scopes
BY DEF ScopesOf

\* Rows that are not of the replayed scopes do not change.
LEMMA OtherScopesAreKept ==
  ASSUME NEW S \in SUBSET Scopes, RowChanges(S),
         NEW s \in Scopes \ S
  PROVE  /\ LiveTrades(tx', s) = LiveTrades(tx, s)
         /\ LiveSells(tx', s) = LiveSells(tx, s)
         /\ \A u \in LiveTrades(tx, s) : tx'[u] = tx[u]
<1>1. \A u \in ScopedIds(tx, s) : tx'[u] = tx[u]
  BY DEF ScopedIds, RowChanges
<1>2. \A u \in ScopedIds(tx', s) : tx'[u] = tx[u]
  BY DEF ScopedIds, RowChanges
<1>3. ScopedIds(tx', s) = ScopedIds(tx, s)
  BY <1>1, <1>2 DEF ScopedIds
<1>4. LiveTrades(tx', s) = LiveTrades(tx, s)
  BY <1>1, <1>3 DEF LiveTrades
<1>5. \A u \in LiveTrades(tx, s) : tx'[u] = tx[u]
  BY <1>1 DEF LiveTrades
<1>6. QED BY <1>4, <1>5 DEF LiveSells

\* A replayed scope holds what its feasible replay returned.
LEMMA RebuiltScope ==
  ASSUME NEW S \in SUBSET Scopes, TableFits(tx'), SplitsFit, RebuildScopes(S),
         NEW s \in S
  PROVE  /\ ScopeReplayed(Replay(tx', s), tx', s)
         /\ Replay(tx', s).ok
         /\ {l \in lots' : l.scope = s} = RowsOf(s, Replay(tx', s).lots)
         /\ {p \in positions' : p.scope = s} = ReplayedPositions(tx', s)
<1>1. ScopeReplayed(Replay(tx', s), tx', s)
  BY ReplayFits
<1>2. Replay(tx', s).ok
  BY DEF RebuildScopes
<1>3. \A r \in S : \A l \in ReplayedLots(tx', r) : l.scope = r
  BY DEF ReplayedLots, LotRow
<1>4. ReplayedLots(tx', s) = RowsOf(s, Replay(tx', s).lots)
  BY DEF ReplayedLots, RowsOf
<1>5. {l \in lots' : l.scope = s} = ReplayedLots(tx', s)
  <2>1. \A l \in ReplayedLots(tx', s) : l \in lots' /\ l.scope = s
    BY <1>3 DEF RebuildScopes
  <2>2. \A l \in lots' : l.scope = s => l \in ReplayedLots(tx', s)
    BY <1>3 DEF RebuildScopes
  <2>3. QED BY <2>1, <2>2
<1>6. \A r \in S : \A p \in ReplayedPositions(tx', r) : p.scope = r
  BY DEF ReplayedPositions, PositionRow
<1>7. {p \in positions' : p.scope = s} = ReplayedPositions(tx', s)
  <2>1. \A p \in ReplayedPositions(tx', s) : p \in positions' /\ p.scope = s
    BY <1>6 DEF RebuildScopes
  <2>2. \A p \in positions' : p.scope = s => p \in ReplayedPositions(tx', s)
    BY <1>6 DEF RebuildScopes
  <2>3. QED BY <2>1, <2>2
<1>8. QED BY <1>1, <1>2, <1>4, <1>5, <1>7

\* A replay leaves the lots and positions of other scopes alone.
LEMMA RebuiltOthers ==
  ASSUME NEW S \in SUBSET Scopes, RebuildScopes(S), NEW s \in Scopes \ S
  PROVE  /\ {l \in lots' : l.scope = s} = {l \in lots : l.scope = s}
         /\ {p \in positions' : p.scope = s} = {p \in positions : p.scope = s}
<1>1. \A r \in S : \A l \in ReplayedLots(tx', r) : l.scope # s
  BY DEF ReplayedLots, LotRow
<1>2. \A r \in S : \A p \in ReplayedPositions(tx', r) : p.scope # s
  BY DEF ReplayedPositions, PositionRow
<1>3. \A l : l.scope = s => (l \in lots' <=> l \in lots)
  BY <1>1 DEF RebuildScopes
<1>4. \A p : p.scope = s => (p \in positions' <=> p \in positions)
  BY <1>2 DEF RebuildScopes
<1>5. QED BY <1>3, <1>4

\* After a replay every lot comes from a live buy of its own scope.
LEMMA RebuildKeepsLots ==
  ASSUME BookInv, NEW S \in SUBSET Scopes, IsFiniteSet(S),
         RowChanges(S), RebuildScopes(S)
  PROVE  /\ LotsFit'
         /\ \A l \in lots' : /\ l.src \in LiveTrades(tx', l.scope)
                             /\ tx'[l.src].type = "buy"
<1>0. TableFits(tx') /\ SplitsFit /\ LotsFit /\ LedgerRowsResolve
  BY DEF RowChanges, BookInv
<1>1. \A l \in lots' : l.scope \notin S => l \in lots /\ l.scope \in Scopes \ S
  BY <1>0 DEF RebuildScopes, ReplayedLots, LotRow, LotsFit, LotRows
<1>2. ASSUME NEW l \in lots', l.scope \in S
      PROVE  \E k \in DOMAIN Replay(tx', l.scope).lots :
               l = LotRow(l.scope, Replay(tx', l.scope).lots[k])
  <2>1. l \in RowsOf(l.scope, Replay(tx', l.scope).lots)
    <3> DEFINE s == l.scope
    <3>1. {x \in lots' : x.scope = s} = RowsOf(s, Replay(tx', s).lots)
      BY <1>0, <1>2, RebuiltScope
    <3>2. QED BY <3>1
  <2>2. QED BY <2>1 DEF RowsOf
<1>3. ASSUME NEW s \in S, NEW k \in DOMAIN Replay(tx', s).lots
      PROVE  /\ Replay(tx', s).lots[k] \in LotStates
             /\ Replay(tx', s).lots[k].src \in LiveTrades(tx', s)
             /\ tx'[Replay(tx', s).lots[k].src].type = "buy"
             /\ SourcesDiffer(Replay(tx', s).lots)
  <2> DEFINE L == Replay(tx', s)
  <2>1. ScopeReplayed(L, tx', s)
    BY <1>0, RebuiltScope
  <2> HIDE DEF L
  <2>2. L.lots \in Seq(LotStates) /\ k \in DOMAIN L.lots
    BY <1>3, <2>1 DEF ScopeReplayed, L
  <2>3. L.lots[k] \in LotStates
    BY <2>2
  <2>4. /\ L.lots[k].src \in LiveTrades(tx', s) /\ tx'[L.lots[k].src].type = "buy"
        /\ SourcesDiffer(L.lots)
    BY <2>1, <2>2 DEF ScopeReplayed
  <2>5. QED BY <2>3, <2>4 DEF L
<1>4. ASSUME NEW l \in lots'
      PROVE  /\ l.src \in LiveTrades(tx', l.scope) /\ tx'[l.src].type = "buy"
             /\ l \in LotRows
  <2>1. CASE l.scope \notin S
    <3>1. l \in lots /\ l.scope \in Scopes \ S
      BY <1>1, <2>1
    <3>2. l.src \in LiveTrades(tx, l.scope) /\ tx[l.src].type = "buy"
      BY <1>0, <3>1 DEF LedgerRowsResolve
    <3>3. QED BY <1>0, <3>1, <3>2, OtherScopesAreKept DEF LotsFit
  <2>2. CASE l.scope \in S
    <3>1. PICK k \in DOMAIN Replay(tx', l.scope).lots :
            l = LotRow(l.scope, Replay(tx', l.scope).lots[k])
      BY <1>2, <2>2
    <3> DEFINE lot == Replay(tx', l.scope).lots[k]
    <3>2. /\ lot \in LotStates /\ lot.src \in LiveTrades(tx', l.scope)
          /\ tx'[lot.src].type = "buy"
      BY <1>3, <2>2
    <3>3. l = LotRow(l.scope, lot)
      BY <3>1
    <3> HIDE DEF lot
    <3>4. l.src = lot.src
      BY <3>3 DEF LotRow
    <3>5. lot.src \in TxIds
      BY <3>2 DEF LiveTrades, ScopedIds
    <3>6. l \in LotRows
      BY <2>2, <3>2, <3>3, <3>5 DEF LotRow, LotRows, LotStates
    <3>7. QED BY <3>2, <3>4, <3>6
  <2>3. QED BY <2>1, <2>2
<1>5. ASSUME NEW l \in lots', NEW k \in lots', l.scope = k.scope, l.src = k.src
      PROVE  l = k
  <2>1. CASE l.scope \notin S
    BY <1>0, <1>1, <1>5, <2>1 DEF LotsFit
  <2>2. CASE l.scope \in S
    <3> DEFINE seq == Replay(tx', l.scope).lots
    <3>1. PICK i \in DOMAIN seq : l = LotRow(l.scope, seq[i])
      BY <1>2, <2>2
    <3>2. PICK j \in DOMAIN seq : k = LotRow(l.scope, seq[j])
      BY <1>2, <1>5, <2>2
    <3>3. SourcesDiffer(seq)
      BY <1>3, <2>2, <3>1
    <3> HIDE DEF seq
    <3>4. l.src = seq[i].src /\ k.src = seq[j].src
      BY <3>1, <3>2 DEF LotRow
    <3>5. i = j
      BY <1>5, <3>3, <3>4 DEF SourcesDiffer
    <3>6. QED BY <3>1, <3>2, <3>5
  <2>3. QED BY <2>1, <2>2
<1>6. IsFiniteSet(lots')
  <2> DEFINE rebuilt == {ReplayedLots(tx', s) : s \in S}
  <2>1. IsFiniteSet(rebuilt)
    <3>1. [s \in S |-> ReplayedLots(tx', s)] \in Surjection(S, rebuilt)
      BY DEF Surjection
    <3> HIDE DEF rebuilt
    <3>2. QED BY <3>1, FS_Surjection
  <2>2. ASSUME NEW s \in S PROVE IsFiniteSet(ReplayedLots(tx', s))
    <3> DEFINE seq == Replay(tx', s).lots
    <3>1. seq \in Seq(LotStates) /\ SourcesDiffer(seq)
      BY <1>0, RebuiltScope DEF ScopeReplayed
    <3> HIDE DEF seq
    <3>2. IsFiniteSet(RowsOf(s, seq))
      BY <3>1, LotStatesAreLots, LotsOfSequence
    <3>3. QED BY <3>2 DEF ReplayedLots, RowsOf, seq
  <2>3. \A R \in rebuilt : IsFiniteSet(R)
    BY <2>2
  <2> HIDE DEF rebuilt
  <2>4. IsFiniteSet(UNION rebuilt)
    BY <2>1, <2>3, FS_UNION
  <2>5. IsFiniteSet({l \in lots : l.scope \notin S})
    BY <1>0, FS_Subset DEF LotsFit
  <2>6. lots' = {l \in lots : l.scope \notin S} \cup UNION rebuilt
    BY DEF RebuildScopes, rebuilt
  <2>7. QED BY <2>4, <2>5, <2>6, FS_Union
<1>7. QED BY <1>4, <1>5, <1>6 DEF LotsFit

\* The matches of a sell of a replayed scope are its fills.
LEMMA RebuiltMatches ==
  ASSUME NEW S \in SUBSET Scopes, RebuildScopes(S), NEW s \in S,
         NEW u \in LiveSells(tx', s)
  PROVE  MatchesOf(u, matches') = {MatchRow(s, u, f) : f \in Replay(tx', s).fills[u]}
<1> DEFINE rows == {MatchRow(s, u, f) : f \in Replay(tx', s).fills[u]}
<1>1. u \in ScopedIds(tx', s)
  BY DEF LiveSells, LiveTrades
<1>2. \A m \in rows : m \in ReplayedMatches(tx', s) /\ m.sell = u
  BY DEF ReplayedMatches, MatchRow
<1>3. ASSUME NEW m \in matches', m.sell = u PROVE m \in rows
  <2>1. PICK r \in S : m \in ReplayedMatches(tx', r)
    BY <1>1, <1>3 DEF RebuildScopes
  <2>2. PICK v \in LiveSells(tx', r) :
          \E f \in Replay(tx', r).fills[v] : m = MatchRow(r, v, f)
    BY <2>1 DEF ReplayedMatches
  <2>3. v = u
    BY <1>3, <2>2 DEF MatchRow
  <2>4. r \in ScopesOf(tx'[u]) /\ s \in ScopesOf(tx'[u])
    BY <2>2, <2>3 DEF LiveSells, LiveTrades, ScopedIds
  <2>5. r = s
    BY <2>4, OneScope
  <2>6. QED BY <2>2, <2>3, <2>5
<1>4. \A m \in rows : m \in matches'
  BY <1>2 DEF RebuildScopes
<1> HIDE DEF rows
<1>5. MatchesOf(u, matches') = rows
  BY <1>2, <1>3, <1>4 DEF MatchesOf
<1>6. QED BY <1>5 DEF rows

\* The matches of a sell of another scope stay.
LEMMA KeptMatches ==
  ASSUME BookInv, NEW S \in SUBSET Scopes,
         RowChanges(S), RebuildScopes(S), NEW s \in Scopes \ S,
         NEW u \in LiveSells(tx', s)
  PROVE  MatchesOf(u, matches') = MatchesOf(u, matches)
<1>1. u \in LiveSells(tx, s) /\ tx'[u] = tx[u] /\ s \in ScopesOf(tx[u])
  BY OtherScopesAreKept DEF LiveSells, LiveTrades, ScopedIds
<1>2. \A r \in S : u \notin ScopedIds(tx', r)
  BY <1>1, OneScope DEF ScopedIds
<1>3. ASSUME NEW m \in matches, m.sell = u PROVE m \in matches'
  <2>1. m.scope \in ScopesOf(tx[u])
    BY <1>3 DEF BookInv, LedgerRowsResolve, LiveSells, LiveTrades, ScopedIds
  <2>2. m.scope = s
    BY <1>1, <2>1, OneScope
  <2>3. QED BY <1>2, <1>3, <2>2 DEF RebuildScopes
<1>4. ASSUME NEW m \in matches', m.sell = u PROVE m \in matches
  <2>1. \A r \in S : \A x \in ReplayedMatches(tx', r) : x.sell \in LiveSells(tx', r)
    BY DEF ReplayedMatches, MatchRow
  <2>2. \A r \in S : u \notin LiveSells(tx', r)
    BY <1>2 DEF LiveSells, LiveTrades
  <2>3. QED BY <1>4, <2>1, <2>2 DEF RebuildScopes
<1>5. QED BY <1>3, <1>4 DEF MatchesOf

\* After a replay every live sell is matched in full.
LEMMA RebuildKeepsSold ==
  ASSUME BookInv, NEW S \in SUBSET Scopes,
         RowChanges(S), RebuildScopes(S), NEW s \in Scopes,
         NEW u \in LiveSells(tx', s)
  PROVE  SoldOf(MatchesOf(u, matches')) = tx'[u].qty
<1>1. CASE s \notin S
  <2>1. MatchesOf(u, matches') = MatchesOf(u, matches)
    BY <1>1, KeptMatches
  <2>2. u \in LiveSells(tx, s) /\ tx'[u] = tx[u]
    BY <1>1, OtherScopesAreKept DEF LiveSells
  <2>3. SoldOf(MatchesOf(u, matches)) = tx[u].qty
    BY <2>2 DEF BookInv, LedgerRowsResolve
  <2>4. QED BY <2>1, <2>2, <2>3
<1>2. CASE s \in S
  <2> DEFINE L == Replay(tx', s)
  <2>1. ScopeReplayed(L, tx', s) /\ L.ok
    BY <1>2, RebuiltScope DEF RowChanges, BookInv
  <2>2. MatchesOf(u, matches') = {MatchRow(s, u, f) : f \in L.fills[u]}
    BY <1>2, RebuiltMatches
  <2> HIDE DEF L
  <2>3. L.fills[u] \in SUBSET Fills /\ SoldInFull(L.fills[u], tx'[u].qty, L.lots)
    BY <2>1 DEF ScopeReplayed
  <2>4. IsFiniteSet(L.fills[u]) /\ Filled(L.fills[u]) = tx'[u].qty
    BY <2>3 DEF SoldInFull
  <2>5. SoldOf({MatchRow(s, u, f) : f \in L.fills[u]}) = Filled(L.fills[u])
    BY <2>3, <2>4, SoldOfFills
  <2>6. QED BY <2>2, <2>4, <2>5
<1>3. QED BY <1>1, <1>2

\* After a replay every match has its sell and its lot.
LEMMA RebuildKeepsRows ==
  ASSUME BookInv, NEW S \in SUBSET Scopes,
         RowChanges(S), RebuildScopes(S), NEW m \in matches'
  PROVE  /\ m.sell \in LiveSells(tx', m.scope)
         /\ \E l \in lots' : l.scope = m.scope /\ l.src = m.src
<1>1. CASE m \in matches /\ m.scope \notin S
  <2>1. /\ m.sell \in LiveSells(tx, m.scope)
        /\ \E l \in lots : l.scope = m.scope /\ l.src = m.src
    BY <1>1 DEF BookInv, LedgerRowsResolve
  <2>2. m.scope \in Scopes \ S
    BY <1>1, <2>1, OneScope DEF LiveSells, LiveTrades, ScopedIds
  <2>3. LiveSells(tx', m.scope) = LiveSells(tx, m.scope)
    BY <2>2, OtherScopesAreKept
  <2>4. \A l \in lots : l.scope = m.scope => l \in lots'
    BY <1>1 DEF RebuildScopes
  <2>5. QED BY <2>1, <2>3, <2>4
<1>2. CASE \E s \in S : m \in ReplayedMatches(tx', s)
  <2>0. PICK s \in S : \E u \in LiveSells(tx', s) :
          \E f \in Replay(tx', s).fills[u] : m = MatchRow(s, u, f)
    BY <1>2 DEF ReplayedMatches
  <2>1. PICK u \in LiveSells(tx', s) :
          \E f \in Replay(tx', s).fills[u] : m = MatchRow(s, u, f)
    BY <2>0
  <2> DEFINE L == Replay(tx', s)
  <2>2. ScopeReplayed(L, tx', s) /\ L.ok
        /\ {l \in lots' : l.scope = s} = RowsOf(s, L.lots)
    BY RebuiltScope DEF RowChanges, BookInv
  <2>3. PICK f \in L.fills[u] : m = MatchRow(s, u, f)
    BY <2>1
  <2> HIDE DEF L
  <2>4. PICK k \in DOMAIN L.lots : L.lots[k].src = f.src
    BY <2>2, <2>3 DEF ScopeReplayed, SoldInFull, Covered
  <2>5. LotRow(s, L.lots[k]) \in RowsOf(s, L.lots)
    BY DEF RowsOf
  <2>6. LotRow(s, L.lots[k]).src = f.src
    BY <2>4 DEF LotRow
  <2>7. m.scope = s /\ m.sell = u /\ m.src = f.src
    BY <2>3 DEF MatchRow
  <2>8. QED BY <2>2, <2>5, <2>6, <2>7
<1>3. QED BY <1>1, <1>2 DEF RebuildScopes

\* After a replay every position is what its open lots add up to.
LEMMA RebuildKeepsPositions ==
  ASSUME BookInv, NEW S \in SUBSET Scopes,
         RowChanges(S), RebuildScopes(S)
  PROVE  PositionMatchesOpenLots'
<1> SUFFICES ASSUME NEW s \in Scopes
             PROVE  PositionFits(OpenPositions(s)', OpenLots(s)')
  BY DEF PositionMatchesOpenLots
<1>1. CASE s \notin S
  <2>1. OpenLots(s)' = OpenLots(s) /\ OpenPositions(s)' = OpenPositions(s)
    <3>1. /\ {l \in lots' : l.scope = s} = {l \in lots : l.scope = s}
          /\ {p \in positions' : p.scope = s} = {p \in positions : p.scope = s}
      BY <1>1, RebuiltOthers
    <3>2. QED BY <3>1 DEF OpenLots, OpenPositions
  <2>2. QED BY <2>1 DEF BookInv, PositionMatchesOpenLots
<1>2. CASE s \in S
  <2> DEFINE L == Replay(tx', s)
             seq == L.lots
             held == IF SumOpenQuantity(seq) = 0 THEN {}
                     ELSE {PositionRow(s, SumOpenQuantity(seq), SumOpenCost(seq),
                                       L.openedAt, TRUE)}
  <2>1. /\ ScopeReplayed(L, tx', s)
        /\ {l \in lots' : l.scope = s} = RowsOf(s, seq)
        /\ {p \in positions' : p.scope = s} = ReplayedPositions(tx', s)
    BY <1>2, RebuiltScope DEF RowChanges, BookInv
  <2>2. ReplayedPositions(tx', s) = held
    BY DEF ReplayedPositions
  <2>3. \A p \in held : p.open
    BY DEF PositionRow
  <2> HIDE DEF held, L
  <2>4. OpenPositions(s)' = held
    BY <2>1, <2>2, <2>3 DEF OpenPositions
  <2>5. OpenLots(s)' = OpenOf(RowsOf(s, seq))
    BY <2>1 DEF OpenLots, OpenOf
  <2>6. seq \in Seq(LotStates) /\ SourcesDiffer(seq)
    BY <2>1 DEF ScopeReplayed
  <2>7. PositionFits(held, OpenOf(RowsOf(s, seq)))
    <3> HIDE DEF seq
    <3>1. QED BY <2>6, LotStatesAreLots, PositionOfSequence DEF held
  <2>8. QED BY <2>4, <2>5, <2>7
<1>3. QED BY <1>1, <1>2

\* rebuildScopes, after rows of its scopes changed, keeps the book right.
LEMMA RebuildKeepsBook ==
  ASSUME BookInv, NEW S \in SUBSET Scopes, IsFiniteSet(S),
         RowChanges(S), UNCHANGED splits, RebuildScopes(S)
  PROVE  BookInv'
<1>1. TableFits(tx') /\ SplitsFit'
  BY DEF RowChanges, BookInv, SplitsFit
<1>2. /\ LotsFit'
      /\ \A l \in lots' : l.src \in LiveTrades(tx', l.scope) /\ tx'[l.src].type = "buy"
  BY RebuildKeepsLots
<1>3. \A m \in matches' : /\ m.sell \in LiveSells(tx', m.scope)
                          /\ \E l \in lots' : l.scope = m.scope /\ l.src = m.src
  BY RebuildKeepsRows
<1>4. \A s \in Scopes : \A u \in LiveSells(tx', s) :
        SoldOf(MatchesOf(u, matches')) = tx'[u].qty
  BY RebuildKeepsSold
<1>5. PositionMatchesOpenLots'
  BY RebuildKeepsPositions
<1>6. LedgerRowsResolve'
  BY <1>2, <1>3, <1>4 DEF LedgerRowsResolve
<1>7. QED BY <1>1, <1>2, <1>5, <1>6 DEF BookInv

\* A row that passes the checks of the service keeps the table right.
LEMMA OneRowWritten ==
  ASSUME TableFits(tx), NEW t \in TxIds, NEW r,
         r = NoTx \/ (r \in TxRow /\ ValidRow(r, NoAsset)),
         tx' = [tx EXCEPT ![t] = r]
  PROVE  /\ TableFits(tx')
         /\ tx'[t] = r /\ \A u \in TxIds : u # t => tx'[u] = tx[u]
<1>1. tx'[t] = r /\ \A u \in TxIds : u # t => tx'[u] = tx[u]
  BY DEF TableFits
<1>2. tx' \in [TxIds -> TxRow \cup {NoTx}]
  BY DEF TableFits
<1>3. IsFiniteSet({u \in TxIds : tx'[u] # NoTx})
  <2> DEFINE before == {u \in TxIds : tx[u] # NoTx}
  <2>1. IsFiniteSet(before)
    BY DEF TableFits
  <2>2. {u \in TxIds : tx'[u] # NoTx} \subseteq before \cup {t}
    BY <1>1
  <2> HIDE DEF before
  <2>3. IsFiniteSet(before \cup {t})
    BY <2>1, FS_AddElement
  <2>4. QED BY <2>2, <2>3, FS_Subset
<1>4. \A u \in TxIds : tx'[u] # NoTx => ValidRow(tx'[u], NoAsset)
  BY <1>1 DEF TableFits
<1>5. QED BY <1>1, <1>2, <1>3, <1>4 DEF TableFits

\* What a new row adds to the scopes.
RowIsNew(t, r) ==
  /\ TableFits(tx')
  /\ r \in TxRow /\ ValidRow(r, NoAsset)
  /\ tx[t] = NoTx /\ tx'[t] = r
  /\ \A u \in TxIds : u # t => tx'[u] = tx[u]
  /\ \A s \in Scopes :
       /\ t \notin LiveTrades(tx, s)
       /\ \A u \in LiveTrades(tx, s) : u \in LiveTrades(tx', s) /\ tx'[u] = tx[u]
       /\ \A u \in LiveTrades(tx', s) : u \in LiveTrades(tx, s) \/ u = t
       /\ t \in LiveTrades(tx', s) <=> s \in ScopesOf(r)

\* create adds one live row, and changes no other.
LEMMA InsertAddsRow ==
  ASSUME TableFits(tx), NEW t \in TxIds, NEW r \in NewRows, Insert(t, r)
  PROVE  RowIsNew(t, r)
<1>1. /\ r \in TxRow /\ ~r.deleted /\ ValidRow(r, NoAsset) /\ r # NoTx
      /\ tx[t] = NoTx /\ tx' = [tx EXCEPT ![t] = r]
  BY NoTxIsNoRow DEF NewRows, Insert, Exists
<1>2. TableFits(tx') /\ tx'[t] = r /\ \A u \in TxIds : u # t => tx'[u] = tx[u]
  BY <1>1, OneRowWritten
<1>3. ASSUME NEW s \in Scopes
      PROVE  /\ t \notin LiveTrades(tx, s)
             /\ \A u \in LiveTrades(tx, s) : u \in LiveTrades(tx', s) /\ tx'[u] = tx[u]
             /\ \A u \in LiveTrades(tx', s) : u \in LiveTrades(tx, s) \/ u = t
             /\ t \in LiveTrades(tx', s) <=> s \in ScopesOf(r)
  BY <1>1, <1>2 DEF LiveTrades, ScopedIds
<1>4. QED BY <1>1, <1>2, <1>3 DEF RowIsNew

\* What it adds to the sells of a scope.
LEMMA NewRowInSells ==
  ASSUME NEW t \in TxIds, NEW r, RowIsNew(t, r), NEW s \in Scopes
  PROVE  /\ t \notin LiveSells(tx, s)
         /\ \A u \in LiveSells(tx, s) : u \in LiveSells(tx', s) /\ tx'[u] = tx[u]
         /\ \A u \in LiveSells(tx', s) : u \in LiveSells(tx, s) \/ u = t
         /\ t \in LiveSells(tx', s) <=> s \in ScopesOf(r) /\ r.type = "sell"
BY DEF RowIsNew, LiveSells

\* A deposit, dividend or fee touches no lot, match or position.
LEMMA NewCashKeepsBook ==
  ASSUME BookInv, NEW t \in TxIds, NEW r \in NewRows, CreateCashMovement(t, r)
  PROVE  BookInv'
<1>1. RowIsNew(t, r) /\ ScopesOf(r) = {}
  BY InsertAddsRow DEF BookInv, CreateCashMovement
<1>2. UNCHANGED <<lots, matches, positions, splits>>
  BY DEF CreateCashMovement, Insert
<1>3. \A s \in Scopes : /\ LiveTrades(tx', s) = LiveTrades(tx, s)
                        /\ LiveSells(tx', s) = LiveSells(tx, s)
                        /\ \A u \in LiveTrades(tx, s) : tx'[u] = tx[u]
                        /\ \A u \in LiveSells(tx, s) : tx'[u] = tx[u]
  BY <1>1, NewRowInSells DEF RowIsNew
<1>4. TableFits(tx') /\ SplitsFit' /\ LotsFit'
  BY <1>1, <1>2 DEF BookInv, RowIsNew, SplitsFit, LotsFit
<1>5. PositionMatchesOpenLots'
  <2>1. \A s \in Scopes : OpenPositions(s)' = OpenPositions(s) /\ OpenLots(s)' = OpenLots(s)
    BY <1>2 DEF OpenPositions, OpenLots
  <2>2. QED BY <2>1 DEF BookInv, PositionMatchesOpenLots
<1>6. LedgerRowsResolve'
  <2>1. \A l \in lots : l.scope \in Scopes
    BY DEF BookInv, LotsFit, LotRows
  <2>2. \A m \in matches : m.scope \in Scopes
    BY DEF BookInv, LedgerRowsResolve, LiveSells, LiveTrades, ScopedIds, ScopesOf
  <2>3. \A l \in lots : l.src \in LiveTrades(tx', l.scope) /\ tx'[l.src].type = "buy"
    BY <1>3, <2>1 DEF BookInv, LedgerRowsResolve
  <2>4. \A m \in matches : /\ m.sell \in LiveSells(tx', m.scope)
                           /\ \E l \in lots : l.scope = m.scope /\ l.src = m.src
    BY <1>3, <2>2 DEF BookInv, LedgerRowsResolve
  <2>5. \A s \in Scopes : \A u \in LiveSells(tx', s) :
          SoldOf(MatchesOf(u, matches)) = tx'[u].qty
    BY <1>3 DEF BookInv, LedgerRowsResolve
  <2>6. QED BY <1>2, <2>3, <2>4, <2>5 DEF LedgerRowsResolve
<1>7. QED BY <1>4, <1>5, <1>6 DEF BookInv

-----------------------------------------------------------------------------
(***************************************************************************)
(* Rows of lots: their sums.                                               *)
(***************************************************************************)
LEMMA LotRowTypes ==
  /\ AreLots(LotRows)
  /\ \A l \in LotRows : /\ l.scope \in Scopes /\ l.src \in TxIds
                        /\ l.rem \in Nat /\ l.unit \in Nat
<1>1. \A l \in LotRows : l.src \in Nat /\ l.rem \in Nat /\ l.unit \in Nat
  BY IdsAreNumbers DEF LotRows
<1>2. \A l \in LotRows : \A k \in Nat :
        /\ WithRem(l, k) \in LotRows /\ WithRem(l, k).rem = k
        /\ WithRem(l, k).src = l.src /\ WithRem(l, k).unit = l.unit
  BY DEF LotRows, WithRem
<1>3. \A l \in LotRows : l.scope \in Scopes /\ l.src \in TxIds
  BY DEF LotRows
<1>4. QED BY <1>1, <1>2, <1>3 DEF AreLots

\* Rows of lots have quantities and costs that add up to numbers.
LEMMA SumsOfLots ==
  ASSUME NEW rows \in SUBSET LotRows, IsFiniteSet(rows)
  PROVE  /\ SharesIn(rows) \in Nat /\ CostIn(rows) \in Nat
         /\ \A l \in rows : l.rem <= SharesIn(rows)
<1> DEFINE q == [l \in rows |-> l.rem]
           c == [l \in rows |-> l.rem * l.unit]
<1>1. q \in [rows -> Nat] /\ c \in [rows -> Nat]
  BY LotRowTypes
<1>2. \A l \in rows : q[l] = l.rem
  OBVIOUS
<1> HIDE DEF q, c
<1>3. SumFunction(q) \in Nat /\ SumFunction(c) \in Nat
      /\ \A l \in rows : q[l] <= SumFunction(q)
  BY <1>1, SumNat
<1>4. QED BY <1>2, <1>3 DEF SharesIn, CostIn, q, c

\* One more lot adds what it holds and what that cost.
LEMMA OneMoreLot ==
  ASSUME NEW rows \in SUBSET LotRows, IsFiniteSet(rows), NEW x \in LotRows,
         x \notin rows
  PROVE  /\ SharesIn(rows \cup {x}) = x.rem + SharesIn(rows)
         /\ CostIn(rows \cup {x}) = x.rem * x.unit + CostIn(rows)
<1> DEFINE D == rows \cup {x}
           q == [l \in D |-> l.rem]
           c == [l \in D |-> l.rem * l.unit]
           q1 == [l \in rows |-> l.rem]
           c1 == [l \in rows |-> l.rem * l.unit]
<1>1. IsFiniteSet(D) /\ x \in D /\ D \in SUBSET LotRows /\ RestOf(rows, D, x)
  BY FS_AddElement DEF RestOf
<1>2. /\ IntegerOn(q, D) /\ IntegerOn(c, D) /\ IntegerOn(q1, rows) /\ IntegerOn(c1, rows)
      /\ q[x] = x.rem /\ c[x] = x.rem * x.unit
  <2> HIDE DEF D
  <2>1. \A l \in D : l.rem \in Nat /\ l.unit \in Nat
    BY <1>1, LotRowTypes
  <2>2. \A l \in D : l.rem * l.unit \in Nat
    BY <2>1
  <2>3. rows \subseteq D
    BY <1>1 DEF RestOf
  <2>4. QED BY <1>1, <2>1, <2>2, <2>3 DEF IntegerOn
<1>3. SameOn(q1, q, rows) /\ SameOn(c1, c, rows)
  BY DEF SameOn
<1> HIDE DEF D, q, c, q1, c1
<1>4. /\ SumFunction(q) = q[x] + SumFunction(q1)
      /\ SumFunction(c) = c[x] + SumFunction(c1)
  BY <1>1, <1>2, <1>3, SumOfRest
<1>5. QED BY <1>2, <1>4 DEF SharesIn, CostIn, D, q, c, q1, c1

\* Open lots that hold nothing together are none.
LEMMA NoQuantityNoLots ==
  ASSUME NEW rows \in SUBSET LotRows, IsFiniteSet(rows),
         \A l \in rows : l.rem > 0, SharesIn(rows) = 0
  PROVE  rows = {} /\ CostIn(rows) = 0
<1>1. rows = {}
  <2>1. \A l \in rows : l.rem \in Nat /\ l.rem <= 0
    BY SumsOfLots, LotRowTypes
  <2>2. QED BY <2>1
<1>2. CostIn({}) = 0
  <2> DEFINE c == [l \in {} |-> l.rem * l.unit]
  <2>1. c \in [{} -> Int] /\ DOMAIN c = {}
    OBVIOUS
  <2> HIDE DEF c
  <2>2. SumFunction(c) = 0
    BY <2>1, SumOfNone
  <2>3. QED BY <2>2 DEF CostIn, c
<1>3. QED BY <1>1, <1>2

\* The open lots of a scope, finitely many, and its position.
LEMMA OpenLotTypes ==
  ASSUME BookInv, NEW s \in Scopes
  PROVE  /\ OpenLots(s) \in SUBSET LotRows /\ IsFiniteSet(OpenLots(s))
         /\ \A l \in OpenLots(s) : l.rem > 0 /\ l.scope = s
         /\ PositionFits(OpenPositions(s), OpenLots(s))
<1>1. OpenLots(s) \subseteq lots
  BY DEF OpenLots
<1>2. IsFiniteSet(OpenLots(s)) /\ OpenLots(s) \in SUBSET LotRows
  BY <1>1, FS_Subset DEF BookInv, LotsFit
<1>3. \A l \in OpenLots(s) : l.rem > 0 /\ l.scope = s
  BY DEF OpenLots
<1>4. QED BY <1>2, <1>3 DEF BookInv, PositionMatchesOpenLots

\* syncPosition of a buy adds to the position what the new lot holds.
LEMMA NewBuyKeepsPosition ==
  ASSUME BookInv, NEW t \in TxIds, NEW r, NEW s \in ScopesOf(r),
         RowIsNew(t, r), r.type = "buy", HasExactPrice(r), SyncPosition(s, r),
         NEW x \in LotRows, x \notin lots, x.scope = s, x.rem = r.qty,
         x.unit = r.amount \div r.qty, lots' = lots \cup {x}
  PROVE  PositionMatchesOpenLots'
<1>0. r.qty \in Nat /\ r.qty > 0 /\ r.amount \in Nat
      /\ r.amount = r.qty * (r.amount \div r.qty) /\ s \in Scopes
  BY DEF RowIsNew, TxRow, ValidRow, HasExactPrice, ScopesOf
<1> SUFFICES ASSUME NEW z \in Scopes
             PROVE  PositionFits(OpenPositions(z)', OpenLots(z)')
  BY DEF PositionMatchesOpenLots
<1>1. CASE z # s
  <2>1. OpenLots(z)' = OpenLots(z)
    BY <1>1 DEF OpenLots
  <2>2. OpenPositions(z)' = OpenPositions(z)
    BY <1>1 DEF SyncPosition, IsActivePosition, OpenPositions, PositionRow
  <2>3. PositionFits(OpenPositions(z), OpenLots(z))
    BY DEF BookInv, PositionMatchesOpenLots
  <2>4. QED BY <2>1, <2>2, <2>3
<1>2. CASE z = s
  <2> DEFINE rows == OpenLots(s)
             qty == SharesIn(rows)
             cost == CostIn(rows)
  <2>1. /\ rows \in SUBSET LotRows /\ IsFiniteSet(rows)
        /\ \A l \in rows : l.rem > 0
        /\ PositionFits(OpenPositions(s), rows)
    BY <1>0, OpenLotTypes
  <2>2. OpenLots(s)' = rows \cup {x} /\ x \notin rows
    BY <1>0 DEF OpenLots
  <2> HIDE DEF rows
  <2>3. /\ SharesIn(rows \cup {x}) = r.qty + qty
        /\ CostIn(rows \cup {x}) = r.amount + cost
    BY <1>0, <2>1, <2>2, OneMoreLot
  <2>4. qty \in Nat /\ cost \in Nat
    BY <2>1, SumsOfLots
  <2>5. qty = 0 => cost = 0
    BY <2>1, NoQuantityNoLots
  <2>6. r.qty + qty # 0
    BY <1>0, <2>4
  <2> HIDE DEF qty, cost
  <2>7. CASE OpenPositions(s) = {}
    <3>1. qty = 0
      BY <2>1, <2>7 DEF PositionFits, qty
    <3> DEFINE p == PositionRow(s, r.qty, r.amount, r.time, TRUE)
    <3>2. positions' = positions \cup {p}
      BY <2>7 DEF SyncPosition, IsActivePosition
    <3>3. p.scope = s /\ p.open /\ p.qty = r.qty /\ p.cost = r.amount
      BY DEF PositionRow
    <3> HIDE DEF p
    <3>4. OpenPositions(s)' = {p}
      BY <2>7, <3>2, <3>3 DEF OpenPositions
    <3>5. p.qty = SharesIn(rows \cup {x}) /\ p.cost = CostIn(rows \cup {x})
      BY <1>0, <2>3, <2>5, <3>1, <3>3
    <3>6. PositionFits({p}, rows \cup {x})
      BY <2>3, <2>6, <3>5 DEF PositionFits
    <3>7. QED BY <1>2, <2>2, <3>4, <3>6
  <2>8. CASE OpenPositions(s) # {}
    <3>1. PICK o \in OpenPositions(s) :
            OpenPositions(s) = {o} /\ o.qty = qty /\ o.cost = cost
      BY <2>1, <2>8 DEF PositionFits, qty, cost
    <3> DEFINE p == PositionRow(s, o.qty + r.qty, o.cost + r.amount, o.openedAt, TRUE)
    <3>2. positions' = (positions \ {o}) \cup {p}
      <4>1. PICK q \in positions :
              /\ IsActivePosition(q, s)
              /\ positions' = (positions \ {q})
                   \cup {PositionRow(s, q.qty + r.qty, q.cost + r.amount, q.openedAt, TRUE)}
        BY <2>8 DEF SyncPosition
      <4>2. q = o
        BY <3>1, <4>1 DEF IsActivePosition
      <4>3. QED BY <4>1, <4>2
    <3>3. p.scope = s /\ p.open /\ p.qty = qty + r.qty /\ p.cost = cost + r.amount
      BY <3>1 DEF PositionRow
    <3> HIDE DEF p
    <3>4. OpenPositions(s)' = {p}
      BY <3>1, <3>2, <3>3 DEF OpenPositions
    <3>5. p.qty = SharesIn(rows \cup {x}) /\ p.cost = CostIn(rows \cup {x})
      BY <1>0, <2>3, <2>4, <3>3
    <3>6. PositionFits({p}, rows \cup {x})
      BY <2>3, <2>6, <3>5 DEF PositionFits
    <3>7. QED BY <1>2, <2>2, <3>4, <3>6
  <2>9. QED BY <2>7, <2>8
<1>3. QED BY <1>1, <1>2

\* A buy that is newest in its scope is booked without a replay.
LEMMA NewBuyKeepsBook ==
  ASSUME BookInv, NEW t \in TxIds, NEW r \in NewRows, HasExactPrice(r),
         CreateBuyIncrementally(t, r)
  PROVE  BookInv'
<1>1. RowIsNew(t, r) /\ r.type = "buy"
  BY InsertAddsRow DEF BookInv, CreateBuyIncrementally
<1>2. PICK s \in ScopesOf(r) :
        /\ SyncPosition(s, r)
        /\ lots' = lots \cup
             {LotRow(s, [src |-> t, orig |-> r.qty, rem |-> r.qty,
                         unit |-> r.amount \div r.qty, openedAt |-> r.time])}
  BY DEF CreateBuyIncrementally
<1> DEFINE x == LotRow(s, [src |-> t, orig |-> r.qty, rem |-> r.qty,
                           unit |-> r.amount \div r.qty, openedAt |-> r.time])
<1>3. matches' = matches /\ splits' = splits /\ lots' = lots \cup {x}
  BY <1>2 DEF CreateBuyIncrementally, Insert
<1>4. s \in Scopes /\ r.qty \in Nat /\ r.qty > 0 /\ r.amount \in Nat /\ r.time \in Nat
  BY <1>1 DEF ScopesOf, RowIsNew, TxRow, ValidRow
<1>5. r.amount \div r.qty \in Nat
  BY <1>4
<1>6. x \in LotRows
  BY <1>4, <1>5 DEF LotRow, LotRows
<1>7. /\ x.scope = s /\ x.src = t /\ x.rem = r.qty /\ x.unit = r.amount \div r.qty
  BY DEF LotRow
<1> HIDE DEF x
<1>8. \A l \in lots : l.src # t
  BY <1>1 DEF BookInv, LedgerRowsResolve, RowIsNew, LotsFit, LotRows
<1>9. x \notin lots
  BY <1>7, <1>8
<1>10. LotsFit'
  <2>1. IsFiniteSet(lots')
    BY <1>3, FS_AddElement DEF BookInv, LotsFit
  <2>2. lots' \subseteq LotRows
    BY <1>3, <1>6 DEF BookInv, LotsFit
  <2>3. \A l, k \in lots' : l.scope = k.scope /\ l.src = k.src => l = k
    BY <1>3, <1>7, <1>8 DEF BookInv, LotsFit
  <2>4. QED BY <2>1, <2>2, <2>3 DEF LotsFit
<1>11. TableFits(tx') /\ SplitsFit'
  BY <1>1, <1>3 DEF RowIsNew, BookInv, SplitsFit
<1>12. LedgerRowsResolve'
  <2>1. \A l \in lots : l.scope \in Scopes
    BY DEF BookInv, LotsFit, LotRows
  <2>2. \A m \in matches : m.scope \in Scopes
    BY DEF BookInv, LedgerRowsResolve, LiveSells, LiveTrades, ScopedIds, ScopesOf
  <2>3. \A z \in Scopes : /\ \A u \in LiveSells(tx, z) : u \in LiveSells(tx', z)
                                                        /\ tx'[u] = tx[u]
                          /\ \A u \in LiveSells(tx', z) : u \in LiveSells(tx, z)
    BY <1>1, NewRowInSells
  <2>4. \A l \in lots : l.src \in LiveTrades(tx', l.scope) /\ tx'[l.src].type = "buy"
    BY <1>1, <2>1 DEF BookInv, LedgerRowsResolve, RowIsNew
  <2>5. x.src \in LiveTrades(tx', x.scope) /\ tx'[x.src].type = "buy"
    BY <1>1, <1>4, <1>7 DEF RowIsNew
  <2>6. \A m \in matches : /\ m.sell \in LiveSells(tx', m.scope)
                           /\ \E l \in lots' : l.scope = m.scope /\ l.src = m.src
    BY <1>3, <2>2, <2>3 DEF BookInv, LedgerRowsResolve
  <2>7. \A z \in Scopes : \A u \in LiveSells(tx', z) :
          SoldOf(MatchesOf(u, matches)) = tx'[u].qty
    BY <2>3 DEF BookInv, LedgerRowsResolve
  <2>8. QED BY <1>3, <2>4, <2>5, <2>6, <2>7 DEF LedgerRowsResolve
<1>13. PositionMatchesOpenLots'
  BY <1>1, <1>2, <1>3, <1>6, <1>7, <1>9, NewBuyKeepsPosition
<1>14. QED BY <1>10, <1>11, <1>12, <1>13 DEF BookInv

\* The open lots of a scope in a FIFO order, and what a sell leaves of them.
LEMMA OrderOfOpenLots ==
  ASSUME BookInv, NEW s \in Scopes, NEW order \in FifoOrders(s)
  PROVE  /\ order \in Seq(LotRows) /\ SourcesDiffer(order)
         /\ \A i \in DOMAIN order : order[i] \in OpenLots(s)
         /\ \A l \in OpenLots(s) : \E i \in DOMAIN order : order[i] = l
<1> DEFINE rows == OpenLots(s)
           n == Cardinality(rows)
<1>1. rows \in SUBSET LotRows /\ IsFiniteSet(rows)
      /\ rows \subseteq lots /\ \A l \in rows : l.scope = s
  BY OpenLotTypes DEF OpenLots
<1>2. /\ order \in [1..n -> rows]
      /\ \A i, j \in 1..n : i # j => order[i] # order[j]
  BY DEF FifoOrders, SetToSeqs
<1> HIDE DEF rows
<1>3. n \in Nat /\ IsFiniteSet(1..n) /\ Cardinality(1..n) = n
  BY <1>1, FS_CardinalityType, FS_Interval
<1>4. order \in Surjection(1..n, rows)
  <2>1. order \in Injection(1..n, rows)
    BY <1>2 DEF Injection, IsInjective
  <2>2. QED BY <1>1, <1>3, <2>1, FS_Injection
<1>5. order \in Seq(LotRows) /\ DOMAIN order = 1..n
  BY <1>1, <1>2, <1>3
<1>6. \A i \in DOMAIN order : order[i] \in rows
  BY <1>2
<1>7. \A l \in rows : \E i \in DOMAIN order : order[i] = l
  BY <1>4, <1>5 DEF Surjection
<1>8. SourcesDiffer(order)
  <2>1. \A i, j \in DOMAIN order : order[i].src = order[j].src => order[i] = order[j]
    BY <1>1, <1>6 DEF BookInv, LotsFit
  <2>2. QED BY <1>2, <1>5, <2>1 DEF SourcesDiffer
<1>9. QED BY <1>5, <1>6, <1>7, <1>8 DEF rows

\* The lots that a sell of t writes: C, with the sources of the open lots.
Sold(s, order, C) ==
  /\ C \in Seq(LotRows) /\ SourcesDiffer(C)
  /\ DOMAIN C = DOMAIN order
  /\ \A i \in DOMAIN C : C[i].src = order[i].src

\* What a sell leaves of the open lots, and the fills it writes.
LEMMA ConsumedOrder ==
  ASSUME BookInv, NEW s \in Scopes, NEW order \in FifoOrders(s), NEW q \in Nat,
         Consume(order, q).toSell = 0
  PROVE  LET consumed == Consume(order, q) IN
         /\ Sold(s, order, consumed.lots)
         /\ consumed.fills \in SUBSET Fills /\ IsFiniteSet(consumed.fills)
         /\ Filled(consumed.fills) = q
         /\ \A f \in consumed.fills : \E i \in DOMAIN order : order[i].src = f.src
<1> DEFINE c == Consume(order, q)
           C == c.lots
           n == Len(order)
<1>1. order \in Seq(LotRows) /\ SourcesDiffer(order) /\ AreLots(LotRows)
  BY OrderOfOpenLots, LotRowTypes
<1>2. c \in ConsumeStates(LotRows) /\ Consumed(c, order, n, q)
  BY <1>1, ConsumeIsComplete
<1>3. n \in Nat /\ DOMAIN order = 1..n /\ \A i \in 1..n : order[i] \in LotRows
  BY <1>1
<1>4. c.toSell = 0
  OBVIOUS
<1> HIDE DEF c, n
<1>5. C \in Seq(LotRows) /\ DOMAIN C = 1..n /\ c.fills \in SUBSET Fills
  BY <1>2 DEF ConsumeStates, Consumed
<1>6. \A i \in 1..n : C[i] = WithRem(order[i], C[i].rem)
  BY <1>2 DEF Consumed
<1> HIDE DEF C
<1>7. \A i \in 1..n : C[i] \in LotRows
  <2>1. C \in Seq(LotRows)
    BY <1>5
  <2>2. DOMAIN C = 1..Len(C) /\ \A i \in 1..Len(C) : C[i] \in LotRows
    BY <2>1
  <2>3. QED BY <1>5, <2>2
<1>8. \A i \in 1..n : C[i].src = order[i].src
  <2>1. \A i \in 1..n : C[i].rem \in Nat
    BY <1>7, LotRowTypes
  <2>2. \A l \in LotRows : \A k \in Nat : WithRem(l, k).src = l.src
    BY <1>1 DEF AreLots
  <2>3. QED BY <1>3, <1>6, <2>1, <2>2
<1>9. SourcesDiffer(C)
  BY <1>1, <1>3, <1>5, <1>8 DEF SourcesDiffer
<1>10. IsFiniteSet(c.fills) /\ Filled(c.fills) + c.toSell = q
       /\ \A f \in c.fills : \E i \in 1..n : f.src = order[i].src
  BY <1>2 DEF Consumed
<1>11. Filled(c.fills) \in Int
  <2>1. [f \in c.fills |-> f.qty] \in [c.fills -> Int]
    BY <1>5 DEF Fills
  <2>2. QED BY <1>10, <2>1, SumInt DEF Filled
<1>12. Filled(c.fills) = q
  BY <1>4, <1>10, <1>11
<1>13. Sold(s, order, C)
  BY <1>3, <1>5, <1>8, <1>9 DEF Sold
<1>14. QED BY <1>3, <1>5, <1>10, <1>12, <1>13 DEF c, C

\* The lots after the sell have the sources of the lots before.
LEMMA SellKeepsLots ==
  ASSUME BookInv, NEW s \in Scopes, NEW order \in FifoOrders(s), NEW C,
         Sold(s, order, C), lots' = (lots \ OpenLots(s)) \cup RowsOf(s, C)
  PROVE  /\ LotsFit'
         /\ \A l \in lots' : \E k \in lots : k.scope = l.scope /\ k.src = l.src
         /\ \A l \in lots : \E k \in lots' : k.scope = l.scope /\ k.src = l.src
<1>1. /\ order \in Seq(LotRows)
      /\ \A i \in DOMAIN order : order[i] \in OpenLots(s)
      /\ \A l \in OpenLots(s) : \E i \in DOMAIN order : order[i] = l
  BY OrderOfOpenLots
<1>2. C \in Seq(LotRows) /\ SourcesDiffer(C) /\ DOMAIN C = DOMAIN order
      /\ \A i \in DOMAIN C : C[i].src = order[i].src
  BY DEF Sold
<1>3. \A l \in OpenLots(s) : l \in lots /\ l.scope = s
  BY DEF OpenLots
<1>4. LotsFit
  BY DEF BookInv
<1>5. \A i \in DOMAIN C : C[i] \in LotRows
  BY <1>2
<1>6. ASSUME NEW i \in DOMAIN C
      PROVE  /\ LotRow(s, C[i]) \in LotRows
             /\ LotRow(s, C[i]).scope = s /\ LotRow(s, C[i]).src = order[i].src
  BY <1>2, <1>5 DEF LotRow, LotRows
<1>7. \A l \in RowsOf(s, C) : \E i \in DOMAIN C : l = LotRow(s, C[i])
  BY DEF RowsOf
<1>8. \A l \in RowsOf(s, C) : \E k \in OpenLots(s) : k.scope = l.scope /\ k.src = l.src
  BY <1>1, <1>2, <1>3, <1>6, <1>7
<1>9. IsFiniteSet(lots')
  <2>1. IsFiniteSet(RowsOf(s, C))
    BY <1>2, LotRowTypes, LotsOfSequence
  <2>2. IsFiniteSet(lots \ OpenLots(s))
    BY <1>4, FS_Subset DEF LotsFit
  <2>3. QED BY <2>1, <2>2, FS_Union
<1>10. lots' \subseteq LotRows
  BY <1>4, <1>6, <1>7 DEF LotsFit
<1>11. ASSUME NEW l \in lots', NEW k \in lots', l.scope = k.scope, l.src = k.src
       PROVE  l = k
  <2>1. CASE l \in lots \ OpenLots(s) /\ k \in lots \ OpenLots(s)
    BY <1>4, <1>11, <2>1 DEF LotsFit
  <2>2. CASE l \in RowsOf(s, C) /\ k \in RowsOf(s, C)
    <3>1. PICK i \in DOMAIN C, j \in DOMAIN C : l = LotRow(s, C[i]) /\ k = LotRow(s, C[j])
      BY <1>7, <2>2
    <3>2. C[i].src = C[j].src
      BY <1>2, <1>6, <1>11, <3>1
    <3>3. i = j
      BY <1>2, <3>2 DEF SourcesDiffer
    <3>4. QED BY <3>1, <3>3
  <2>3. ASSUME NEW a \in lots \ OpenLots(s), NEW b \in RowsOf(s, C),
               a.scope = b.scope, a.src = b.src
        PROVE  FALSE
    <3>1. PICK o \in OpenLots(s) : o.scope = b.scope /\ o.src = b.src
      BY <1>8
    <3>2. a = o
      BY <1>3, <1>4, <2>3, <3>1 DEF LotsFit
    <3>3. QED BY <3>2
  <2>4. QED BY <1>11, <2>1, <2>2, <2>3
<1>12. \A l \in lots' : \E k \in lots : k.scope = l.scope /\ k.src = l.src
  BY <1>3, <1>8
<1>13. ASSUME NEW l \in lots PROVE \E k \in lots' : k.scope = l.scope /\ k.src = l.src
  <2>1. CASE l \in OpenLots(s)
    <3>1. PICK i \in DOMAIN C : order[i] = l
      BY <1>1, <1>2, <2>1
    <3>2. LotRow(s, C[i]) \in lots'
      BY DEF RowsOf
    <3>3. QED BY <1>3, <1>6, <2>1, <3>1, <3>2
  <2>2. CASE l \notin OpenLots(s)
    BY <2>2
  <2>3. QED BY <2>1, <2>2
<1>14. QED BY <1>9, <1>10, <1>11, <1>12, <1>13 DEF LotsFit

\* The position after the sell is what the open lots then add up to.
LEMMA SellKeepsPosition ==
  ASSUME BookInv, NEW s \in Scopes, NEW C,
         C \in Seq(LotRows), SourcesDiffer(C),
         lots' = (lots \ OpenLots(s)) \cup RowsOf(s, C),
         NEW p, IsActivePosition(p, s),
         positions' = (positions \ {p})
           \cup {PositionRow(s, SumOpenQuantity(C), SumOpenCost(C), p.openedAt,
                             SumOpenQuantity(C) > 0)}
  PROVE  PositionMatchesOpenLots'
<1> SUFFICES ASSUME NEW z \in Scopes
             PROVE  PositionFits(OpenPositions(z)', OpenLots(z)')
  BY DEF PositionMatchesOpenLots
<1> DEFINE n == PositionRow(s, SumOpenQuantity(C), SumOpenCost(C), p.openedAt,
                            SumOpenQuantity(C) > 0)
<1>1. \A l \in RowsOf(s, C) : l.scope = s
  BY DEF RowsOf, LotRow
<1>2. n.scope = s /\ n.open = (SumOpenQuantity(C) > 0)
  BY DEF PositionRow
<1>3. positions' = (positions \ {p}) \cup {n} /\ p.scope = s
  BY DEF IsActivePosition, OpenPositions
<1>4. CASE z # s
  <2> HIDE DEF n
  <2>1. OpenLots(z)' = OpenLots(z)
    BY <1>1, <1>4 DEF OpenLots
  <2>2. OpenPositions(z)' = OpenPositions(z)
    BY <1>2, <1>3, <1>4 DEF OpenPositions
  <2>3. PositionFits(OpenPositions(z), OpenLots(z))
    BY DEF BookInv, PositionMatchesOpenLots
  <2>4. QED BY <2>1, <2>2, <2>3
<1>5. CASE z = s
  <2>1. OpenLots(s)' = OpenOf(RowsOf(s, C))
    BY <1>1 DEF OpenLots, OpenOf
  <2>2. PositionFits(OpenPositions(s), OpenLots(s)) /\ p \in OpenPositions(s)
    BY DEF BookInv, PositionMatchesOpenLots, IsActivePosition
  <2>3. OpenPositions(s) = {p}
    BY <2>2 DEF PositionFits
  <2>4. SumOpenQuantity(C) \in Nat
    BY LotRowTypes, LotsOfSequence
  <2> DEFINE held == IF SumOpenQuantity(C) = 0 THEN {}
                     ELSE {PositionRow(s, SumOpenQuantity(C), SumOpenCost(C),
                                       p.openedAt, TRUE)}
  <2>5. OpenPositions(s)' = IF SumOpenQuantity(C) > 0 THEN {n} ELSE {}
    <3> HIDE DEF n
    <3>1. QED BY <1>2, <1>3, <2>3 DEF OpenPositions
  <2>6. OpenPositions(s)' = held
    <3>1. CASE SumOpenQuantity(C) > 0
      <4>1. (SumOpenQuantity(C) > 0) = TRUE /\ SumOpenQuantity(C) # 0
        BY <2>4, <3>1
      <4>2. n = PositionRow(s, SumOpenQuantity(C), SumOpenCost(C), p.openedAt, TRUE)
        BY <4>1
      <4>3. QED BY <2>5, <3>1, <4>1, <4>2
    <3>2. CASE ~(SumOpenQuantity(C) > 0)
      <4>1. SumOpenQuantity(C) = 0
        BY <2>4, <3>2
      <4>2. held = {}
        BY <4>1
      <4>3. OpenPositions(s)' = {}
        BY <2>5, <3>2
      <4>4. QED BY <4>2, <4>3
    <3>3. QED BY <3>1, <3>2
  <2>7. PositionFits(held, OpenOf(RowsOf(s, C)))
    <3> HIDE DEF held
    <3>1. QED BY LotRowTypes, PositionOfSequence DEF held
  <2>8. QED BY <1>5, <2>1, <2>6, <2>7
<1>6. QED BY <1>4, <1>5

\* A sell that is newest in its scope is booked without a replay.
LEMMA NewSellKeepsBook ==
  ASSUME BookInv, NEW t \in TxIds, NEW r \in NewRows, CreateSellIncrementally(t, r)
  PROVE  BookInv'
<1>1. RowIsNew(t, r) /\ r.type = "sell" /\ splits' = splits
  BY InsertAddsRow DEF BookInv, CreateSellIncrementally, Insert
<1>2. PICK s \in ScopesOf(r), p \in positions :
        \E order \in FifoOrders(s) : /\ IsActivePosition(p, s)
                                     /\ ConsumeOpenLots(s, p, t, r, order)
  BY DEF CreateSellIncrementally
<1>3. PICK order \in FifoOrders(s) : /\ IsActivePosition(p, s)
                                     /\ ConsumeOpenLots(s, p, t, r, order)
  BY <1>2
<1>4. s \in Scopes /\ r.qty \in Nat
  BY <1>1 DEF ScopesOf, RowIsNew, TxRow
<1> DEFINE c == Consume(order, r.qty)
           C == c.lots
           new == {MatchRow(s, t, f) : f \in c.fills}
<1>5. /\ c.toSell = 0
      /\ lots' = (lots \ OpenLots(s)) \cup RowsOf(s, C)
      /\ matches' = matches \cup new
      /\ positions' = (positions \ {p})
           \cup {PositionRow(s, SumOpenQuantity(C), SumOpenCost(C), p.openedAt,
                             SumOpenQuantity(C) > 0)}
  BY <1>3 DEF ConsumeOpenLots, RowsOf
<1>6. /\ Sold(s, order, C)
      /\ c.fills \in SUBSET Fills /\ IsFiniteSet(c.fills)
      /\ Filled(c.fills) = r.qty
      /\ \A f \in c.fills : \E i \in DOMAIN order : order[i].src = f.src
  BY <1>3, <1>4, <1>5, ConsumedOrder
<1>7. C \in Seq(LotRows) /\ SourcesDiffer(C)
  BY <1>6 DEF Sold
<1> HIDE DEF c, C
<1>8. /\ LotsFit'
      /\ \A l \in lots' : \E k \in lots : k.scope = l.scope /\ k.src = l.src
      /\ \A l \in lots : \E k \in lots' : k.scope = l.scope /\ k.src = l.src
  BY <1>3, <1>4, <1>5, <1>6, SellKeepsLots
<1>9. PositionMatchesOpenLots'
  BY <1>3, <1>4, <1>5, <1>7, SellKeepsPosition
<1>10. TableFits(tx') /\ SplitsFit'
  BY <1>1 DEF RowIsNew, BookInv, SplitsFit
<1>11. \A z \in Scopes :
         /\ t \notin LiveSells(tx, z)
         /\ \A u \in LiveSells(tx, z) : u \in LiveSells(tx', z) /\ tx'[u] = tx[u]
         /\ \A u \in LiveSells(tx', z) : u \in LiveSells(tx, z) \/ u = t
         /\ t \in LiveSells(tx', z) <=> z \in ScopesOf(r)
  BY <1>1, NewRowInSells
<1>12. \A m \in matches : m.sell \in LiveSells(tx, m.scope) /\ m.scope \in Scopes
  BY DEF BookInv, LedgerRowsResolve, LiveSells, LiveTrades, ScopedIds, ScopesOf
<1>13. \A m \in new : m.sell = t /\ m.scope = s
  BY DEF MatchRow
<1>14. ASSUME NEW l \in lots'
       PROVE  l.src \in LiveTrades(tx', l.scope) /\ tx'[l.src].type = "buy"
  <2>1. PICK k \in lots : k.scope = l.scope /\ k.src = l.src
    BY <1>8
  <2>2. k.src \in LiveTrades(tx, k.scope) /\ tx[k.src].type = "buy" /\ k.scope \in Scopes
    BY DEF BookInv, LedgerRowsResolve, LotsFit, LotRows
  <2>3. QED BY <1>1, <2>1, <2>2 DEF RowIsNew
<1>15. ASSUME NEW m \in matches'
       PROVE  /\ m.sell \in LiveSells(tx', m.scope)
              /\ \E l \in lots' : l.scope = m.scope /\ l.src = m.src
  <2>1. CASE m \in matches
    <3>1. m.sell \in LiveSells(tx', m.scope)
      BY <1>11, <1>12, <2>1
    <3>2. PICK l \in lots : l.scope = m.scope /\ l.src = m.src
      BY <2>1 DEF BookInv, LedgerRowsResolve
    <3>3. QED BY <1>8, <3>1, <3>2
  <2>2. CASE m \in new
    <3>1. PICK f \in c.fills : m = MatchRow(s, t, f)
      BY <2>2
    <3>2. m.scope = s /\ m.sell = t /\ m.src = f.src
      BY <3>1 DEF MatchRow
    <3>3. PICK i \in DOMAIN order : order[i].src = f.src
      BY <1>6
    <3>4. order[i] \in lots /\ order[i].scope = s
      BY <1>3, <1>4, OrderOfOpenLots DEF OpenLots
    <3>5. m.sell \in LiveSells(tx', m.scope)
      BY <1>2, <1>4, <1>11, <3>2
    <3>6. QED BY <1>8, <3>2, <3>3, <3>4, <3>5
  <2>3. QED BY <1>5, <2>1, <2>2
<1>16. ASSUME NEW z \in Scopes, NEW u \in LiveSells(tx', z)
       PROVE  SoldOf(MatchesOf(u, matches')) = tx'[u].qty
  <2>1. CASE u # t
    <3>1. u \in LiveSells(tx, z) /\ tx'[u] = tx[u]
      BY <1>11, <2>1
    <3>2. MatchesOf(u, matches') = MatchesOf(u, matches)
      BY <1>5, <1>13, <2>1 DEF MatchesOf
    <3>3. QED BY <3>1, <3>2 DEF BookInv, LedgerRowsResolve
  <2>2. CASE u = t
    <3>1. \A m \in matches : m.sell # t
      BY <1>11, <1>12
    <3>2. MatchesOf(u, matches') = new
      <4> HIDE DEF new
      <4>1. QED BY <1>5, <1>13, <2>2, <3>1 DEF MatchesOf
    <3>3. SoldOf(new) = Filled(c.fills)
      BY <1>6, SoldOfFills
    <3>4. tx'[u].qty = r.qty
      BY <1>1, <2>2 DEF RowIsNew
    <3>5. QED BY <1>6, <3>2, <3>3, <3>4
  <2>3. QED BY <2>1, <2>2
<1>17. LedgerRowsResolve'
  BY <1>14, <1>15, <1>16 DEF LedgerRowsResolve
<1>18. QED BY <1>8, <1>9, <1>10, <1>17 DEF BookInv

\* A row has at most one scope, so that a replay is of finitely many.
LEMMA FewScopes ==
  ASSUME NEW row
  PROVE  ScopesOf(row) \in SUBSET Scopes /\ IsFiniteSet(ScopesOf(row))
<1> DEFINE s == <<row.account, row.asset>>
<1>1. ScopesOf(row) \subseteq {s} /\ ScopesOf(row) \in SUBSET Scopes
  BY DEF ScopesOf
<1> HIDE DEF s
<1>2. IsFiniteSet({s})
  BY FS_Singleton
<1>3. QED BY <1>1, <1>2, FS_Subset

\* Created: incrementally, by replaying the scope, or without a scope.
LEMMA CreateKeepsBook ==
  ASSUME BookInv, NEW t \in TxIds, NEW r \in NewRows, HasExactPrice(r),
         Create(t, r)
  PROVE  BookInv'
<1>1. CASE CreateCashMovement(t, r)
  BY <1>1, NewCashKeepsBook
<1>2. CASE CreateBuyIncrementally(t, r)
  BY <1>2, NewBuyKeepsBook
<1>3. CASE CreateSellIncrementally(t, r)
  BY <1>3, NewSellKeepsBook
<1>4. CASE CreateWithReplay(t, r)
  <2>1. PICK s \in ScopesOf(r) : RebuildScopes({s})
    BY <1>4 DEF CreateWithReplay
  <2>2. RowIsNew(t, r) /\ UNCHANGED splits
    BY <1>4, InsertAddsRow DEF BookInv, CreateWithReplay, Insert
  <2>3. {s} \in SUBSET Scopes /\ ScopesOf(r) \subseteq {s}
    BY OneScope
  <2>4. RowChanges({s})
    BY <2>2, <2>3 DEF RowIsNew, RowChanges
  <2>5. IsFiniteSet({s})
    BY FS_Singleton
  <2>6. QED BY <2>1, <2>2, <2>3, <2>4, <2>5, RebuildKeepsBook
<1>5. QED BY <1>1, <1>2, <1>3, <1>4 DEF Create

\* A row written over a stored one: the scopes of both are replayed.
LEMMA RewriteKeepsBook ==
  ASSUME BookInv, NEW t \in TxIds, NEW S \in SUBSET Scopes, IsFiniteSet(S),
         NEW r, r = NoTx \/ (r \in TxRow /\ ValidRow(r, NoAsset)),
         tx' = [tx EXCEPT ![t] = r], UNCHANGED splits, RebuildScopes(S),
         ScopesOf(tx[t]) \subseteq S, r # NoTx => ScopesOf(r) \subseteq S
  PROVE  BookInv'
<1>1. /\ TableFits(tx') /\ tx'[t] = r
      /\ \A u \in TxIds : u # t => tx'[u] = tx[u]
  BY OneRowWritten DEF BookInv
<1>2. RowChanges(S)
  BY <1>1 DEF RowChanges
<1>3. QED BY <1>2, RebuildKeepsBook

\* An edit replays the scopes that the row leaves and enters.
LEMMA UpdateKeepsBook ==
  ASSUME BookInv, NEW t \in TxIds, NEW r \in NewRows, Update(t, r)
  PROVE  BookInv'
<1> DEFINE S == UpdateScopes(tx[t], r)
           new == [r EXCEPT !.deleted = tx[t].deleted]
<1>1. /\ tx[t] # NoTx /\ ValidRow(r, NoAsset)
      /\ tx' = [tx EXCEPT ![t] = new] /\ UNCHANGED splits /\ RebuildScopes(S)
  BY DEF Update, Exists
<1>2. tx[t] \in TxRow
  BY <1>1 DEF BookInv, TableFits
<1>3. new \in TxRow /\ ValidRow(new, NoAsset) /\ ScopesOf(new) = ScopesOf(r)
  BY <1>1, <1>2 DEF NewRows, TxRow, ValidRow, ScopesOf
<1>4. S = ScopesOf(tx[t]) \cup ScopesOf(r)
  BY DEF UpdateScopes
<1> HIDE DEF new, S
<1>5. S \in SUBSET Scopes /\ IsFiniteSet(S)
  BY <1>4, FewScopes, FS_Union
<1>6. QED BY <1>1, <1>3, <1>4, <1>5, RewriteKeepsBook

\* A soft or hard delete replays the scope of the row.
LEMMA DeleteKeepsBook ==
  ASSUME BookInv, NEW t \in TxIds, SoftDelete(t) \/ HardDelete(t)
  PROVE  BookInv'
<1> DEFINE S == ScopesOf(tx[t])
           old == [tx[t] EXCEPT !.deleted = TRUE]
<1>1. S \in SUBSET Scopes /\ IsFiniteSet(S)
  BY FewScopes
<1>2. tx[t] # NoTx /\ UNCHANGED splits /\ RebuildScopes(S)
  BY DEF SoftDelete, HardDelete, Exists
<1>3. tx[t] \in TxRow /\ ValidRow(tx[t], NoAsset)
  BY <1>2 DEF BookInv, TableFits
<1>4. CASE SoftDelete(t)
  <2>1. tx' = [tx EXCEPT ![t] = old]
    BY <1>4 DEF SoftDelete
  <2>2. old \in TxRow /\ ValidRow(old, NoAsset) /\ ScopesOf(old) = S
    BY <1>3 DEF TxRow, ValidRow, ScopesOf
  <2> HIDE DEF old
  <2>3. QED BY <1>1, <1>2, <2>1, <2>2, RewriteKeepsBook
<1>5. CASE HardDelete(t)
  <2>1. tx' = [tx EXCEPT ![t] = NoTx]
    BY <1>5 DEF HardDelete
  <2>2. QED BY <1>1, <1>2, <2>1, RewriteKeepsBook
<1>6. QED BY <1>4, <1>5

\* The empty book.
LEMMA EmptyBook ==
  ASSUME tx = [t \in TxIds |-> NoTx], lots = {}, matches = {}, positions = {},
         SplitsFit
  PROVE  BookInv
<1>1. {t \in TxIds : tx[t] # NoTx} = {}
  OBVIOUS
<1>2. IsFiniteSet({t \in TxIds : tx[t] # NoTx}) /\ IsFiniteSet(lots)
  BY <1>1, FS_EmptySet
<1>3. TableFits(tx)
  BY <1>2 DEF TableFits
<1>4. LotsFit
  BY <1>2 DEF LotsFit
<1>5. \A s \in Scopes : LiveSells(tx, s) = {}
  BY DEF LiveSells, LiveTrades, ScopedIds
<1>6. LedgerRowsResolve
  BY <1>5 DEF LedgerRowsResolve
<1>7. SharesIn({}) = 0
  <2> DEFINE q == [l \in {} |-> l.rem]
  <2>1. q \in [{} -> Int] /\ DOMAIN q = {}
    OBVIOUS
  <2>2. SharesIn({}) = SumFunction(q)
    BY DEF SharesIn
  <2> HIDE DEF q
  <2>3. QED BY <2>1, <2>2, SumOfNone
<1>8. \A s \in Scopes : OpenLots(s) = {} /\ OpenPositions(s) = {}
  BY DEF OpenLots, OpenPositions
<1>9. PositionMatchesOpenLots
  BY <1>7, <1>8 DEF PositionMatchesOpenLots, PositionFits
<1>10. QED BY <1>3, <1>4, <1>6, <1>9 DEF BookInv

\* The book starts empty.
LEMMA InitBook == Init => BookInv
BY EmptyBook, FS_EmptySet DEF Init, SplitsFit, AreSplits

\* Every operation of the service keeps the book right.
LEMMA NextKeepsBook ==
  ASSUME BookInv, Next
  PROVE  BookInv'
BY CreateKeepsBook, UpdateKeepsBook, DeleteKeepsBook, InputsAreRows, PricesAreExact
   DEF Next, UpdateOwn

\* So does any step that leaves its tables alone.
LEMMA UntouchedBook ==
  ASSUME BookInv, UNCHANGED <<tx, lots, matches, positions>>, SplitsFit'
  PROVE  BookInv'
<1>1. \A s \in Scopes : OpenPositions(s)' = OpenPositions(s) /\ OpenLots(s)' = OpenLots(s)
  BY DEF OpenPositions, OpenLots
<1>2. PositionMatchesOpenLots'
  BY <1>1 DEF BookInv, PositionMatchesOpenLots
<1>3. LedgerRowsResolve'
  BY DEF BookInv, LedgerRowsResolve
<1>4. QED BY <1>2, <1>3 DEF BookInv, LotsFit

(***************************************************************************)
(* The inductive invariant of the book: the rows are ones the service lets *)
(* in, the lots are finitely many and one for each source, every match and *)
(* every lot has its live transaction in its own scope, every live sell is *)
(* matched in full, and every position is what its open lots add up to.    *)
(***************************************************************************)
THEOREM BookInvariant == Spec => []BookInv
<1>1. BookInv /\ [Next]_vars => BookInv'
  BY NextKeepsBook, UntouchedBook DEF vars, BookInv, SplitsFit
<1>2. QED BY InitBook, <1>1, PTL DEF Spec

(***************************************************************************)
(* No operation leaves a lot without its live buy, a match without its     *)
(* live sell and its lot, or a live sell matched in part: create on its    *)
(* incremental paths, and update and delete through rebuildScopes.         *)
(***************************************************************************)
THEOREM RowsResolve == Spec => []LedgerRowsResolve
<1>1. BookInv => LedgerRowsResolve
  BY DEF BookInv
<1>2. QED BY <1>1, BookInvariant, PTL

(***************************************************************************)
(* syncPosition, the incremental sell and the replay keep the one active   *)
(* position of a scope equal to its open lots in quantity and in cost, and *)
(* leave no active position where no lot is open.                          *)
(***************************************************************************)
THEOREM PositionsMatchLots == Spec => []PositionMatchesOpenLots
<1>1. BookInv => PositionMatchesOpenLots
  BY DEF BookInv
<1>2. QED BY <1>1, BookInvariant, PTL

-----------------------------------------------------------------------------
(***************************************************************************)
(* What a replay without splits does to costs: a buy opens a lot for what  *)
(* it paid, and a sell takes the cost of its fills out of the lots.        *)
(***************************************************************************)
\* What an event moves, what the first i events of a timeline moved, and that
\* this is what a replay state's lots cost.
Moves(fills, e) == IF e.kind = "buy" THEN e.amount ELSE -SpentOn(fills[e.id])

MovedBy(fills, seq, i) == SumFunction([j \in 1..i |-> Moves(fills, seq[j])])

Paid(st, seq, i) ==
  /\ \A j \in 1..i : seq[j].kind = "sell" => SpentOn(st.fills[seq[j].id]) \in Nat
  /\ MovedBy(st.fills, seq, i) = SumOpenCost(st.lots)

\* What a finite set of fills costs is a number.
LEMMA SpentIsNat ==
  ASSUME NEW fills \in SUBSET Fills, IsFiniteSet(fills)
  PROVE  SpentOn(fills) \in Nat
<1> DEFINE c == [f \in fills |-> f.qty * f.unit]
<1>1. \A f \in fills : f.qty \in Nat /\ f.unit \in Nat
  BY DEF Fills
<1>2. \A f \in fills : f.qty * f.unit \in Nat
  BY <1>1
<1>3. c \in [fills -> Nat]
  BY <1>2
<1> HIDE DEF c
<1>4. QED BY <1>3, SumNat DEF SpentOn, c

\* What a replay state's lots cost.
LEMMA LotsCost ==
  ASSUME NEW E, AreLots(E), NEW held \in Seq(E)
  PROVE  /\ Priced(held, Len(held)) /\ CostOf(held, Len(held)) \in Nat
         /\ SumOpenCost(held) = CostOf(held, Len(held))
<1> DEFINE n == Len(held)
           c == [j \in 1..n |-> held[j].rem * held[j].unit]
<1>1. n \in Nat /\ DOMAIN held = 1..n /\ \A j \in 1..n : held[j] \in E
  OBVIOUS
<1>2. \A j \in 1..n : held[j].rem \in Nat /\ held[j].unit \in Nat
  BY <1>1 DEF AreLots
<1>3. \A j \in 1..n : held[j].rem * held[j].unit \in Nat
  BY <1>2
<1>4. c \in [1..n -> Nat]
  BY <1>3
<1>5. SumOpenCost(held) = CostOf(held, n)
  BY <1>1 DEF SumOpenCost, CostOf
<1>6. IsFiniteSet(1..n)
  BY <1>1, FS_Interval
<1> HIDE DEF c
<1>7. SumFunction(c) \in Nat
  BY <1>4, <1>6, SumNat
<1>8. QED BY <1>2, <1>5, <1>7 DEF Priced, CostOf, c

\* What the first i events moved are numbers.
TypedMoves(fills, seq, i) == \A j \in 1..i : Moves(fills, seq[j]) \in Int

\* With one event more, its amount more has moved.
LEMMA MovesGrow ==
  ASSUME NEW i \in Nat, i # 0, NEW seq, NEW fills, NEW after,
         TypedMoves(after, seq, i),
         \A j \in 1..(i - 1) : Moves(after, seq[j]) = Moves(fills, seq[j])
  PROVE  MovedBy(after, seq, i) = Moves(after, seq[i]) + MovedBy(fills, seq, i - 1)
<1> DEFINE f == [j \in 1..i |-> Moves(after, seq[j])]
           g == [j \in 1..(i - 1) |-> Moves(fills, seq[j])]
<1>1. i \in 1..i /\ 1..(i - 1) \subseteq 1..i
  OBVIOUS
<1>2. IntegerOn(f, 1..i) /\ IntegerOn(g, 1..(i - 1)) /\ SameOn(g, f, 1..(i - 1))
  BY <1>1 DEF IntegerOn, SameOn, TypedMoves
<1>3. f[i] = Moves(after, seq[i])
  BY <1>1
<1> HIDE DEF f, g
<1>4. SumFunction(f) = f[i] + SumFunction(g)
  BY <1>2, SumOfPlaces
<1>5. QED BY <1>3, <1>4 DEF MovedBy, f, g

\* A buy opens a lot that costs what was paid.
LEMMA BuyPays ==
  ASSUME NEW trades, AreTrades(trades), NEW e \in Events(trades, {}),
         NEW st \in ReplayStates(trades), NEW seq, NEW i \in Nat, i # 0,
         seq[i] = e, e.kind = "buy", e.amount = e.qty * (e.amount \div e.qty),
         \A j \in 1..i : seq[j].kind \in {"buy", "sell"} /\ seq[j].amount \in Nat,
         Paid(st, seq, i - 1)
  PROVE  Paid(ReplayEvent(st, e), seq, i)
<1> DEFINE unit == e.amount \div e.qty
           lot == [src |-> e.id, orig |-> e.qty, rem |-> e.qty,
                   unit |-> unit, openedAt |-> e.time]
           after == Append(st.lots, lot)
           nst == ReplayEvent(st, e)
           n == Len(st.lots)
<1>1. nst = [st EXCEPT !.lots = after,
                       !.openedAt = IF SumOpenQuantity(st.lots) = 0 THEN e.time ELSE @]
  BY DEF ReplayEvent, ReplayBuy
<1>2. nst.lots = after /\ nst.fills = st.fills
  <2> HIDE DEF after, nst
  <2>1. QED BY <1>1 DEF ReplayStates
<1>3. e.qty \in Nat \ {0} /\ e.amount \in Nat /\ e.id \in Nat /\ e.time \in Nat
  <2>1. AreActions({})
    BY FS_EmptySet DEF AreActions
  <2>2. QED BY <2>1, EventTypes
<1>4. unit \in Nat /\ lot.rem * lot.unit = e.amount /\ lot.rem \in Nat /\ lot.unit \in Nat
  BY <1>3
<1>5. st.lots \in Seq(LotStates) /\ after \in Seq(LotStates)
  <2>1. st.lots \in Seq(LotStates)
    BY DEF ReplayStates
  <2>2. lot \in LotStates
    BY <1>3, <1>4 DEF LotStates
  <2> HIDE DEF lot
  <2>3. QED BY <2>1, <2>2
<1> HIDE DEF unit, lot
<1>6. n \in Nat /\ Len(after) = n + 1 /\ after[n + 1] = lot
      /\ \A k \in 1..n : after[k] = st.lots[k]
  BY <1>5
<1> HIDE DEF after, nst, n
<1>7. SumOpenCost(after) = e.amount + SumOpenCost(st.lots)
  <2>1. /\ SumOpenCost(after) = CostOf(after, n + 1) /\ Priced(after, n + 1)
        /\ SumOpenCost(st.lots) = CostOf(st.lots, n)
    BY <1>5, <1>6, LotStatesAreLots, LotsCost DEF n
  <2>2. n + 1 \in Nat /\ n + 1 # 0 /\ (n + 1) - 1 = n
    BY <1>6
  <2>3. CostOf(after, n + 1) = after[n + 1].rem * after[n + 1].unit + CostOf(after, n)
    BY <2>1, <2>2, CostGrows
  <2>4. CostOf(after, n) = CostOf(st.lots, n)
    BY <1>6 DEF CostOf
  <2>5. QED BY <1>4, <1>6, <2>1, <2>3, <2>4
<1>8. 1..i = (1..(i - 1)) \cup {i} /\ seq[i].kind # "sell"
  BY <1>3
<1>9. \A j \in 1..i : seq[j].kind = "sell" => SpentOn(nst.fills[seq[j].id]) \in Nat
  BY <1>2, <1>8 DEF Paid
<1>10. MovedBy(nst.fills, seq, i) = SumOpenCost(nst.lots)
  <2>1. TypedMoves(nst.fills, seq, i)
    BY <1>9 DEF TypedMoves, Moves
  <2>2. \A j \in 1..(i - 1) : Moves(nst.fills, seq[j]) = Moves(st.fills, seq[j])
    BY <1>2
  <2>3. MovedBy(nst.fills, seq, i)
          = Moves(nst.fills, seq[i]) + MovedBy(st.fills, seq, i - 1)
    BY <2>1, <2>2, MovesGrow
  <2>4. Moves(nst.fills, seq[i]) = e.amount
    BY DEF Moves
  <2>5. MovedBy(st.fills, seq, i - 1) = SumOpenCost(st.lots)
    BY DEF Paid
  <2>6. QED BY <1>2, <1>7, <2>3, <2>4, <2>5
<1>11. QED BY <1>9, <1>10 DEF Paid, nst

\* A sell takes out of the lots what its fills cost.
LEMMA SellPays ==
  ASSUME NEW trades, AreTrades(trades), NEW e \in Events(trades, {}),
         NEW st \in ReplayStates(trades), NEW seq, NEW i \in Nat, i # 0,
         seq[i] = e, e.kind = "sell",
         1..i \subseteq DOMAIN seq, TradesDiffer(seq), SourcesDiffer(st.lots),
         \A j \in 1..i : seq[j] \in Events(trades, {}),
         Paid(st, seq, i - 1)
  PROVE  Paid(ReplayEvent(st, e), seq, i)
<1> DEFINE consumed == Consume(st.lots, e.qty)
           nst == ReplayEvent(st, e)
           n == Len(st.lots)
<1>0. AreActions({})
  BY FS_EmptySet DEF AreActions
<1>1. /\ e.qty \in Nat /\ e.id \in SellIds(trades)
      /\ st.lots \in Seq(LotStates)
      /\ st.fills \in [SellIds(trades) -> SUBSET Fills]
  <2>1. \E r \in trades : r.id = e.id /\ r.type = e.kind /\ e.qty \in Nat
    BY <1>0, EventTypes
  <2>2. QED BY <2>1 DEF ReplayStates, SellIds
<1>2. nst = [st EXCEPT !.lots = consumed.lots,
                       !.fills = [st.fills EXCEPT ![e.id] = consumed.fills],
                       !.ok = st.ok /\ consumed.toSell = 0]
  BY DEF ReplayEvent, ReplaySell
<1>3. /\ nst.lots = consumed.lots
      /\ nst.fills = [st.fills EXCEPT ![e.id] = consumed.fills]
  <2> HIDE DEF consumed, nst
  <2>1. QED BY <1>2 DEF ReplayStates
<1>4. /\ consumed \in ConsumeStates(LotStates)
      /\ Consumed(consumed, st.lots, n, e.qty)
  BY <1>1, LotStatesAreLots, ConsumeIsComplete
<1> HIDE DEF consumed, nst, n
<1>5. consumed.lots \in Seq(LotStates) /\ consumed.fills \in SUBSET Fills
      /\ n \in Nat /\ Len(consumed.lots) = n
  <2>1. consumed.lots \in Seq(LotStates) /\ consumed.fills \in SUBSET Fills
    BY <1>4 DEF ConsumeStates
  <2>2. DOMAIN consumed.lots = 1..n /\ n \in Nat
    BY <1>1, <1>4 DEF Consumed, n
  <2>3. QED BY <2>1, <2>2
<1>6. SpentOn(consumed.fills) \in Nat
  BY <1>4, <1>5, SpentIsNat DEF Consumed
<1>7. SumOpenCost(nst.lots) = -SpentOn(consumed.fills) + SumOpenCost(st.lots)
  <2>1. SumOpenCost(st.lots) = CostOf(st.lots, n) /\ CostOf(st.lots, n) \in Nat
    BY <1>1, LotStatesAreLots, LotsCost DEF n
  <2>2. SumOpenCost(consumed.lots) = CostOf(consumed.lots, n)
        /\ CostOf(consumed.lots, n) \in Nat
    BY <1>5, LotStatesAreLots, LotsCost
  <2>3. SpentOn(consumed.fills) + CostOf(consumed.lots, n) = CostOf(st.lots, n)
    BY <1>4 DEF Consumed
  <2>4. QED BY <1>3, <1>6, <2>1, <2>2, <2>3
<1>8. nst.fills[e.id] = consumed.fills
  BY <1>1, <1>3
<1>9. i \notin 1..(i - 1) /\ 1..i = (1..(i - 1)) \cup {i} /\ i \in 1..i
  OBVIOUS
<1>10. ASSUME NEW j \in 1..(i - 1), seq[j].kind = "sell"
       PROVE  nst.fills[seq[j].id] = st.fills[seq[j].id]
  <2>1. j \in 1..i /\ j # i /\ j \in DOMAIN seq /\ i \in DOMAIN seq
    BY <1>9
  <2>2. seq[j].id # e.id
    BY <1>10, <2>1 DEF TradesDiffer
  <2>3. seq[j].id \in SellIds(trades)
    <3>1. seq[j] \in Events(trades, {})
      BY <2>1
    <3>2. \E r \in trades : r.id = seq[j].id /\ r.type = seq[j].kind
      BY <1>0, <1>10, <3>1, EventTypes
    <3>3. QED BY <1>10, <3>2 DEF SellIds
  <2>4. QED BY <1>1, <1>3, <2>2, <2>3
<1>11. \A j \in 1..i : seq[j].kind = "sell" => SpentOn(nst.fills[seq[j].id]) \in Nat
  BY <1>6, <1>8, <1>9, <1>10 DEF Paid
<1>12. MovedBy(nst.fills, seq, i) = SumOpenCost(nst.lots)
  <2>1. TypedMoves(nst.fills, seq, i)
    <3>1. \A j \in 1..i : seq[j].kind \in {"buy", "sell"} /\ seq[j].amount \in Nat
      <4>1. \A x \in Events(trades, {}) :
              x.kind \in {"buy", "sell"} /\ x.amount \in Nat
        BY DEF Events, SplitEvents, TradeEvents, AreTrades
      <4>2. QED BY <4>1
    <3>2. QED BY <1>11, <3>1 DEF TypedMoves, Moves
  <2>2. \A j \in 1..(i - 1) : Moves(nst.fills, seq[j]) = Moves(st.fills, seq[j])
    <3>1. \A j \in 1..(i - 1) : seq[j].kind \in {"buy", "sell"}
      <4>1. \A x \in Events(trades, {}) : x.kind \in {"buy", "sell"}
        BY DEF Events, SplitEvents, TradeEvents, AreTrades
      <4>2. QED BY <1>9, <4>1
    <3>2. QED BY <1>10, <3>1 DEF Moves
  <2>3. MovedBy(nst.fills, seq, i)
          = Moves(nst.fills, seq[i]) + MovedBy(st.fills, seq, i - 1)
    BY <2>1, <2>2, MovesGrow
  <2>4. Moves(nst.fills, seq[i]) = -SpentOn(consumed.fills)
    BY <1>8 DEF Moves
  <2>5. MovedBy(st.fills, seq, i - 1) = SumOpenCost(st.lots)
    BY DEF Paid
  <2>6. QED BY <1>7, <2>3, <2>4, <2>5
<1>13. QED BY <1>11, <1>12 DEF Paid, nst

\* Trades bought at whole unit prices.
ExactTrades(trades) ==
  \A x \in trades : x.type = "buy" => x.amount = x.qty * (x.amount \div x.qty)

\* After all events, the lots hold what was paid and not sold.
LEMMA ReplayPays ==
  ASSUME NEW trades, AreTrades(trades), ExactTrades(trades)
  PROVE  LET seq == BuildTimeline(trades, {}) IN
         Paid(ReplayScopeLedger(trades, {}), seq, Len(seq))
<1> DEFINE seq == BuildTimeline(trades, {})
           n == Len(seq)
           L == ReplayScopeLedger(trades, {})
<1>0. AreActions({})
  BY FS_EmptySet DEF AreActions
<1>1. seq \in Seq(Events(trades, {})) /\ TradesDiffer(seq)
  BY <1>0, TimelineIsComplete, TimelineTradesDiffer
<1>2. PICK r \in [0..n -> ReplayStates(trades)] : ReplayRun(r, trades, {})
  BY <1>0, ReplayRuns
<1>3. /\ r[0] = EmptyReplay(trades)
      /\ \A i \in 1..n : r[i] = ReplayEvent(r[i - 1], seq[i])
      /\ L = r[n]
  BY <1>2 DEF ReplayRun
<1>4. n \in Nat /\ DOMAIN seq = 1..n /\ \A i \in 1..n : seq[i] \in Events(trades, {})
  BY <1>1
<1>5. ASSUME NEW x \in Events(trades, {})
      PROVE  /\ x.kind \in {"buy", "sell"} /\ x.amount \in Nat
             /\ x.kind = "buy" => x.amount = x.qty * (x.amount \div x.qty)
  <2>1. PICK y \in trades :
          x = [kind |-> y.type, time |-> y.time, priority |-> 1, id |-> y.id,
               qty |-> y.qty, amount |-> y.amount]
    BY DEF Events, SplitEvents, TradeEvents
  <2>2. x.kind = y.type /\ x.qty = y.qty /\ x.amount = y.amount
    BY <2>1
  <2>3. QED BY <2>2 DEF AreTrades, ExactTrades
<1> DEFINE A == {i \in 0..n : Paid(r[i], seq, i) /\ SourcesDiffer(r[i].lots)
                              /\ Replayed(r[i], seq, i)}
<1> HIDE DEF seq, n, L
<1>6. 0 \in A
  <2>1. r[0].lots = <<>> /\ DOMAIN <<>> = {} /\ 1..0 = {} /\ 0 \in 0..n
    BY <1>3, <1>4 DEF EmptyReplay
  <2>2. DOMAIN r[0].lots = {}
    BY <2>1
  <2>3. SourcesDiffer(r[0].lots) /\ Replayed(r[0], seq, 0)
    BY <2>1, <2>2 DEF SourcesDiffer, Replayed, FromBuys, SellsMatched
  <2>4. MovedBy(r[0].fills, seq, 0) = 0 /\ SumOpenCost(r[0].lots) = 0
    <3> DEFINE f == [j \in 1..0 |-> Moves(r[0].fills, seq[j])]
               c == [j \in DOMAIN r[0].lots |-> r[0].lots[j].rem * r[0].lots[j].unit]
    <3>1. f \in [{} -> Int] /\ DOMAIN f = {} /\ c \in [{} -> Int] /\ DOMAIN c = {}
      BY <2>1, <2>2
    <3> HIDE DEF f, c
    <3>2. SumFunction(f) = 0 /\ SumFunction(c) = 0
      BY <3>1, SumOfNone
    <3>3. QED BY <3>2 DEF MovedBy, SumOpenCost, f, c
  <2>5. Paid(r[0], seq, 0)
    BY <2>1, <2>4 DEF Paid
  <2>6. QED BY <2>1, <2>3, <2>5
<1>7. ASSUME NEW i \in 1..n, i - 1 \in A PROVE i \in A
  <2>1. /\ i \in Nat \ {0} /\ i \in 0..n /\ i - 1 \in 0..n /\ 1..i \subseteq 1..n
        /\ i \in 1..i
    BY <1>4
  <2>2. /\ Paid(r[i - 1], seq, i - 1) /\ SourcesDiffer(r[i - 1].lots)
        /\ Replayed(r[i - 1], seq, i - 1) /\ r[i - 1] \in ReplayStates(trades)
    BY <1>7, <2>1
  <2>3. /\ \A j \in 1..i : seq[j] \in Events(trades, {})
        /\ 1..i \subseteq DOMAIN seq /\ seq[i] \in Events(trades, {})
    BY <1>4, <2>1
  <2>4. \A j \in 1..i : seq[j].kind \in {"buy", "sell"} /\ seq[j].amount \in Nat
    BY <1>5, <2>3
  <2>5. Paid(r[i], seq, i)
    <3>1. CASE seq[i].kind = "buy"
      <4>1. seq[i].amount = seq[i].qty * (seq[i].amount \div seq[i].qty)
        BY <1>5, <2>3, <3>1
      <4>2. Paid(ReplayEvent(r[i - 1], seq[i]), seq, i)
        BY <2>1, <2>2, <2>3, <2>4, <3>1, <4>1, BuyPays
      <4>3. QED BY <1>3, <4>2
    <3>2. CASE seq[i].kind = "sell"
      <4>1. Paid(ReplayEvent(r[i - 1], seq[i]), seq, i)
        BY <1>1, <2>1, <2>2, <2>3, <3>2, SellPays
      <4>2. QED BY <1>3, <4>1
    <3>3. QED BY <2>1, <2>4, <3>1, <3>2
  <2>6. Replayed(r[i], seq, i)
    <3>1. CASE seq[i].kind = "buy"
      BY <1>0, <1>1, <1>3, <2>1, <2>2, <2>3, <3>1, BuyKeepsReplay
    <3>2. CASE seq[i].kind = "sell"
      BY <1>0, <1>1, <1>3, <2>1, <2>2, <2>3, <3>2, SellKeepsReplay
    <3>3. QED BY <2>1, <2>4, <3>1, <3>2
  <2>7. QED BY <2>1, <2>5, <2>6 DEF Replayed
<1>8. n \in A
  <2> HIDE DEF A
  <2>1. 0..n \subseteq A
    BY <1>4, <1>6, <1>7, PlaceByPlace
  <2>2. QED BY <1>4, <2>1
<1>9. QED BY <1>3, <1>8 DEF seq, n, L

(***************************************************************************)
(* The same in terms of the transaction table: what a live trade of a      *)
(* scope paid, or the cost of its fills, and what the scope's lots cost.   *)
(***************************************************************************)
PaidFor(L, table, s, t) ==
  IF table[t].type = "buy" THEN table[t].amount ELSE -SpentOn(L.fills[t])

ScopePaid(L, table, s) ==
  /\ \A t \in LiveSells(table, s) : SpentOn(L.fills[t]) \in Nat
  /\ SumFunction([t \in LiveTrades(table, s) |-> PaidFor(L, table, s, t)])
       = SumOpenCost(L.lots)

\* The rows of a table have whole unit prices.
ExactTable(table) == \A t \in TxIds : table[t] # NoTx => HasExactPrice(table[t])

\* A replay of a scope leaves in its lots what its trades paid and did not sell.
LEMMA ReplayOfScopePays ==
  ASSUME NEW table, TableFits(table), ExactTable(table), splits = {}, NEW s \in Scopes
  PROVE  ScopePaid(Replay(table, s), table, s)
<1> DEFINE trades == ReplayTransactions(table, s)
           seq == BuildTimeline(trades, {})
           n == Len(seq)
           L == Replay(table, s)
           T == LiveTrades(table, s)
           p == [j \in 1..n |-> seq[j].id]
           f == [t \in T |-> PaidFor(L, table, s, t)]
           g == [j \in 1..n |-> Moves(L.fills, seq[j])]
           row(t) == [id |-> t, type |-> table[t].type, time |-> table[t].time,
                      qty |-> table[t].qty, amount |-> table[t].amount]
<1>0. AreActions({}) /\ CorporateActions(s) = {}
  BY FS_EmptySet DEF AreActions, CorporateActions
<1>1. AreTrades(trades)
  BY ScopeTrades
<1>2. ASSUME NEW t \in T
      PROVE  /\ table[t].type \in {"buy", "sell"} /\ table[t].amount \in Nat
             /\ table[t].type = "buy" =>
                  table[t].amount = table[t].qty * (table[t].amount \div table[t].qty)
  <2>1. t \in TxIds /\ table[t] # NoTx /\ s \in ScopesOf(table[t])
    BY DEF LiveTrades, ScopedIds
  <2>2. table[t] \in TxRow /\ ValidRow(table[t], NoAsset) /\ HasExactPrice(table[t])
    BY <2>1 DEF TableFits, ExactTable
  <2>3. table[t].type \in {"buy", "sell"}
    BY <2>1 DEF ScopesOf
  <2>4. table[t].type = "buy" => table[t].qty > 0
    BY <2>2, <2>3 DEF ValidRow
  <2>5. QED BY <2>2, <2>3, <2>4 DEF TxRow, HasExactPrice
<1>3. ExactTrades(trades)
  BY <1>2 DEF ExactTrades, ReplayTransactions
<1>4. Paid(L, seq, n)
  <2>1. L = ReplayScopeLedger(trades, {})
    BY <1>0 DEF Replay
  <2> HIDE DEF trades, L
  <2>2. Paid(ReplayScopeLedger(trades, {}), seq, n)
    BY <1>1, <1>3, ReplayPays
  <2>3. QED BY <2>1, <2>2
<1>5. /\ seq \in Seq(Events(trades, {})) /\ TradesDiffer(seq)
      /\ \A e \in Events(trades, {}) : \E i \in 1..n : seq[i] = e
  <2> HIDE DEF trades
  <2>1. QED BY <1>0, <1>1, TimelineIsComplete, TimelineTradesDiffer
<1>6. n \in Nat /\ DOMAIN seq = 1..n /\ \A j \in 1..n : seq[j] \in Events(trades, {})
  BY <1>5
<1>7. ASSUME NEW e \in Events(trades, {})
      PROVE  /\ e.id \in T /\ e.kind = table[e.id].type
             /\ e.amount = table[e.id].amount
  <2>1. PICK y \in trades :
          e = [kind |-> y.type, time |-> y.time, priority |-> 1, id |-> y.id,
               qty |-> y.qty, amount |-> y.amount]
    BY DEF Events, SplitEvents, TradeEvents
  <2>2. PICK t \in T : y = row(t)
    BY DEF ReplayTransactions
  <2>3. QED BY <2>1, <2>2
<1>8. \A t \in T : \E e \in Events(trades, {}) : e.id = t /\ e.kind # "split"
  <2>1. ASSUME NEW t \in T
        PROVE  \E e \in Events(trades, {}) : e.id = t /\ e.kind # "split"
    <3> DEFINE y == row(t)
               e == [kind |-> y.type, time |-> y.time, priority |-> 1, id |-> y.id,
                     qty |-> y.qty, amount |-> y.amount]
    <3>1. y \in trades
      BY DEF ReplayTransactions
    <3>2. e \in Events(trades, {})
      BY <3>1 DEF Events, TradeEvents
    <3>3. e.id = t /\ e.kind = table[t].type
      OBVIOUS
    <3> HIDE DEF e
    <3>4. QED BY <1>2, <3>2, <3>3
  <2>2. QED BY <2>1
<1> HIDE DEF trades, seq, n, L, T, row
<1>9. OneToOne(p, 1..n, T)
  <2>1. p \in [1..n -> T]
    BY <1>6, <1>7
  <2>2. \A i, j \in 1..n : p[i] = p[j] => i = j
    <3>1. \A i \in 1..n : seq[i].kind # "split"
      BY <1>2, <1>6, <1>7
    <3>2. QED BY <1>5, <1>6, <3>1 DEF TradesDiffer
  <2>3. \A t \in T : \E i \in 1..n : p[i] = t
    BY <1>5, <1>8
  <2> HIDE DEF p
  <2>4. QED BY <2>1, <2>2, <2>3 DEF OneToOne, Bijection, Injection, Surjection, IsInjective
<1>10. ASSUME NEW t \in T, table[t].type # "buy" PROVE SpentOn(L.fills[t]) \in Nat
  <2>1. PICK e \in Events(trades, {}) : e.id = t
    BY <1>8
  <2>2. PICK j \in 1..n : seq[j] = e
    BY <1>5
  <2>3. seq[j].kind = "sell"
    BY <1>2, <1>7, <1>10, <2>1, <2>2
  <2>4. QED BY <1>4, <2>1, <2>2, <2>3 DEF Paid
<1>11. ASSUME NEW j \in 1..n PROVE f[p[j]] = g[j] /\ f[p[j]] \in Int /\ p[j] \in T
  <2>1. /\ seq[j].id \in T /\ seq[j].kind = table[seq[j].id].type
        /\ seq[j].amount = table[seq[j].id].amount
    BY <1>6, <1>7
  <2>2. f[p[j]] = PaidFor(L, table, s, seq[j].id) /\ g[j] = Moves(L.fills, seq[j])
    BY <2>1
  <2>3. PaidFor(L, table, s, seq[j].id) = Moves(L.fills, seq[j])
    BY <2>1 DEF PaidFor, Moves
  <2>4. PaidFor(L, table, s, seq[j].id) \in Int
    BY <1>2, <1>10, <2>1 DEF PaidFor
  <2>5. QED BY <2>1, <2>2, <2>3, <2>4
<1>12. IntegerOn(f, T)
  <2>1. \A t \in T : PaidFor(L, table, s, t) \in Int
    BY <1>2, <1>10 DEF PaidFor
  <2>2. QED BY <2>1 DEF IntegerOn
<1>13. IntegerOn(g, 1..n)
  <2>1. \A j \in 1..n : g[j] \in Int
    BY <1>11
  <2>2. g = [j \in 1..n |-> g[j]]
    OBVIOUS
  <2> HIDE DEF g, f
  <2>3. QED BY <2>1, <2>2 DEF IntegerOn
<1>14. Renamed(g, f, p, 1..n) /\ IsFiniteSet(1..n)
  <2>1. IsFiniteSet(1..n)
    BY <1>6, FS_Interval
  <2> HIDE DEF f, g, p
  <2>2. QED BY <1>11, <2>1 DEF Renamed
<1> HIDE DEF f, g, p
<1>15. SumFunction(f) = SumFunction(g)
  BY <1>9, <1>12, <1>13, <1>14, SumRenamedTo
<1>16. SumFunction(g) = SumOpenCost(L.lots)
  BY <1>4 DEF Paid, MovedBy, g
<1>17. \A t \in LiveSells(table, s) : SpentOn(L.fills[t]) \in Nat
  BY <1>10 DEF LiveSells, T
<1>18. QED BY <1>15, <1>16, <1>17 DEF ScopePaid, f, T, L

\* The matches that fills become cost what the fills cost.
LEMMA CostOfFills ==
  ASSUME NEW s, NEW t, NEW fills \in SUBSET Fills, IsFiniteSet(fills)
  PROVE  SumFunction([m \in {MatchRow(s, t, f) : f \in fills} |-> m.qty * m.unit])
           = SpentOn(fills)
<1> DEFINE rows == {MatchRow(s, t, f) : f \in fills}
           p == [f \in fills |-> MatchRow(s, t, f)]
           h == [m \in rows |-> m.qty * m.unit]
           v == [f \in fills |-> f.qty * f.unit]
<1>1. \A f \in fills : p[f].qty = f.qty /\ p[f].src = f.src /\ p[f].unit = f.unit
  BY DEF MatchRow
<1>2. \A m \in rows : \E f \in fills : m = p[f]
  OBVIOUS
<1>3. p \in [fills -> rows]
  OBVIOUS
<1>4. h = [m \in rows |-> m.qty * m.unit]
  OBVIOUS
<1> HIDE DEF p, rows, h
<1>5. OneToOne(p, fills, rows)
  <2>1. \A f, e \in fills : p[f] = p[e] => f = e
    BY <1>1 DEF Fills
  <2>2. QED BY <1>2, <1>3, <2>1 DEF OneToOne, Bijection, Injection, Surjection, IsInjective
<1>6. \A f \in fills : f.qty \in Int /\ f.unit \in Int
  BY DEF Fills
<1>7. \A f \in fills : f.qty * f.unit \in Int
  BY <1>6
<1>8. \A m \in rows : m.qty * m.unit \in Int
  BY <1>1, <1>2, <1>7
<1>9. IntegerOn(h, rows)
  BY <1>4, <1>8 DEF IntegerOn
<1>10. IntegerOn(v, fills)
  BY <1>7 DEF IntegerOn
<1>11. Renamed(v, h, p, fills)
  BY <1>1, <1>3, <1>4 DEF Renamed
<1> HIDE DEF v
<1>12. SumFunction(h) = SumFunction(v)
  BY <1>5, <1>9, <1>10, <1>11, SumRenamedTo
<1>13. QED BY <1>12 DEF SpentOn, h, v, rows

\* What CostInv says of one scope.
ScopeCosts(s) ==
  /\ \A t \in LiveSells(tx, s) : HistoricalCost(t, matches) \in Nat
  /\ InvestedIn(s) = CostIn(OpenLots(s))

\* A scope that was replayed has its costs right.
LEMMA RebuiltCosts ==
  ASSUME BookInv, splits' = {}, NEW S \in SUBSET Scopes, UNCHANGED splits,
         RowChanges(S), RebuildScopes(S), ExactTable(tx'), NEW s \in S
  PROVE  ScopeCosts(s)'
<1> DEFINE L == Replay(tx', s)
           T == LiveTrades(tx', s)
<1>0. TableFits(tx') /\ SplitsFit /\ splits = {} /\ s \in Scopes
  BY DEF RowChanges, BookInv
<1>1. /\ ScopeReplayed(L, tx', s) /\ L.ok
      /\ {l \in lots' : l.scope = s} = RowsOf(s, L.lots)
  BY <1>0, RebuiltScope
<1>2. ScopePaid(L, tx', s)
  BY <1>0, ReplayOfScopePays
<1>3. \A u \in LiveSells(tx', s) :
        MatchesOf(u, matches') = {MatchRow(s, u, f) : f \in L.fills[u]}
  BY RebuiltMatches
<1> HIDE DEF L
<1>4. ASSUME NEW u \in LiveSells(tx', s)
      PROVE  HistoricalCost(u, matches') = SpentOn(L.fills[u])
  <2>1. L.fills[u] \in SUBSET Fills /\ SoldInFull(L.fills[u], tx'[u].qty, L.lots)
    BY <1>1 DEF ScopeReplayed
  <2>2. IsFiniteSet(L.fills[u])
    BY <2>1 DEF SoldInFull
  <2>3. SumFunction([m \in {MatchRow(s, u, f) : f \in L.fills[u]} |-> m.qty * m.unit])
          = SpentOn(L.fills[u])
    BY <2>1, <2>2, CostOfFills
  <2>4. QED BY <1>3, <2>3 DEF HistoricalCost
<1>5. \A u \in LiveSells(tx', s) : HistoricalCost(u, matches') \in Nat
  BY <1>2, <1>4 DEF ScopePaid
<1>6. OpenLots(s)' = OpenOf(RowsOf(s, L.lots))
  BY <1>1 DEF OpenLots, OpenOf
<1>7. CostIn(OpenLots(s))' = SumOpenCost(L.lots)
  <2>1. L.lots \in Seq(LotStates) /\ SourcesDiffer(L.lots)
    BY <1>1 DEF ScopeReplayed
  <2>2. CostIn(OpenOf(RowsOf(s, L.lots))) = SumOpenCost(L.lots)
    BY <2>1, LotStatesAreLots, LotsOfSequence
  <2>3. QED BY <1>6, <2>2
<1>8. InvestedIn(s)' = SumFunction([t \in T |-> PaidFor(L, tx', s, t)])
  <2>1. ASSUME NEW t \in T PROVE InvestedBy(t)' = PaidFor(L, tx', s, t)
    <3>1. tx'[t].type # "buy" => t \in LiveSells(tx', s)
      BY DEF LiveSells, LiveTrades, ScopedIds, ScopesOf
    <3>2. QED BY <1>4, <3>1 DEF InvestedBy, PaidFor
  <2>2. InvestedIn(s)' = SumFunction([t \in T |-> InvestedBy(t)'])
    BY DEF InvestedIn
  <2>3. [t \in T |-> InvestedBy(t)'] = [t \in T |-> PaidFor(L, tx', s, t)]
    BY <2>1
  <2>4. QED BY <2>2, <2>3
<1>9. QED BY <1>2, <1>5, <1>7, <1>8 DEF ScopeCosts, ScopePaid, T

\* So does a scope whose lots, rows and matches are as they were.
LEMMA KeptCosts ==
  ASSUME NEW s \in Scopes, ScopeCosts(s),
         LiveTrades(tx', s) = LiveTrades(tx, s),
         \A u \in LiveTrades(tx, s) : tx'[u] = tx[u],
         \A u \in LiveSells(tx, s) : MatchesOf(u, matches') = MatchesOf(u, matches),
         OpenLots(s)' = OpenLots(s)
  PROVE  ScopeCosts(s)'
<1>1. LiveSells(tx', s) = LiveSells(tx, s)
  BY DEF LiveSells
<1>2. \A u \in LiveSells(tx, s) :
        HistoricalCost(u, matches') = HistoricalCost(u, matches)
  BY DEF HistoricalCost
<1>3. ASSUME NEW t \in LiveTrades(tx, s) PROVE InvestedBy(t)' = InvestedBy(t)
  <2>1. tx[t].type # "buy" => t \in LiveSells(tx, s)
    BY DEF LiveSells, LiveTrades, ScopedIds, ScopesOf
  <2>2. QED BY <1>2, <2>1 DEF InvestedBy
<1>4. [t \in LiveTrades(tx, s) |-> InvestedBy(t)'] = [t \in LiveTrades(tx, s) |-> InvestedBy(t)]
  BY <1>3
<1>5. InvestedIn(s)' = SumFunction([t \in LiveTrades(tx, s) |-> InvestedBy(t)'])
  BY DEF InvestedIn
<1>6. InvestedIn(s)' = InvestedIn(s)
  BY <1>4, <1>5 DEF InvestedIn
<1>7. QED BY <1>1, <1>2, <1>6 DEF ScopeCosts

\* rebuildScopes keeps the costs right.
LEMMA RebuildKeepsCost ==
  ASSUME CostInv, NEW S \in SUBSET Scopes, IsFiniteSet(S),
         RowChanges(S), UNCHANGED splits, RebuildScopes(S), ExactTable(tx')
  PROVE  CostInv'
<1>1. BookInv' /\ splits' = {} /\ BookInv
  BY RebuildKeepsBook DEF CostInv
<1>2. \A t \in TxIds : Exists(t)' => HasExactPrice(tx'[t])
  BY DEF ExactTable, Exists
<1>3. ASSUME NEW s \in Scopes PROVE ScopeCosts(s)'
  <2>1. CASE s \in S
    BY <1>1, <2>1, RebuiltCosts
  <2>2. CASE s \notin S
    <3>1. /\ LiveTrades(tx', s) = LiveTrades(tx, s)
          /\ LiveSells(tx', s) = LiveSells(tx, s)
          /\ \A u \in LiveTrades(tx, s) : tx'[u] = tx[u]
      BY <2>2, OtherScopesAreKept
    <3>2. \A u \in LiveSells(tx, s) : MatchesOf(u, matches') = MatchesOf(u, matches)
      BY <1>1, <2>2, <3>1, KeptMatches
    <3>3. OpenLots(s)' = OpenLots(s)
      <4>1. {l \in lots' : l.scope = s} = {l \in lots : l.scope = s}
        BY <2>2, RebuiltOthers
      <4>2. QED BY <4>1 DEF OpenLots
    <3>4. ScopeCosts(s)
      BY DEF CostInv, ScopeCosts
    <3>5. QED BY <3>1, <3>2, <3>3, <3>4, KeptCosts
  <2>3. QED BY <2>1, <2>2
<1>4. QED BY <1>1, <1>2, <1>3 DEF CostInv, ScopeCosts

\* What the trades of a scope move into the bucket are numbers.
LEMMA InvestedTypes ==
  ASSUME BookInv, NEW s \in Scopes, ScopeCosts(s)
  PROVE  /\ IsFiniteSet(LiveTrades(tx, s))
         /\ \A u \in LiveTrades(tx, s) : InvestedBy(u) \in Int
<1>1. IsFiniteSet(LiveTrades(tx, s))
  <2>1. LiveTrades(tx, s) \subseteq {t \in TxIds : tx[t] # NoTx}
    BY DEF LiveTrades, ScopedIds
  <2>2. QED BY <2>1, FS_Subset DEF BookInv, TableFits
<1>2. ASSUME NEW u \in LiveTrades(tx, s) PROVE InvestedBy(u) \in Int
  <2>1. u \in TxIds /\ tx[u] \in TxRow /\ tx[u].type \in {"buy", "sell"}
    BY DEF LiveTrades, ScopedIds, ScopesOf, BookInv, TableFits
  <2>2. CASE tx[u].type = "buy"
    BY <2>1, <2>2 DEF InvestedBy, TxRow
  <2>3. CASE tx[u].type = "sell"
    BY <2>3 DEF InvestedBy, ScopeCosts, LiveSells
  <2>4. QED BY <2>1, <2>2, <2>3
<1>3. QED BY <1>1, <1>2

\* A new trade adds what it moves.
LEMMA OneMoreTrade ==
  ASSUME BookInv, NEW t \in TxIds, NEW r, RowIsNew(t, r), NEW s \in ScopesOf(r),
         ScopeCosts(s),
         \A u \in LiveSells(tx, s) : MatchesOf(u, matches') = MatchesOf(u, matches),
         InvestedBy(t)' \in Int
  PROVE  InvestedIn(s)' = InvestedBy(t)' + InvestedIn(s)
<1> DEFINE D == LiveTrades(tx', s)
           E == LiveTrades(tx, s)
           f == [u \in D |-> InvestedBy(u)']
           g == [u \in E |-> InvestedBy(u)]
<1>0. s \in Scopes
  BY DEF ScopesOf
<1>1. /\ t \notin E /\ D = E \cup {t} /\ t \in D
      /\ \A u \in E : tx'[u] = tx[u]
  BY <1>0 DEF RowIsNew
<1>2. IsFiniteSet(E) /\ \A u \in E : InvestedBy(u) \in Int
  BY <1>0, InvestedTypes
<1>3. ASSUME NEW u \in E PROVE InvestedBy(u)' = InvestedBy(u)
  <2>1. tx[u].type # "buy" => u \in LiveSells(tx, s)
    BY DEF LiveSells, LiveTrades, ScopedIds, ScopesOf
  <2>2. QED BY <1>1, <2>1 DEF InvestedBy, HistoricalCost
<1> HIDE DEF D, E
<1>4. IsFiniteSet(D) /\ RestOf(E, D, t)
  BY <1>1, <1>2, FS_AddElement DEF RestOf
<1>5. IntegerOn(f, D) /\ IntegerOn(g, E) /\ SameOn(g, f, E)
  BY <1>1, <1>2, <1>3 DEF IntegerOn, SameOn
<1>6. f[t] = InvestedBy(t)'
  BY <1>1
<1> HIDE DEF f, g
<1>7. SumFunction(f) = f[t] + SumFunction(g)
  BY <1>4, <1>5, SumOfRest
<1>8. InvestedIn(s)' = SumFunction(f) /\ InvestedIn(s) = SumFunction(g)
  BY DEF InvestedIn, f, g, D, E
<1>9. QED BY <1>6, <1>7, <1>8

\* A row that is new keeps the table exact.
LEMMA NewRowIsExact ==
  ASSUME CostInv, NEW t \in TxIds, NEW r, RowIsNew(t, r), HasExactPrice(r)
  PROVE  \A u \in TxIds : Exists(u)' => HasExactPrice(tx'[u])
BY DEF CostInv, RowIsNew, Exists

\* A new row leaves the other scopes alone.
LEMMA NewRowElsewhere ==
  ASSUME CostInv, NEW t \in TxIds, NEW r, RowIsNew(t, r),
         NEW z \in Scopes, z \notin ScopesOf(r),
         \A u \in LiveSells(tx, z) : MatchesOf(u, matches') = MatchesOf(u, matches),
         OpenLots(z)' = OpenLots(z)
  PROVE  ScopeCosts(z)'
<1>1. LiveTrades(tx', z) = LiveTrades(tx, z) /\ \A u \in LiveTrades(tx, z) : tx'[u] = tx[u]
  BY DEF RowIsNew
<1>2. ScopeCosts(z)
  BY DEF CostInv, ScopeCosts
<1>3. QED BY <1>1, <1>2, KeptCosts

\* A cash movement belongs to no scope.
LEMMA NewCashKeepsCost ==
  ASSUME CostInv, NEW t \in TxIds, NEW r \in NewRows, HasExactPrice(r),
         CreateCashMovement(t, r)
  PROVE  CostInv'
<1>1. BookInv /\ BookInv'
  BY NewCashKeepsBook DEF CostInv
<1>2. RowIsNew(t, r) /\ ScopesOf(r) = {} /\ UNCHANGED <<lots, matches, splits>>
  BY <1>1, InsertAddsRow DEF BookInv, CreateCashMovement, Insert
<1>3. \A u \in TxIds : Exists(u)' => HasExactPrice(tx'[u])
  BY <1>2, NewRowIsExact
<1>4. ASSUME NEW z \in Scopes PROVE ScopeCosts(z)'
  <2>1. OpenLots(z)' = OpenLots(z)
    BY <1>2 DEF OpenLots
  <2>2. QED BY <1>2, <2>1, NewRowElsewhere
<1>5. QED BY <1>1, <1>2, <1>3, <1>4 DEF CostInv, ScopeCosts

\* A buy on the incremental path: its lot costs what was paid.
LEMMA NewBuyKeepsCost ==
  ASSUME CostInv, NEW t \in TxIds, NEW r \in NewRows, HasExactPrice(r),
         CreateBuyIncrementally(t, r)
  PROVE  CostInv'
<1>0. BookInv /\ BookInv'
  BY NewBuyKeepsBook DEF CostInv
<1>1. RowIsNew(t, r) /\ r.type = "buy"
  BY <1>0, InsertAddsRow DEF BookInv, CreateBuyIncrementally
<1>2. PICK s \in ScopesOf(r) :
        lots' = lots \cup
          {LotRow(s, [src |-> t, orig |-> r.qty, rem |-> r.qty,
                      unit |-> r.amount \div r.qty, openedAt |-> r.time])}
  BY DEF CreateBuyIncrementally
<1> DEFINE x == LotRow(s, [src |-> t, orig |-> r.qty, rem |-> r.qty,
                           unit |-> r.amount \div r.qty, openedAt |-> r.time])
<1>3. matches' = matches /\ splits' = splits /\ lots' = lots \cup {x}
  BY <1>2 DEF CreateBuyIncrementally, Insert
<1>4. s \in Scopes /\ r.qty \in Nat /\ r.qty > 0 /\ r.amount \in Nat /\ r.time \in Nat
      /\ r.amount = r.qty * (r.amount \div r.qty)
  BY <1>1 DEF ScopesOf, RowIsNew, TxRow, ValidRow, HasExactPrice
<1>5. r.amount \div r.qty \in Nat
  BY <1>4
<1>6. x \in LotRows
  BY <1>4, <1>5, <1>1 DEF LotRow, LotRows
<1>7. /\ x.scope = s /\ x.src = t /\ x.rem = r.qty /\ x.unit = r.amount \div r.qty
  BY DEF LotRow
<1> HIDE DEF x
<1>8. x \notin lots
  BY <1>0, <1>1, <1>7 DEF BookInv, LedgerRowsResolve, RowIsNew, LotsFit, LotRows
<1>9. ASSUME NEW z \in Scopes PROVE ScopeCosts(z)'
  <2>1. CASE z # s
    <3>1. z \notin ScopesOf(r)
      BY <2>1, OneScope
    <3>2. OpenLots(z)' = OpenLots(z)
      BY <1>3, <1>7, <2>1 DEF OpenLots
    <3>3. QED BY <1>1, <1>3, <3>1, <3>2, NewRowElsewhere
  <2>2. CASE z = s
    <3> DEFINE rows == OpenLots(s)
    <3>1. ScopeCosts(s)
      BY <1>4 DEF CostInv, ScopeCosts
    <3>2. InvestedBy(t)' = r.amount
      BY <1>1 DEF InvestedBy, RowIsNew
    <3>3. InvestedIn(s)' = r.amount + InvestedIn(s)
      BY <1>0, <1>1, <1>3, <1>4, <3>1, <3>2, OneMoreTrade
    <3>4. OpenLots(s)' = rows \cup {x} /\ x \notin rows
      BY <1>3, <1>4, <1>7, <1>8 DEF OpenLots
    <3>5. rows \in SUBSET LotRows /\ IsFiniteSet(rows)
      BY <1>0, <1>4, OpenLotTypes
    <3> HIDE DEF rows
    <3>6. CostIn(rows \cup {x}) = x.rem * x.unit + CostIn(rows)
      BY <1>6, <3>4, <3>5, OneMoreLot
    <3>7. CostIn(OpenLots(s))' = r.amount + CostIn(OpenLots(s))
      BY <1>4, <1>7, <3>4, <3>6 DEF rows
    <3>8. InvestedIn(s)' = CostIn(OpenLots(s))'
      BY <3>1, <3>3, <3>7 DEF ScopeCosts
    <3>9. \A u \in LiveSells(tx', s) : HistoricalCost(u, matches') \in Nat
      BY <1>1, <1>3, <1>4, <3>1, NewRowInSells DEF ScopeCosts
    <3>10. QED BY <2>2, <3>8, <3>9 DEF ScopeCosts
  <2>3. QED BY <2>1, <2>2
<1>10. \A u \in TxIds : Exists(u)' => HasExactPrice(tx'[u])
  BY <1>1, NewRowIsExact
<1>11. QED BY <1>0, <1>3, <1>9, <1>10 DEF CostInv, ScopeCosts

\* The open lots of a scope, in an order, cost what the sequence costs; and a
\* sell takes the cost of its fills out.
LEMMA OrderCosts ==
  ASSUME BookInv, NEW s \in Scopes, NEW order \in FifoOrders(s), NEW q \in Nat
  PROVE  LET consumed == Consume(order, q) IN
         /\ SpentOn(consumed.fills) \in Nat
         /\ consumed.lots \in Seq(LotRows)
         /\ CostIn(OpenLots(s)) \in Nat
         /\ SumOpenCost(consumed.lots)
              = -SpentOn(consumed.fills) + CostIn(OpenLots(s))
<1> DEFINE c == Consume(order, q)
           C == c.lots
           n == Len(order)
           rows == OpenLots(s)
<1>1. /\ order \in Seq(LotRows) /\ SourcesDiffer(order) /\ AreLots(LotRows)
      /\ \A i \in DOMAIN order : order[i] \in rows
      /\ \A l \in rows : \E i \in DOMAIN order : order[i] = l
  BY OrderOfOpenLots, LotRowTypes
<1>2. c \in ConsumeStates(LotRows) /\ Consumed(c, order, n, q)
  BY <1>1, ConsumeIsComplete
<1>3. rows \in SUBSET LotRows /\ IsFiniteSet(rows)
      /\ \A l \in rows : l.rem > 0 /\ l.scope = s
  BY OpenLotTypes
<1> HIDE DEF c, n, rows
<1>4. C \in Seq(LotRows) /\ DOMAIN C = 1..n /\ c.fills \in SUBSET Fills
      /\ IsFiniteSet(c.fills)
      /\ SpentOn(c.fills) + CostOf(C, n) = CostOf(order, n)
  BY <1>2 DEF ConsumeStates, Consumed
<1>5. n \in Nat /\ DOMAIN order = 1..n
  BY <1>1 DEF n
<1> HIDE DEF C
<1>6. Len(C) = n
  BY <1>4, <1>5
<1>7. SpentOn(c.fills) \in Nat
  BY <1>4, SpentIsNat
<1>8. SumOpenCost(order) = CostOf(order, n) /\ CostOf(order, n) \in Nat
  BY <1>1, LotsCost DEF n
<1>9. SumOpenCost(C) = CostOf(C, n) /\ CostOf(C, n) \in Nat
  BY <1>1, <1>4, <1>6, LotsCost
<1>10. OpenOf(RowsOf(s, order)) = rows
  <2>1. \A l \in rows : LotRow(s, l) = l
    BY <1>3 DEF LotRow, LotRows
  <2>2. RowsOf(s, order) = rows
    BY <1>1, <2>1 DEF RowsOf
  <2>3. QED BY <1>3, <2>2 DEF OpenOf
<1>11. CostIn(OpenOf(RowsOf(s, order))) = SumOpenCost(order)
  BY <1>1, LotsOfSequence
<1>12. SumOpenCost(C) = -SpentOn(c.fills) + CostIn(rows) /\ CostIn(rows) \in Nat
  BY <1>4, <1>7, <1>8, <1>9, <1>10, <1>11
<1>13. QED BY <1>4, <1>7, <1>12 DEF C, c, rows

\* A sell on the incremental path: its matches cost what the lots lose.
LEMMA NewSellKeepsCost ==
  ASSUME CostInv, NEW t \in TxIds, NEW r \in NewRows, HasExactPrice(r),
         CreateSellIncrementally(t, r)
  PROVE  CostInv'
<1>0. BookInv /\ BookInv'
  BY NewSellKeepsBook DEF CostInv
<1>1. RowIsNew(t, r) /\ r.type = "sell" /\ splits' = splits
  BY <1>0, InsertAddsRow DEF BookInv, CreateSellIncrementally, Insert
<1>2. PICK s \in ScopesOf(r), p \in positions :
        \E order \in FifoOrders(s) : /\ IsActivePosition(p, s)
                                     /\ ConsumeOpenLots(s, p, t, r, order)
  BY DEF CreateSellIncrementally
<1>3. PICK order \in FifoOrders(s) : /\ IsActivePosition(p, s)
                                     /\ ConsumeOpenLots(s, p, t, r, order)
  BY <1>2
<1>4. s \in Scopes /\ r.qty \in Nat
  BY <1>1 DEF ScopesOf, RowIsNew, TxRow
<1> DEFINE c == Consume(order, r.qty)
           C == c.lots
           new == {MatchRow(s, t, f) : f \in c.fills}
<1>5. /\ c.toSell = 0
      /\ lots' = (lots \ OpenLots(s)) \cup RowsOf(s, C)
      /\ matches' = matches \cup new
  BY <1>3 DEF ConsumeOpenLots, RowsOf
<1>6. /\ Sold(s, order, C)
      /\ c.fills \in SUBSET Fills /\ IsFiniteSet(c.fills)
  BY <1>0, <1>3, <1>4, <1>5, ConsumedOrder
<1>7. /\ SpentOn(c.fills) \in Nat
      /\ SumOpenCost(C) = -SpentOn(c.fills) + CostIn(OpenLots(s))
  BY <1>0, <1>3, <1>4, OrderCosts
<1> HIDE DEF c, C
<1>8. \A m \in new : m.sell = t /\ m.scope = s
  BY DEF MatchRow
<1>9. \A m \in matches : m.sell \in LiveSells(tx, m.scope) /\ m.scope \in Scopes
  BY <1>0 DEF BookInv, LedgerRowsResolve, LiveSells, LiveTrades, ScopedIds, ScopesOf
<1>10. \A z \in Scopes :
         /\ t \notin LiveSells(tx, z)
         /\ \A u \in LiveSells(tx', z) : u \in LiveSells(tx, z) \/ u = t
  BY <1>1, NewRowInSells
<1>11. \A m \in matches : m.sell # t
  BY <1>9, <1>10
<1>12. ASSUME NEW z \in Scopes, NEW u \in LiveSells(tx, z)
       PROVE  MatchesOf(u, matches') = MatchesOf(u, matches)
  <2>1. u # t
    BY <1>10
  <2> HIDE DEF new
  <2>2. QED BY <1>5, <1>8, <2>1 DEF MatchesOf
<1>13. HistoricalCost(t, matches') = SpentOn(c.fills)
  <2>1. MatchesOf(t, matches') = new
    <3> HIDE DEF new
    <3>1. QED BY <1>5, <1>8, <1>11 DEF MatchesOf
  <2>2. SumFunction([m \in new |-> m.qty * m.unit]) = SpentOn(c.fills)
    BY <1>6, CostOfFills
  <2>3. QED BY <2>1, <2>2 DEF HistoricalCost
<1>14. \A l \in RowsOf(s, C) : l.scope = s
  BY DEF RowsOf, LotRow
<1>15. ASSUME NEW z \in Scopes PROVE ScopeCosts(z)'
  <2>1. CASE z # s
    <3>1. z \notin ScopesOf(r)
      BY <2>1, OneScope
    <3>2. OpenLots(z)' = OpenLots(z)
      BY <1>5, <1>14, <2>1 DEF OpenLots
    <3>3. QED BY <1>1, <1>12, <3>1, <3>2, NewRowElsewhere
  <2>2. CASE z = s
    <3>1. ScopeCosts(s)
      BY <1>4 DEF CostInv, ScopeCosts
    <3>2. InvestedBy(t)' = -SpentOn(c.fills)
      BY <1>1, <1>13 DEF InvestedBy, RowIsNew
    <3>3. InvestedIn(s)' = -SpentOn(c.fills) + InvestedIn(s)
      <4>1. -SpentOn(c.fills) \in Int
        BY <1>7
      <4>2. \A u \in LiveSells(tx, s) : MatchesOf(u, matches') = MatchesOf(u, matches)
        BY <1>4, <1>12
      <4>3. QED BY <1>0, <1>1, <3>1, <3>2, <4>1, <4>2, OneMoreTrade
    <3>4. CostIn(OpenLots(s))' = SumOpenCost(C)
      <4>1. OpenLots(s)' = OpenOf(RowsOf(s, C))
        BY <1>5, <1>14 DEF OpenLots, OpenOf
      <4>2. C \in Seq(LotRows) /\ SourcesDiffer(C)
        BY <1>6 DEF Sold
      <4>3. CostIn(OpenOf(RowsOf(s, C))) = SumOpenCost(C)
        BY <4>2, LotRowTypes, LotsOfSequence
      <4>4. QED BY <4>1, <4>3
    <3>5. InvestedIn(s)' = CostIn(OpenLots(s))'
      BY <1>7, <3>1, <3>3, <3>4 DEF ScopeCosts
    <3>6. \A u \in LiveSells(tx', s) : HistoricalCost(u, matches') \in Nat
      <4>1. ASSUME NEW u \in LiveSells(tx', s) PROVE HistoricalCost(u, matches') \in Nat
        <5>1. CASE u = t
          BY <1>7, <1>13, <5>1
        <5>2. CASE u # t
          <6>1. u \in LiveSells(tx, s)
            BY <1>4, <1>10, <5>2
          <6>2. HistoricalCost(u, matches') = HistoricalCost(u, matches)
            BY <1>4, <1>12, <6>1 DEF HistoricalCost
          <6>3. QED BY <3>1, <6>1, <6>2 DEF ScopeCosts
        <5>3. QED BY <5>1, <5>2
      <4>2. QED BY <4>1
    <3>7. QED BY <2>2, <3>5, <3>6 DEF ScopeCosts
  <2>3. QED BY <2>1, <2>2
<1>16. \A u \in TxIds : Exists(u)' => HasExactPrice(tx'[u])
  BY <1>1, NewRowIsExact
<1>17. QED BY <1>0, <1>1, <1>15, <1>16 DEF CostInv, ScopeCosts

\* A create, incremental or with a replay.
LEMMA CreateKeepsCost ==
  ASSUME CostInv, NEW t \in TxIds, NEW r \in NewRows, HasExactPrice(r),
         Create(t, r)
  PROVE  CostInv'
<1>1. CASE CreateCashMovement(t, r)
  BY <1>1, NewCashKeepsCost
<1>2. CASE CreateBuyIncrementally(t, r)
  BY <1>2, NewBuyKeepsCost
<1>3. CASE CreateSellIncrementally(t, r)
  BY <1>3, NewSellKeepsCost
<1>4. CASE CreateWithReplay(t, r)
  <2>1. PICK s \in ScopesOf(r) : RebuildScopes({s})
    BY <1>4 DEF CreateWithReplay
  <2>2. RowIsNew(t, r) /\ UNCHANGED splits
    BY <1>4, InsertAddsRow DEF CostInv, BookInv, CreateWithReplay, Insert
  <2>3. {s} \in SUBSET Scopes /\ ScopesOf(r) \subseteq {s}
    BY OneScope
  <2>4. RowChanges({s})
    BY <2>2, <2>3 DEF RowIsNew, RowChanges
  <2>5. IsFiniteSet({s})
    BY FS_Singleton
  <2>6. ExactTable(tx')
    BY <2>2, NewRowIsExact DEF ExactTable, Exists
  <2>7. QED BY <2>1, <2>2, <2>3, <2>4, <2>5, <2>6, RebuildKeepsCost
<1>5. QED BY <1>1, <1>2, <1>3, <1>4 DEF Create

\* A row written over a stored one, with an exact price.
LEMMA RewriteKeepsCost ==
  ASSUME CostInv, NEW t \in TxIds, NEW S \in SUBSET Scopes, IsFiniteSet(S),
         NEW r,
         r = NoTx \/ (r \in TxRow /\ ValidRow(r, NoAsset) /\ HasExactPrice(r)),
         tx' = [tx EXCEPT ![t] = r], UNCHANGED splits, RebuildScopes(S),
         ScopesOf(tx[t]) \subseteq S, r # NoTx => ScopesOf(r) \subseteq S
  PROVE  CostInv'
<1>1. /\ TableFits(tx') /\ tx'[t] = r
      /\ \A u \in TxIds : u # t => tx'[u] = tx[u]
  BY OneRowWritten DEF CostInv, BookInv
<1>2. RowChanges(S)
  BY <1>1 DEF RowChanges
<1>3. ExactTable(tx')
  BY <1>1 DEF ExactTable, CostInv, Exists
<1>4. QED BY <1>2, <1>3, RebuildKeepsCost

\* An edit.
LEMMA UpdateKeepsCost ==
  ASSUME CostInv, NEW t \in TxIds, NEW r \in NewRows, HasExactPrice(r),
         Update(t, r)
  PROVE  CostInv'
<1> DEFINE S == UpdateScopes(tx[t], r)
           new == [r EXCEPT !.deleted = tx[t].deleted]
<1>1. /\ tx[t] # NoTx /\ ValidRow(r, NoAsset)
      /\ tx' = [tx EXCEPT ![t] = new] /\ UNCHANGED splits /\ RebuildScopes(S)
  BY DEF Update, Exists
<1>2. tx[t] \in TxRow
  BY <1>1 DEF CostInv, BookInv, TableFits
<1>3. /\ new \in TxRow /\ ValidRow(new, NoAsset) /\ HasExactPrice(new)
      /\ ScopesOf(new) = ScopesOf(r)
  BY <1>1, <1>2 DEF NewRows, TxRow, ValidRow, HasExactPrice, ScopesOf
<1>4. S = ScopesOf(tx[t]) \cup ScopesOf(r)
  BY DEF UpdateScopes
<1> HIDE DEF new, S
<1>5. S \in SUBSET Scopes /\ IsFiniteSet(S)
  BY <1>4, FewScopes, FS_Union
<1>6. QED BY <1>1, <1>3, <1>4, <1>5, RewriteKeepsCost

\* A soft or hard delete.
LEMMA DeleteKeepsCost ==
  ASSUME CostInv, NEW t \in TxIds, SoftDelete(t) \/ HardDelete(t)
  PROVE  CostInv'
<1> DEFINE S == ScopesOf(tx[t])
           old == [tx[t] EXCEPT !.deleted = TRUE]
<1>1. S \in SUBSET Scopes /\ IsFiniteSet(S)
  BY FewScopes
<1>2. tx[t] # NoTx /\ UNCHANGED splits /\ RebuildScopes(S)
  BY DEF SoftDelete, HardDelete, Exists
<1>3. tx[t] \in TxRow /\ ValidRow(tx[t], NoAsset) /\ HasExactPrice(tx[t])
  BY <1>2 DEF CostInv, BookInv, TableFits, Exists
<1>4. CASE SoftDelete(t)
  <2>1. tx' = [tx EXCEPT ![t] = old]
    BY <1>4 DEF SoftDelete
  <2>2. /\ old \in TxRow /\ ValidRow(old, NoAsset) /\ HasExactPrice(old)
        /\ ScopesOf(old) = S
    BY <1>3 DEF TxRow, ValidRow, HasExactPrice, ScopesOf
  <2> HIDE DEF old
  <2>3. QED BY <1>1, <1>2, <2>1, <2>2, RewriteKeepsCost
<1>5. CASE HardDelete(t)
  <2>1. tx' = [tx EXCEPT ![t] = NoTx]
    BY <1>5 DEF HardDelete
  <2>2. QED BY <1>1, <1>2, <2>1, RewriteKeepsCost
<1>6. QED BY <1>4, <1>5

\* An empty book has no costs.
LEMMA InitCost == Init => CostInv
<1> SUFFICES ASSUME Init PROVE CostInv
  OBVIOUS
<1>1. BookInv /\ splits = {} /\ \A t \in TxIds : ~Exists(t)
  BY InitBook DEF Init, Exists
<1>2. ASSUME NEW s \in Scopes
      PROVE  LiveSells(tx, s) = {} /\ LiveTrades(tx, s) = {} /\ OpenLots(s) = {}
  BY DEF Init, LiveSells, LiveTrades, ScopedIds, OpenLots
<1>3. ASSUME NEW s \in Scopes PROVE InvestedIn(s) = 0 /\ CostIn(OpenLots(s)) = 0
  <2> DEFINE f == [t \in LiveTrades(tx, s) |-> InvestedBy(t)]
             g == [l \in OpenLots(s) |-> l.rem * l.unit]
  <2>1. DOMAIN f = {} /\ f \in [{} -> Int] /\ DOMAIN g = {} /\ g \in [{} -> Int]
    BY <1>2
  <2> HIDE DEF f, g
  <2>2. SumFunction(f) = 0 /\ SumFunction(g) = 0
    BY <2>1, SumOfNone
  <2>3. QED BY <2>2 DEF InvestedIn, CostIn, f, g
<1>4. QED BY <1>1, <1>2, <1>3 DEF CostInv

\* Nothing happens to the book.
LEMMA UntouchedCost ==
  ASSUME CostInv, UNCHANGED <<tx, lots, matches, positions, splits>>
  PROVE  CostInv'
<1>1. BookInv'
  BY UntouchedBook DEF CostInv, BookInv, SplitsFit
<1>2. ASSUME NEW s \in Scopes PROVE ScopeCosts(s)'
  <2>1. OpenLots(s)' = OpenLots(s) /\ ScopeCosts(s)
    BY DEF OpenLots, CostInv, ScopeCosts
  <2>2. QED BY <2>1, KeptCosts
<1>3. QED BY <1>1, <1>2 DEF CostInv, ScopeCosts, Exists

\* Every operation of the service keeps the costs right.
LEMMA NextKeepsCost ==
  ASSUME CostInv, Next
  PROVE  CostInv'
BY CreateKeepsCost, UpdateKeepsCost, DeleteKeepsCost, InputsAreRows, PricesAreExact
   DEF Next, UpdateOwn

(***************************************************************************)
(* The inductive invariant behind the investment bucket: with no split on  *)
(* record, what the buys of a scope paid less the cost basis of its sells  *)
(* is what its open lots cost, whether the service booked a trade          *)
(* incrementally or replayed the scope.                                    *)
(***************************************************************************)
THEOREM CostInvariant == Spec => []CostInv
<1>1. CostInv /\ [Next]_vars => CostInv'
  BY NextKeepsCost, UntouchedCost DEF vars
<1>2. QED BY InitCost, <1>1, PTL DEF Spec

-----------------------------------------------------------------------------
(***************************************************************************)
(* Sums grouped by a key.                                                  *)
(***************************************************************************)
\* The sum over a part of the domain.
PartSum(f, P) == SumFunction([x \in P |-> f[x]])

\* With one element of the part, and without it.
LEMMA PartSplits ==
  ASSUME NEW D, IsFiniteSet(D), NEW f, IntegerOn(f, D), NEW P \in SUBSET D
  PROVE  /\ IsFiniteSet(P) /\ PartSum(f, P) \in Int /\ PartSum(f, {}) = 0
         /\ \A x \in P : PartSum(f, P) = f[x] + PartSum(f, P \ {x})
<1> DEFINE g == [x \in P |-> f[x]]
           none == [x \in {} |-> f[x]]
<1>1. IsFiniteSet(P) /\ g \in [P -> Int]
  BY FS_Subset DEF IntegerOn
<1>2. PartSum(f, {}) = 0
  <2>1. DOMAIN none = {} /\ none \in [{} -> Int]
    OBVIOUS
  <2>2. SumFunction(none) = 0
    <3> HIDE DEF none
    <3>1. QED BY <2>1, SumOfNone
  <2>3. QED BY <2>2 DEF PartSum
<1>3. PartSum(f, P) \in Int
  <2> HIDE DEF g
  <2>1. SumFunction(g) \in Int
    BY <1>1, SumInt
  <2>2. QED BY <2>1 DEF PartSum, g
<1>4. ASSUME NEW x \in P PROVE PartSum(f, P) = f[x] + PartSum(f, P \ {x})
  <2> DEFINE E == P \ {x}
             h == [y \in E |-> f[y]]
  <2>1. RestOf(E, P, x) /\ IntegerOn(g, P) /\ IntegerOn(h, E) /\ SameOn(h, g, E)
    BY <1>1 DEF RestOf, IntegerOn, SameOn
  <2>2. g[x] = f[x]
    OBVIOUS
  <2> HIDE DEF g, h, E
  <2>3. SumFunction(g) = g[x] + SumFunction(h)
    BY <1>1, <2>1, SumOfRest
  <2>4. QED BY <2>2, <2>3 DEF PartSum, g, h, E
<1>5. QED BY <1>1, <1>2, <1>3, <1>4

\* Two parts with nothing in common.
LEMMA PartUnion ==
  ASSUME NEW D, IsFiniteSet(D), NEW f, IntegerOn(f, D),
         NEW P \in SUBSET D, NEW Q \in SUBSET D, P \cap Q = {}
  PROVE  PartSum(f, P \cup Q) = PartSum(f, P) + PartSum(f, Q)
<1> DEFINE A == {s \in SUBSET P : PartSum(f, s \cup Q) = PartSum(f, s) + PartSum(f, Q)}
<1>1. IsFiniteSet(P)
  BY FS_Subset
<1>2. Grows(A, P)
  <2> SUFFICES ASSUME NEW s \in SUBSET P, \A r \in SUBSET s : r # s => r \in A
               PROVE  s \in A
    BY DEF Grows
  <2>1. CASE s = {}
    <3>1. PartSum(f, {}) = 0 /\ PartSum(f, Q) \in Int
      BY PartSplits
    <3>2. {} \cup Q = Q
      OBVIOUS
    <3>3. QED BY <2>1, <3>1, <3>2
  <2>2. CASE s # {}
    <3>1. PICK x \in s : TRUE
      BY <2>2
    <3> DEFINE r == s \ {x}
    <3>2. r \in SUBSET s /\ r # s
      BY <3>1
    <3>3. PartSum(f, r \cup Q) = PartSum(f, r) + PartSum(f, Q)
      BY <3>2
    <3>4. x \in D /\ x \notin Q /\ x \in s \cup Q /\ (s \cup Q) \ {x} = r \cup Q
      BY <3>1
    <3>5. s \in SUBSET D /\ (s \cup Q) \in SUBSET D /\ r \in SUBSET D
      BY <3>2
    <3>6. PartSum(f, s) = f[x] + PartSum(f, r)
      BY <3>1, <3>5, PartSplits
    <3>7. PartSum(f, s \cup Q) = f[x] + PartSum(f, r \cup Q)
      <4>1. PartSum(f, s \cup Q) = f[x] + PartSum(f, (s \cup Q) \ {x})
        BY <3>4, <3>5, PartSplits
      <4>2. QED BY <3>4, <4>1
    <3>8. f[x] \in Int /\ PartSum(f, r) \in Int /\ PartSum(f, Q) \in Int
      <4>1. f[x] \in Int
        BY <3>4 DEF IntegerOn
      <4>2. QED BY <3>5, <4>1, PartSplits
    <3> HIDE DEF r
    <3>9. PartSum(f, s \cup Q) = PartSum(f, s) + PartSum(f, Q)
      BY <3>3, <3>6, <3>7, <3>8
    <3>10. QED BY <3>9
  <2>3. QED BY <2>1, <2>2
<1>3. P \in A
  <2> HIDE DEF A
  <2>1. QED BY <1>1, <1>2, SubsetBySubset
<1>4. QED BY <1>3

\* The elements whose key lies in s, sums that agree on each key, and where
\* the keys lie.
Keyed(key, D, s) == {x \in D : key[x] \in s}

SameByKey(f, D, p, g, E, q, K) ==
  \A k \in K : PartSum(f, Keyed(p, D, {k})) = PartSum(g, Keyed(q, E, {k}))

KeysOf(key, D, K) == \A x \in D : key[x] \in K

\* Sums that agree key by key agree.
LEMMA SumByKey ==
  ASSUME NEW D, IsFiniteSet(D), NEW E, IsFiniteSet(E), NEW K, IsFiniteSet(K),
         NEW f, IntegerOn(f, D), NEW g, IntegerOn(g, E),
         NEW p, KeysOf(p, D, K), NEW q, KeysOf(q, E, K),
         SameByKey(f, D, p, g, E, q, K)
  PROVE  SumFunction(f) = SumFunction(g)
<1> DEFINE A == {s \in SUBSET K : PartSum(f, Keyed(p, D, s)) = PartSum(g, Keyed(q, E, s))}
<1>1. Grows(A, K)
  <2> SUFFICES ASSUME NEW s \in SUBSET K, \A r \in SUBSET s : r # s => r \in A
               PROVE  s \in A
    BY DEF Grows
  <2>1. CASE s = {}
    <3>1. Keyed(p, D, s) = {} /\ Keyed(q, E, s) = {}
      BY <2>1 DEF Keyed
    <3>2. PartSum(f, {}) = 0 /\ PartSum(g, {}) = 0
      BY PartSplits
    <3>3. QED BY <3>1, <3>2
  <2>2. CASE s # {}
    <3>1. PICK k \in s : TRUE
      BY <2>2
    <3> DEFINE r == s \ {k}
               P == Keyed(p, D, r)
               P1 == Keyed(p, D, {k})
               Q == Keyed(q, E, r)
               Q1 == Keyed(q, E, {k})
    <3>2. r \in SUBSET s /\ r # s /\ k \in K
      BY <3>1
    <3>3. PartSum(f, P) = PartSum(g, Q)
      BY <3>2
    <3>4. PartSum(f, P1) = PartSum(g, Q1)
      BY <3>2 DEF SameByKey
    <3>5. /\ P \in SUBSET D /\ P1 \in SUBSET D /\ P1 \cap P = {}
          /\ Q \in SUBSET E /\ Q1 \in SUBSET E /\ Q1 \cap Q = {}
          /\ Keyed(p, D, s) = P1 \cup P /\ Keyed(q, E, s) = Q1 \cup Q
      BY <3>1 DEF Keyed
    <3> HIDE DEF P, P1, Q, Q1
    <3>6. PartSum(f, P1 \cup P) = PartSum(f, P1) + PartSum(f, P)
      BY <3>5, PartUnion
    <3>7. PartSum(g, Q1 \cup Q) = PartSum(g, Q1) + PartSum(g, Q)
      BY <3>5, PartUnion
    <3>8. QED BY <3>3, <3>4, <3>5, <3>6, <3>7
  <2>3. QED BY <2>1, <2>2
<1>2. K \in A
  <2> HIDE DEF A
  <2>1. QED BY <1>1, SubsetBySubset
<1>3. Keyed(p, D, K) = D /\ Keyed(q, E, K) = E
  BY DEF Keyed, KeysOf
<1>4. PartSum(f, D) = PartSum(g, E)
  BY <1>2, <1>3
<1>5. PartSum(f, D) = SumFunction(f) /\ PartSum(g, E) = SumFunction(g)
  <2>1. [x \in D |-> f[x]] = f /\ [x \in E |-> g[x]] = g
    BY DEF IntegerOn
  <2>2. QED BY <2>1 DEF PartSum
<1>6. QED BY <1>4, <1>5

\* What an entry carries on the investment account.
LEMMA InvestLine ==
  ASSUME NEW row, row.type \in TxTypes, row.amount \in Int, NEW cost
  PROVE  PostingLines(row, cost)["invest"]
           = IF row.type = "buy" THEN row.amount
             ELSE IF row.type = "sell" THEN -cost ELSE 0
<1>1. CASE row.type = "sell"
  <2>1. PostingLines(row, cost) = SellLines(row, cost)
    BY <1>1 DEF PostingLines
  <2>2. SellLines(row, cost)["invest"] = -cost
    BY DEF SellLines, NoLines, GlPurposes
  <2>3. QED BY <1>1, <2>1, <2>2
<1>2. CASE row.type = "buy"
  <2>1. PostingLines(row, cost) = CashLines(-row.amount, "invest")
    BY <1>2 DEF PostingLines
  <2>2. CashLines(-row.amount, "invest")["invest"] = -(-row.amount)
    BY DEF CashLines, NoLines, GlPurposes
  <2>3. QED BY <1>2, <2>1, <2>2
<1>3. CASE row.type \in {"deposit", "withdraw", "dividend", "fee"}
  <2>1. \A a : CashLines(a, "equity")["invest"] = 0
    BY DEF CashLines, NoLines, GlPurposes
  <2>2. \A a : CashLines(a, "dividend")["invest"] = 0
    BY DEF CashLines, NoLines, GlPurposes
  <2>3. \A a : CashLines(a, "fee")["invest"] = 0
    BY DEF CashLines, NoLines, GlPurposes
  <2>4. CASE row.type \in {"deposit", "withdraw"}
    BY <2>1, <2>4 DEF PostingLines
  <2>5. CASE row.type = "dividend"
    BY <2>2, <2>5 DEF PostingLines
  <2>6. CASE row.type = "fee"
    BY <2>3, <2>6 DEF PostingLines
  <2>7. QED BY <1>3, <2>4, <2>5, <2>6
<1>4. QED BY <1>1, <1>2, <1>3 DEF TxTypes

-----------------------------------------------------------------------------
\* The live transactions of an account, and those that are trades.
LiveOf(a) == {t \in TxIds : Live(t) /\ tx[t].account = a}

TradesOf(a) == {t \in LiveOf(a) : tx[t].type \in {"buy", "sell"}}

\* The invest lines of an account's live entries add up to what its trades moved.
LEMMA BucketOfTrades ==
  ASSUME CostInv, JournalInv, NEW a \in Accounts
  PROVE  /\ IsFiniteSet(TradesOf(a))
         /\ \A t \in TradesOf(a) : InvestedBy(t) \in Int
         /\ SumFunction([e \in {x \in LiveEntries : x.account = a} |-> e.lines["invest"]])
              = SumFunction([t \in TradesOf(a) |-> InvestedBy(t)])
<1> DEFINE A == LiveOf(a)
           D == TradesOf(a)
           X == {x \in LiveEntries : x.account = a}
           p == [t \in A |-> PostedEntry(t, tx, matches)]
           h == [e \in X |-> e.lines["invest"]]
           w == [t \in A |-> PostedEntry(t, tx, matches).lines["invest"]]
           v == [t \in D |-> InvestedBy(t)]
<1>1. ASSUME NEW t \in A
      PROVE  /\ t \in TxIds /\ Live(t) /\ tx[t] \in TxRow
             /\ ValidRow(tx[t], NoAsset) /\ tx[t].account = a
  BY DEF LiveOf, Live, Exists, CostInv, BookInv, TableFits
<1>2. IsFiniteSet(A)
  <2>1. A \subseteq {t \in TxIds : tx[t] # NoTx}
    BY <1>1 DEF Live, Exists
  <2>2. QED BY <2>1, FS_Subset DEF CostInv, BookInv, TableFits
<1>3. ASSUME NEW t \in D
      PROVE  /\ t \in A /\ InvestedBy(t) \in Int
             /\ <<a, tx[t].asset>> \in Scopes
             /\ t \in LiveTrades(tx, <<a, tx[t].asset>>)
  <2> DEFINE s == <<a, tx[t].asset>>
  <2>1. t \in A /\ tx[t].type \in {"buy", "sell"}
    BY DEF TradesOf
  <2>2. tx[t].asset \in Assets
    BY <1>1, <2>1 DEF TxRow, ValidRow
  <2>3. s \in Scopes
    BY <2>2 DEF Scopes
  <2>4. t \in LiveTrades(tx, s)
    BY <1>1, <2>1, <2>3 DEF LiveTrades, ScopedIds, ScopesOf, Live, Exists
  <2>5. BookInv /\ ScopeCosts(s)
    BY <2>3 DEF CostInv, ScopeCosts
  <2> HIDE DEF s
  <2>6. InvestedBy(t) \in Int
    BY <2>3, <2>4, <2>5, InvestedTypes
  <2>7. QED BY <2>1, <2>3, <2>4, <2>6 DEF s
<1>4. ASSUME NEW t \in A
      PROVE  /\ p[t] \in X /\ p[t].ref = t
             /\ w[t] = p[t].lines["invest"]
             /\ w[t] = (IF t \in D THEN InvestedBy(t) ELSE 0) /\ w[t] \in Int
  <2>1. /\ p[t].ref = t /\ p[t].account = a
        /\ p[t].lines = PostingLines(tx[t], HistoricalCost(t, matches))
    BY <1>1 DEF PostedEntry
  <2>2. p[t] \in gl
    BY <1>1 DEF JournalInv, LiveEntriesCurrent, EntriesOf
  <2>3. p[t] \in X
    BY <1>1, <2>1, <2>2 DEF LiveEntries
  <2>4. tx[t].type \in TxTypes /\ tx[t].amount \in Int
    BY <1>1 DEF TxRow
  <2>5. PostingLines(tx[t], HistoricalCost(t, matches))["invest"]
          = IF tx[t].type = "buy" THEN tx[t].amount
            ELSE IF tx[t].type = "sell" THEN -HistoricalCost(t, matches) ELSE 0
    BY <2>4, InvestLine
  <2>6. w[t] = p[t].lines["invest"]
    OBVIOUS
  <2> HIDE DEF p, w
  <2>7. w[t] = IF t \in D THEN InvestedBy(t) ELSE 0
    BY <2>1, <2>5, <2>6 DEF TradesOf, InvestedBy
  <2> HIDE DEF D, X
  <2>8. CASE t \in D
    <3>1. InvestedBy(t) \in Int
      BY <1>3, <2>8
    <3>2. QED BY <2>1, <2>3, <2>6, <2>7, <2>8, <3>1
  <2>9. CASE t \notin D
    BY <2>1, <2>3, <2>6, <2>7, <2>9
  <2>10. QED BY <2>8, <2>9
<1>5. ASSUME NEW e \in X PROVE \E t \in A : p[t] = e
  <2>1. e \in gl /\ Live(e.ref) /\ e.account = a /\ e.ref \in TxIds
    BY DEF LiveEntries, JournalInv, TypeOK
  <2>2. e = PostedEntry(e.ref, tx, matches)
    BY <2>1 DEF JournalInv, LiveEntriesCurrent, EntriesOf
  <2>3. tx[e.ref].account = a
    BY <2>1, <2>2 DEF PostedEntry
  <2>4. e.ref \in A
    BY <2>1, <2>3 DEF LiveOf
  <2>5. p[e.ref] = e
    BY <2>2, <2>4
  <2>6. QED BY <2>4, <2>5
<1> HIDE DEF p, X, A, D
<1>6. OneToOne(p, A, X)
  <2>1. p \in [A -> X]
    BY <1>4 DEF p
  <2>2. \A t, u \in A : p[t] = p[u] => t = u
    BY <1>4
  <2>3. QED BY <1>5, <2>1, <2>2 DEF OneToOne, Bijection, Injection, Surjection, IsInjective
<1>7. IntegerOn(w, A)
  <2>1. w = [t \in A |-> w[t]]
    OBVIOUS
  <2> HIDE DEF w
  <2>2. \A t \in A : w[t] \in Int
    BY <1>4
  <2>3. QED BY <2>1, <2>2 DEF IntegerOn
<1>8. IntegerOn(h, X)
  <2>1. \A e \in X : e.lines["invest"] \in Int
    <3>1. ASSUME NEW e \in X PROVE e.lines["invest"] \in Int
      <4>1. PICK t \in A : p[t] = e
        BY <1>5
      <4> HIDE DEF w
      <4>2. w[t] \in Int
        BY <1>4
      <4>3. QED BY <1>4, <4>1, <4>2
    <3>2. QED BY <3>1
  <2>2. QED BY <2>1 DEF IntegerOn
<1>9. Renamed(w, h, p, A)
  BY <1>4 DEF Renamed
<1>10. IntegerOn(v, D) /\ SameOn(v, w, D) /\ ZeroOff(w, D, A)
  <2>1. D \subseteq A
    BY <1>3
  <2>2. \A t \in A : w[t] = IF t \in D THEN InvestedBy(t) ELSE 0
    BY <1>4
  <2> HIDE DEF w
  <2>3. QED BY <1>3, <2>1, <2>2 DEF IntegerOn, SameOn, ZeroOff
<1>11. h = [e \in X |-> e.lines["invest"]]
  OBVIOUS
<1> HIDE DEF h, w, v
<1>12. SumFunction(h) = SumFunction(w)
  BY <1>2, <1>6, <1>7, <1>8, <1>9, SumRenamedTo
<1>13. SumFunction(w) = SumFunction(v)
  BY <1>2, <1>7, <1>10, SumOfPart
<1>14. IsFiniteSet(D)
  BY <1>2, <1>3, FS_Subset
<1>15. QED BY <1>3, <1>12, <1>13, <1>14 DEF h, v, X, D

\* The values of a function on a finite set are finitely many.
LEMMA FewValues ==
  ASSUME NEW D, IsFiniteSet(D), NEW p, DOMAIN p = D, p = [x \in D |-> p[x]]
  PROVE  IsFiniteSet({p[x] : x \in D})
<1> DEFINE V == {p[x] : x \in D}
<1>1. p \in [D -> V] /\ \A y \in V : \E x \in D : p[x] = y
  OBVIOUS
<1> HIDE DEF V
<1>2. p \in Surjection(D, V)
  BY <1>1 DEF Surjection
<1>3. IsFiniteSet(V)
  BY <1>2, FS_Surjection
<1>4. QED BY <1>3 DEF V

\* The trades of an account and its lots, asset by asset.
LEMMA CostByAsset ==
  ASSUME CostInv, NEW a \in Accounts, IsFiniteSet(TradesOf(a)),
         \A t \in TradesOf(a) : InvestedBy(t) \in Int
  PROVE  SumFunction([t \in TradesOf(a) |-> InvestedBy(t)])
           = CostIn({l \in lots : l.scope[1] = a})
<1> DEFINE D == TradesOf(a)
           E == {l \in lots : l.scope[1] = a}
           f == [t \in D |-> InvestedBy(t)]
           g == [l \in E |-> l.rem * l.unit]
           p == [t \in D |-> tx[t].asset]
           q == [l \in E |-> l.scope[2]]
           K == {p[t] : t \in D} \cup {q[l] : l \in E}
<1>1. IsFiniteSet(E) /\ \A l \in E : /\ l \in lots /\ l \in LotRows
                                     /\ l.scope \in Scopes /\ l.scope[1] = a
  <2>1. E \subseteq lots
    OBVIOUS
  <2>2. QED BY <2>1, FS_Subset DEF CostInv, BookInv, LotsFit, LotRows
<1>2. IntegerOn(f, D)
  BY DEF IntegerOn
<1>3. \A l \in E : l.rem \in Nat /\ l.unit \in Nat
  BY <1>1, LotRowTypes
<1>4. \A l \in E : l.rem * l.unit \in Nat
  BY <1>3
<1>5. IntegerOn(g, E)
  BY <1>4 DEF IntegerOn
<1>6. IsFiniteSet(K) /\ KeysOf(p, D, K) /\ KeysOf(q, E, K)
  <2>0. IsFiniteSet(D) /\ DOMAIN p = D /\ p = [t \in D |-> p[t]]
        /\ DOMAIN q = E /\ q = [l \in E |-> q[l]]
    OBVIOUS
  <2> HIDE DEF D, E, p, q
  <2>1. IsFiniteSet({p[t] : t \in D}) /\ IsFiniteSet({q[l] : l \in E})
    BY <1>1, <2>0, FewValues
  <2>2. IsFiniteSet(K)
    BY <2>1, FS_Union
  <2>3. QED BY <2>2 DEF KeysOf
<1>7. \A t \in D : /\ t \in TxIds /\ Live(t) /\ tx[t].type \in {"buy", "sell"}
                   /\ tx[t].account = a /\ tx[t].asset \in Assets
  BY DEF TradesOf, LiveOf, Live, Exists, CostInv, BookInv, TableFits, TxRow, ValidRow
<1>8. ASSUME NEW k \in K PROVE k \in Assets
  <2>1. \A l \in E : l.scope[2] \in Assets
    BY <1>1 DEF Scopes
  <2>2. QED BY <1>7, <2>1
<1>9. ASSUME NEW k \in K
      PROVE  PartSum(f, Keyed(p, D, {k})) = PartSum(g, Keyed(q, E, {k}))
  <2> DEFINE s == <<a, k>>
             P == Keyed(p, D, {k})
             Q == Keyed(q, E, {k})
  <2>1. s \in Scopes /\ s[1] = a /\ s[2] = k
    BY <1>8 DEF Scopes
  <2>2. P = LiveTrades(tx, s)
    <3>1. \A t \in P : t \in LiveTrades(tx, s)
      BY <1>7, <2>1 DEF Keyed, LiveTrades, ScopedIds, ScopesOf, Live, Exists
    <3>2. \A t \in LiveTrades(tx, s) : t \in P
      BY <2>1 DEF Keyed, LiveTrades, ScopedIds, ScopesOf, Live, Exists, TradesOf, LiveOf
    <3>3. QED BY <3>1, <3>2
  <2>3. Q = {l \in lots : l.scope = s}
    <3>1. \A l \in Q : l \in lots /\ l.scope = s
      BY <1>1 DEF Keyed, Scopes
    <3>2. \A l \in lots : l.scope = s => l \in Q
      BY <2>1 DEF Keyed
    <3>3. QED BY <3>1, <3>2
  <2>4. P \subseteq D /\ Q \subseteq E
    BY DEF Keyed
  <2> HIDE DEF s, P, Q, D, E
  <2>5. PartSum(f, P) = InvestedIn(s)
    <3>1. [t \in P |-> f[t]] = [t \in P |-> InvestedBy(t)]
      BY <2>4
    <3>2. QED BY <2>2, <3>1 DEF PartSum, InvestedIn
  <2>6. PartSum(g, Q) = CostIn(OpenLots(s))
    <3> DEFINE O == OpenLots(s)
               x == [l \in Q |-> l.rem * l.unit]
               y == [l \in O |-> l.rem * l.unit]
    <3>1. O \subseteq Q
      BY <2>3 DEF OpenLots
    <3>2. \A l \in Q \ O : l.rem = 0 /\ l.unit \in Nat
      BY <1>3, <2>3, <2>4 DEF OpenLots
    <3>3. \A l \in Q \ O : l.rem * l.unit = 0
      BY <3>2
    <3>4. IsFiniteSet(Q)
      BY <1>1, <2>4, FS_Subset
    <3>5. \A l \in Q : l.rem * l.unit \in Int
      BY <1>4, <2>4
    <3> HIDE DEF O
    <3>6. /\ IntegerOn(x, Q) /\ IntegerOn(y, O) /\ SameOn(y, x, O) /\ ZeroOff(x, O, Q)
      BY <3>1, <3>3, <3>5 DEF IntegerOn, SameOn, ZeroOff
    <3>7. [l \in Q |-> g[l]] = x
      BY <2>4
    <3> HIDE DEF x, y
    <3>8. SumFunction(x) = SumFunction(y)
      BY <3>4, <3>6, SumOfPart
    <3>9. QED BY <3>7, <3>8 DEF PartSum, CostIn, x, y, O
  <2>7. InvestedIn(s) = CostIn(OpenLots(s))
    BY <2>1 DEF CostInv
  <2>8. QED BY <2>5, <2>6, <2>7 DEF P, Q
<1>10. SameByKey(f, D, p, g, E, q, K)
  <2> HIDE DEF D, E, f, g, p, q, K
  <2>1. QED BY <1>9 DEF SameByKey
<1> HIDE DEF E, f, g, p, q, K
<1>11. SumFunction(f) = SumFunction(g)
  <2>1. IsFiniteSet(D)
    OBVIOUS
  <2> HIDE DEF D
  <2>2. QED BY <1>1, <1>2, <1>5, <1>6, <1>10, <2>1, SumByKey
<1>12. QED BY <1>11 DEF CostIn, E, f, g

(***************************************************************************)
(* The investment account of the journal and the lots agree: the invest    *)
(* lines of the live entries of an account (buys at what they paid, sells  *)
(* at the cost basis that computeHistoricalCost reads from the matches)    *)
(* add up to the cost of the account's lots.                               *)
(***************************************************************************)
THEOREM BucketMatchesLots == Spec => []InvestmentBucketMatchesOpenLots
<1>1. ASSUME CostInv, JournalInv PROVE InvestmentBucketMatchesOpenLots
  <2> SUFFICES ASSUME NEW a \in Accounts
               PROVE  SumFunction([e \in {x \in LiveEntries : x.account = a}
                                     |-> e.lines["invest"]])
                        = CostIn({l \in lots : l.scope[1] = a})
    BY DEF InvestmentBucketMatchesOpenLots
  <2>1. QED BY <1>1, BucketOfTrades, CostByAsset
<1>2. QED BY <1>1, CostInvariant, JournalInvariant, PTL

-----------------------------------------------------------------------------
(***************************************************************************)
(* What was bought and sold up to a point of the order by time and         *)
(* identifier.  A book is first in, first out when what is left of the shares*)
(* bought before every instant, and what each sell took of them, is what the*)
(* intervals of shares tell: sums up to an instant say nothing of the order of*)
(* the lots opened at one instant.  First such sums, and what a buy or a sell*)
(* after all others does to them.                                          *)
(***************************************************************************)
\* The trades of T before a point of the order by time and identifier.
Cut(w, T, time, id) ==
  {t \in T : w[t].time < time \/ (w[t].time = time /\ t < id)}

\* The trades of T before the trade e.
Before(w, T, e) == Cut(w, T, w[e].time, e)

\* The shares of the trades of T.
Shares(w, T) == SumFunction([t \in T |-> w[t].qty])

Monus(a, b) == IF a > b THEN a - b ELSE 0

Least(a, b) == IF a < b THEN a ELSE b

\* Trades of which an order by time and identifier can be made.
TradesFit(w, T) ==
  /\ IsFiniteSet(T) /\ T \subseteq Nat
  /\ \A t \in T : w[t].qty \in Nat /\ w[t].time \in Nat

\* At no point have more shares been sold than bought.
Covers(w, B, S) ==
  \A time, id \in Nat :
    Shares(w, Cut(w, S, time, id)) <= Shares(w, Cut(w, B, time, id))

\* What is left of the shares bought before an instant is what the sells do
\* not reach.
LeftFits(w, B, S, left) ==
  /\ left \in [B -> Nat]
  /\ \A time \in Nat :
       PartSum(left, Cut(w, B, time, 0))
         = Monus(Shares(w, Cut(w, B, time, 0)), Shares(w, S))

\* What the sell e took of the shares bought before an instant is what its
\* interval has in common with them.
TakenFits(w, B, S, e, taken) ==
  /\ taken \in [B -> Nat]
  /\ \A time \in Nat :
       PartSum(taken, Cut(w, B, time, 0))
         = Least(Shares(w, Cut(w, B, time, 0)), Shares(w, Before(w, S, e)) + w[e].qty)
             - Least(Shares(w, Cut(w, B, time, 0)), Shares(w, Before(w, S, e)))

FifoShares(w, B, S, left, taken) ==
  /\ Covers(w, B, S)
  /\ LeftFits(w, B, S, left)
  /\ \A e \in S : TakenFits(w, B, S, e, taken[e])

\* Q has one element more than P.
With(Q, P, x) == x \notin P /\ Q = P \cup {x}

\* On P the functions have the same integers.
Alike(g, f, P) == \A y \in P : f[y] \in Int /\ g[y] = f[y]

\* One summand more.
LEMMA OneMoreSummand ==
  ASSUME NEW P, IsFiniteSet(P), NEW x, NEW Q, With(Q, P, x), NEW f, NEW g,
         Alike(g, f, P), g[x] \in Int
  PROVE  PartSum(g, Q) = g[x] + PartSum(f, P)
<1> DEFINE F == [y \in P |-> f[y]]
           G == [y \in Q |-> g[y]]
<1>1. IsFiniteSet(Q)
  BY FS_AddElement DEF With
<1>2. /\ RestOf(P, Q, x) /\ IntegerOn(G, Q) /\ IntegerOn(F, P)
      /\ SameOn(F, G, P) /\ G[x] = g[x]
  BY DEF RestOf, IntegerOn, SameOn, With, Alike
<1>3. PartSum(g, Q) = SumFunction(G) /\ PartSum(f, P) = SumFunction(F)
  BY DEF PartSum
<1> HIDE DEF F, G
<1> QED BY <1>1, <1>2, <1>3, SumOfRest

\* Sums of the same values.
LEMMA SamePartSum ==
  ASSUME NEW P, NEW f, NEW g, \A y \in P : g[y] = f[y]
  PROVE  PartSum(g, P) = PartSum(f, P)
<1>1. [y \in P |-> g[y]] = [y \in P |-> f[y]]
  OBVIOUS
<1> QED BY <1>1 DEF PartSum

\* Shares are a sum over a part of the trades.
QtyOf(w, T) == [t \in T |-> w[t].qty]

\* The shares of some trades are the sum of their quantities.
LEMMA SharesAsSum ==
  ASSUME NEW w, NEW T, NEW P \in SUBSET T
  PROVE  Shares(w, P) = PartSum(QtyOf(w, T), P)
<1>1. [t \in P |-> w[t].qty] = [t \in P |-> QtyOf(w, T)[t]]
  BY DEF QtyOf
<1> QED BY <1>1 DEF Shares, PartSum

\* The shares of some trades and of their parts are natural numbers that grow
\* with the set.
LEMMA SharesGrow ==
  ASSUME NEW w, NEW T, TradesFit(w, T), NEW P \in SUBSET T, NEW Q \in SUBSET P
  PROVE  /\ IsFiniteSet(P) /\ IsFiniteSet(Q)
         /\ Shares(w, P) \in Nat /\ Shares(w, Q) \in Nat
         /\ Shares(w, Q) <= Shares(w, P)
<1>1. IsFiniteSet(P) /\ IsFiniteSet(Q) /\ IsFiniteSet(P \ Q)
  BY FS_Subset DEF TradesFit
<1>2. \A R \in SUBSET P : IsFiniteSet(R) => Shares(w, R) \in Nat
  <2> SUFFICES ASSUME NEW R \in SUBSET P, IsFiniteSet(R)
               PROVE  Shares(w, R) \in Nat
    OBVIOUS
  <2>1. [t \in R |-> w[t].qty] \in [R -> Nat]
    BY DEF TradesFit
  <2> DEFINE f == [t \in R |-> w[t].qty]
  <2>2. f \in [R -> Nat]
    BY <2>1
  <2>3. Shares(w, R) = SumFunction(f)
    BY DEF Shares
  <2> HIDE DEF f
  <2> QED BY <2>2, <2>3, SumNat
<1>3. IntegerOn(QtyOf(w, P), P)
  BY DEF IntegerOn, QtyOf, TradesFit
<1>4. Shares(w, P) = Shares(w, Q) + Shares(w, P \ Q)
  <2>1. Q \cup (P \ Q) = P /\ Q \cap (P \ Q) = {} /\ P \ Q \in SUBSET P
    OBVIOUS
  <2>2. PartSum(QtyOf(w, P), P)
          = PartSum(QtyOf(w, P), Q) + PartSum(QtyOf(w, P), P \ Q)
    BY <1>1, <1>3, <2>1, PartUnion
  <2> QED BY <2>1, <2>2, SharesAsSum
<1>5. Shares(w, P) \in Nat /\ Shares(w, Q) \in Nat /\ Shares(w, P \ Q) \in Nat
  BY <1>1, <1>2
<1> QED BY <1>1, <1>4, <1>5

\* One trade more.
LEMMA OneMoreShare ==
  ASSUME NEW w, NEW T, TradesFit(w, T), NEW P \in SUBSET T, NEW x \in T,
         NEW Q, With(Q, P, x)
  PROVE  Shares(w, Q) = w[x].qty + Shares(w, P)
<1>1. IsFiniteSet(P)
  BY FS_Subset DEF TradesFit
<1>2. /\ Alike(QtyOf(w, T), QtyOf(w, T), P)
      /\ QtyOf(w, T)[x] \in Int /\ QtyOf(w, T)[x] = w[x].qty
  BY DEF TradesFit, QtyOf, Alike
<1>3. PartSum(QtyOf(w, T), Q) = QtyOf(w, T)[x] + PartSum(QtyOf(w, T), P)
  BY <1>1, <1>2, OneMoreSummand
<1>4. Q \in SUBSET T
  BY DEF With
<1> QED BY <1>2, <1>3, <1>4, SharesAsSum

\* A cut of one more trade.
LEMMA CutOfOneMore ==
  ASSUME NEW w, NEW T, NEW x, NEW time, NEW id
  PROVE  /\ w[x].time < time \/ (w[x].time = time /\ x < id) =>
              Cut(w, T \cup {x}, time, id) = Cut(w, T, time, id) \cup {x}
         /\ ~(w[x].time < time \/ (w[x].time = time /\ x < id)) =>
              Cut(w, T \cup {x}, time, id) = Cut(w, T, time, id)
         /\ Cut(w, T, time, id) \subseteq Cut(w, T \cup {x}, time, id)
         /\ Cut(w, T, time, id) \subseteq T
  BY DEF Cut

\* A cut right after a trade has the trade and what precedes it.
LEMMA CutAfter ==
  ASSUME NEW w, NEW T, TradesFit(w, T), NEW e \in T
  PROVE  /\ With(Cut(w, T, w[e].time, e + 1), Before(w, T, e), e)
         /\ Before(w, T, e) \subseteq T
         /\ Shares(w, Cut(w, T, w[e].time, e + 1)) = w[e].qty + Shares(w, Before(w, T, e))
<1>1. e \in Nat /\ w[e].time \in Nat /\ \A t \in T : t \in Nat /\ w[t].time \in Nat
  BY DEF TradesFit
<1>2. Cut(w, T, w[e].time, e + 1) = Before(w, T, e) \cup {e}
  <2>1. \A t \in T : t < e + 1 <=> (t < e \/ t = e)
    BY <1>1
  <2> QED BY <1>1, <2>1 DEF Cut, Before
<1>3. e \notin Before(w, T, e) /\ Before(w, T, e) \subseteq T
  BY <1>1 DEF Cut, Before
<1>4. With(Cut(w, T, w[e].time, e + 1), Before(w, T, e), e)
  BY <1>2, <1>3 DEF With
<1> QED BY <1>3, <1>4, OneMoreShare

\* At its interval's end a sell has not sold more than was bought before it.
LEMMA SellIsCovered ==
  ASSUME NEW w, NEW B, NEW S, TradesFit(w, B \cup S), Covers(w, B, S),
         NEW e \in S, NEW time \in Nat, w[e].time < time
  PROVE  Shares(w, Before(w, S, e)) + w[e].qty <= Shares(w, Cut(w, B, time, 0))
<1>1. TradesFit(w, S) /\ TradesFit(w, B)
  <2>1. IsFiniteSet(S) /\ IsFiniteSet(B)
    BY FS_Subset DEF TradesFit
  <2> QED BY <2>1 DEF TradesFit
<1>2. e \in Nat /\ e + 1 \in Nat /\ w[e].time \in Nat /\ w[e].qty \in Nat
  BY <1>1 DEF TradesFit
<1>3. Shares(w, Cut(w, S, w[e].time, e + 1))
        <= Shares(w, Cut(w, B, w[e].time, e + 1))
  BY <1>2 DEF Covers
<1>4. Cut(w, B, w[e].time, e + 1) \subseteq Cut(w, B, time, 0)
  <2>1. \A t \in B : t \in Nat /\ w[t].time \in Nat
    BY <1>1 DEF TradesFit
  <2> QED BY <1>2, <2>1 DEF Cut
<1>5. Cut(w, B, time, 0) \subseteq B
  BY DEF Cut
<1>6. /\ Shares(w, Cut(w, B, w[e].time, e + 1)) <= Shares(w, Cut(w, B, time, 0))
      /\ Shares(w, Cut(w, B, w[e].time, e + 1)) \in Nat
      /\ Shares(w, Cut(w, B, time, 0)) \in Nat
  BY <1>1, <1>4, <1>5, SharesGrow
<1>7. /\ Before(w, S, e) \subseteq S
      /\ Shares(w, Cut(w, S, w[e].time, e + 1)) = w[e].qty + Shares(w, Before(w, S, e))
  BY <1>1, CutAfter
<1>8. Shares(w, Before(w, S, e)) \in Nat
  BY <1>1, <1>7, SharesGrow
<1> QED BY <1>2, <1>3, <1>6, <1>7, <1>8

\* The trades of T all precede x.
AllBefore(w, T, x) == \A t \in T : t \in Before(w, T, x)

\* The buy b is added to those of B, with all its shares.
BuyHeld(w, B, b, C, left, held) ==
  /\ held \in [C -> Nat]
  /\ held[b] = w[b].qty
  /\ \A y \in B : held[y] = left[y]

\* Nothing of the buy b has been taken.
BuyKept(B, b, C, S, taken, took) ==
  \A e \in S : /\ took[e] \in [C -> Nat]
               /\ took[e][b] = 0
               /\ \A y \in B : took[e][y] = taken[e][y]


\* A purchase that no sell follows.
LEMMA BuyKeepsShares ==
  ASSUME NEW w, NEW B, NEW S, NEW b, NEW C, With(C, B, b), b \notin S,
         TradesFit(w, C \cup S), AllBefore(w, S, b),
         NEW left, NEW taken, FifoShares(w, B, S, left, taken),
         NEW held, BuyHeld(w, B, b, C, left, held),
         NEW took, BuyKept(B, b, C, S, taken, took)
  PROVE  FifoShares(w, C, S, held, took)
<1> USE DEF AllBefore, BuyHeld, BuyKept
<1>1. /\ TradesFit(w, S) /\ TradesFit(w, B) /\ TradesFit(w, C) /\ TradesFit(w, B \cup S)
      /\ b \in Nat /\ w[b].qty \in Nat /\ w[b].time \in Nat
  <2>1. IsFiniteSet(S) /\ IsFiniteSet(B) /\ IsFiniteSet(C) /\ IsFiniteSet(B \cup S)
    BY FS_Subset DEF TradesFit, With
  <2> QED BY <2>1 DEF TradesFit, With
<1>2. \A time, id : /\ Cut(w, B, time, id) \subseteq Cut(w, C, time, id)
                    /\ Cut(w, B, time, id) \subseteq B
                    /\ Cut(w, C, time, id) \subseteq C
                    /\ Cut(w, S, time, id) \subseteq S
  BY DEF Cut, With
<1>3. \A time \in Nat :
        /\ w[b].time < time => With(Cut(w, C, time, 0), Cut(w, B, time, 0), b)
        /\ ~(w[b].time < time) => Cut(w, C, time, 0) = Cut(w, B, time, 0)
  <2>1. TAKE time \in Nat
  <2>2. ~(b < 0) /\ b \notin Cut(w, B, time, 0) /\ C = B \cup {b}
    BY <1>1, <1>2 DEF With
  <2>3. /\ w[b].time < time =>
              Cut(w, B \cup {b}, time, 0) = Cut(w, B, time, 0) \cup {b}
        /\ ~(w[b].time < time) => Cut(w, B \cup {b}, time, 0) = Cut(w, B, time, 0)
    BY <2>2 DEF Cut
  <2> QED BY <2>2, <2>3 DEF With
<1>4. \A time \in Nat :
        /\ IsFiniteSet(Cut(w, B, time, 0))
        /\ Shares(w, Cut(w, B, time, 0)) \in Nat
        /\ w[b].time < time =>
             Shares(w, Cut(w, C, time, 0)) = w[b].qty + Shares(w, Cut(w, B, time, 0))
  <2>1. TAKE time \in Nat
  <2>2. IsFiniteSet(Cut(w, B, time, 0)) /\ Shares(w, Cut(w, B, time, 0)) \in Nat
    BY <1>1, <1>2, SharesGrow
  <2>3. ASSUME w[b].time < time
        PROVE  Shares(w, Cut(w, C, time, 0)) = w[b].qty + Shares(w, Cut(w, B, time, 0))
    <3>1. With(Cut(w, C, time, 0), Cut(w, B, time, 0), b)
      BY <1>3, <2>3
    <3>2. Cut(w, B, time, 0) \in SUBSET C /\ b \in C
      BY <1>2 DEF With
    <3> QED BY <3>1, <3>2, <1>1, OneMoreShare
  <2> QED BY <2>2, <2>3
<1>5. Covers(w, C, S)
  <2> SUFFICES ASSUME NEW time \in Nat, NEW id \in Nat
               PROVE  Shares(w, Cut(w, S, time, id)) <= Shares(w, Cut(w, C, time, id))
    BY DEF Covers
  <2>1. Shares(w, Cut(w, S, time, id)) <= Shares(w, Cut(w, B, time, id))
    BY DEF FifoShares, Covers
  <2>2. /\ Shares(w, Cut(w, B, time, id)) <= Shares(w, Cut(w, C, time, id))
        /\ Shares(w, Cut(w, B, time, id)) \in Nat /\ Shares(w, Cut(w, C, time, id)) \in Nat
    BY <1>1, <1>2, SharesGrow
  <2>3. Shares(w, Cut(w, S, time, id)) \in Nat
    BY <1>1, <1>2, SharesGrow
  <2> QED BY <2>1, <2>2, <2>3
<1>6. LeftFits(w, C, S, held)
  <2> SUFFICES ASSUME NEW time \in Nat
               PROVE  PartSum(held, Cut(w, C, time, 0))
                        = Monus(Shares(w, Cut(w, C, time, 0)), Shares(w, S))
    BY DEF LeftFits
  <2>1. PartSum(left, Cut(w, B, time, 0))
          = Monus(Shares(w, Cut(w, B, time, 0)), Shares(w, S))
    BY DEF FifoShares, LeftFits
  <2>2. CASE w[b].time < time
    <3>1. Cut(w, S, time, 0) = S
      <4>1. \A e \in S : w[e].time < time
        <5>1. \A e \in S : w[e].time \in Nat
          BY <1>1 DEF TradesFit
        <5> QED BY <5>1, <2>2, <1>1 DEF Before, Cut
      <4> QED BY <4>1 DEF Cut
    <3>2. Shares(w, S) <= Shares(w, Cut(w, B, time, 0))
      BY <3>1 DEF FifoShares, Covers
    <3>3. Shares(w, S) \in Nat
      BY <1>1, SharesGrow
    <3>4. PartSum(held, Cut(w, C, time, 0))
            = held[b] + PartSum(left, Cut(w, B, time, 0))
      <4>1. Alike(held, left, Cut(w, B, time, 0)) /\ held[b] \in Int
        BY <1>1, <1>2 DEF Alike, FifoShares, LeftFits
      <4>2. IsFiniteSet(Cut(w, B, time, 0)) /\ With(Cut(w, C, time, 0), Cut(w, B, time, 0), b)
        BY <2>2, <1>3, <1>4
      <4> QED BY <4>1, <4>2, OneMoreSummand
    <3>5. /\ Shares(w, Cut(w, C, time, 0)) = w[b].qty + Shares(w, Cut(w, B, time, 0))
          /\ Shares(w, Cut(w, B, time, 0)) \in Nat /\ held[b] = w[b].qty
      BY <2>2, <1>4
    <3>6. PartSum(left, Cut(w, B, time, 0)) = Shares(w, Cut(w, B, time, 0)) - Shares(w, S)
      BY <2>1, <3>2, <3>3, <3>5 DEF Monus
    <3> QED BY <3>2, <3>3, <3>4, <3>5, <3>6, <1>1 DEF Monus
  <2>3. CASE ~(w[b].time < time)
    <3>1. PartSum(held, Cut(w, B, time, 0)) = PartSum(left, Cut(w, B, time, 0))
      BY <1>2, SamePartSum
    <3> QED BY <3>1, <2>1, <2>3, <1>3
  <2> QED BY <2>2, <2>3
<1>7. ASSUME NEW e \in S
      PROVE  TakenFits(w, C, S, e, took[e])
  <2> SUFFICES ASSUME NEW time \in Nat
               PROVE  PartSum(took[e], Cut(w, C, time, 0))
         = Least(Shares(w, Cut(w, C, time, 0)), Shares(w, Before(w, S, e)) + w[e].qty)
             - Least(Shares(w, Cut(w, C, time, 0)), Shares(w, Before(w, S, e)))
    BY DEF TakenFits
  <2>1. /\ taken[e] \in [B -> Nat]
        /\ PartSum(taken[e], Cut(w, B, time, 0))
         = Least(Shares(w, Cut(w, B, time, 0)), Shares(w, Before(w, S, e)) + w[e].qty)
             - Least(Shares(w, Cut(w, B, time, 0)), Shares(w, Before(w, S, e)))
    BY DEF FifoShares, TakenFits
  <2>2. CASE w[b].time < time
    <3>1. w[e].time < time /\ w[e].time \in Nat /\ w[e].qty \in Nat
      <4>1. w[e].time \in Nat /\ w[e].qty \in Nat
        BY <1>1 DEF TradesFit
      <4>2. e \in Before(w, S, b)
        OBVIOUS
      <4> QED BY <4>1, <4>2, <2>2, <1>1 DEF Before, Cut
    <3>2. Shares(w, Before(w, S, e)) + w[e].qty <= Shares(w, Cut(w, B, time, 0))
      BY <3>1, <1>1, SellIsCovered DEF FifoShares
    <3>3. Shares(w, Before(w, S, e)) \in Nat
      <4>1. Before(w, S, e) \subseteq S
        BY DEF Before, Cut
      <4> QED BY <4>1, <1>1, SharesGrow
    <3>4. PartSum(took[e], Cut(w, C, time, 0))
            = took[e][b] + PartSum(taken[e], Cut(w, B, time, 0))
      <4>1. Alike(took[e], taken[e], Cut(w, B, time, 0)) /\ took[e][b] \in Int
        BY <1>2, <2>1 DEF Alike
      <4>2. IsFiniteSet(Cut(w, B, time, 0)) /\ With(Cut(w, C, time, 0), Cut(w, B, time, 0), b)
        BY <2>2, <1>3, <1>4
      <4> QED BY <4>1, <4>2, OneMoreSummand
    <3>5. /\ Shares(w, Cut(w, C, time, 0)) = w[b].qty + Shares(w, Cut(w, B, time, 0))
          /\ Shares(w, Cut(w, B, time, 0)) \in Nat /\ took[e][b] = 0
      BY <2>2, <1>3, <1>4
    <3>6. Least(Shares(w, Cut(w, C, time, 0)), Shares(w, Before(w, S, e)) + w[e].qty)
            = Least(Shares(w, Cut(w, B, time, 0)), Shares(w, Before(w, S, e)) + w[e].qty)
      BY <3>1, <3>2, <3>3, <3>5, <1>1 DEF Least
    <3>7. Least(Shares(w, Cut(w, C, time, 0)), Shares(w, Before(w, S, e)))
            = Least(Shares(w, Cut(w, B, time, 0)), Shares(w, Before(w, S, e)))
      BY <3>1, <3>2, <3>3, <3>5, <1>1 DEF Least
    <3>8. PartSum(taken[e], Cut(w, B, time, 0)) \in Int
      BY <3>1, <3>3, <3>5, <2>1 DEF Least
    <3>9. PartSum(took[e], Cut(w, C, time, 0)) = PartSum(taken[e], Cut(w, B, time, 0))
      BY <3>4, <3>5, <3>8
    <3> QED BY <3>6, <3>7, <3>9, <2>1
  <2>3. CASE ~(w[b].time < time)
    <3>1. PartSum(took[e], Cut(w, B, time, 0)) = PartSum(taken[e], Cut(w, B, time, 0))
      BY <1>2, SamePartSum
    <3> QED BY <3>1, <2>1, <2>3, <1>3
  <2> QED BY <2>2, <2>3
<1> QED BY <1>5, <1>6, <1>7 DEF FifoShares

\* On P, f is g and h together.
Adds(f, g, h, P) ==
  \A y \in P : f[y] \in Int /\ g[y] \in Int /\ h[y] \in Int /\ f[y] = g[y] + h[y]

\* A sum of sums.
LEMMA SumOfSums ==
  ASSUME NEW P, IsFiniteSet(P), NEW f, NEW g, NEW h, Adds(f, g, h, P)
  PROVE  /\ PartSum(f, P) = PartSum(g, P) + PartSum(h, P)
         /\ PartSum(f, P) \in Int /\ PartSum(g, P) \in Int /\ PartSum(h, P) \in Int
<1> DEFINE F == [y \in P |-> f[y]]
           G == [y \in P |-> g[y]]
           H == [y \in P |-> h[y]]
           A == {s \in SUBSET P : PartSum(F, s) = PartSum(G, s) + PartSum(H, s)}
<1>1. IntegerOn(F, P) /\ IntegerOn(G, P) /\ IntegerOn(H, P) /\ Adds(F, G, H, P)
  BY DEF IntegerOn, Adds
<1>2. /\ PartSum(F, P) = PartSum(f, P) /\ PartSum(G, P) = PartSum(g, P)
      /\ PartSum(H, P) = PartSum(h, P)
  <2>1. \A y \in P : F[y] = f[y] /\ G[y] = g[y] /\ H[y] = h[y]
    OBVIOUS
  <2> HIDE DEF F, G, H
  <2> QED BY <2>1, SamePartSum
<1> HIDE DEF F, G, H
<1>3. Grows(A, P)
  <2> SUFFICES ASSUME NEW s \in SUBSET P, \A r \in SUBSET s : r # s => r \in A
               PROVE  s \in A
    BY DEF Grows
  <2>1. CASE s = {}
    <3>1. PartSum(F, {}) = 0 /\ PartSum(G, {}) = 0 /\ PartSum(H, {}) = 0
      BY <1>1, PartSplits
    <3> QED BY <2>1, <3>1
  <2>2. CASE s # {}
    <3>1. PICK x \in s : TRUE
      BY <2>2
    <3> DEFINE r == s \ {x}
    <3>2. r \in SUBSET s /\ r # s /\ r \in SUBSET P
      BY <3>1
    <3>3. PartSum(F, r) = PartSum(G, r) + PartSum(H, r)
      BY <3>2
    <3>4. /\ PartSum(F, s) = F[x] + PartSum(F, r)
          /\ PartSum(G, s) = G[x] + PartSum(G, r)
          /\ PartSum(H, s) = H[x] + PartSum(H, r)
      BY <1>1, <3>1, PartSplits
    <3>5. PartSum(F, r) \in Int /\ PartSum(G, r) \in Int /\ PartSum(H, r) \in Int
      BY <1>1, <3>2, PartSplits
    <3>6. F[x] \in Int /\ G[x] \in Int /\ H[x] \in Int /\ F[x] = G[x] + H[x]
      BY <1>1, <3>1 DEF Adds
    <3> HIDE DEF r
    <3> QED BY <3>3, <3>4, <3>5, <3>6
  <2> QED BY <2>1, <2>2
<1>4. P \in A
  <2> HIDE DEF A
  <2> QED BY <1>3, SubsetBySubset
<1>5. PartSum(F, P) \in Int /\ PartSum(G, P) \in Int /\ PartSum(H, P) \in Int
  BY <1>1, PartSplits
<1> QED BY <1>2, <1>4, <1>5

\* A sell after all the trades, which leaves of the shares bought before an
\* instant what it does not need.
Leaves(w, B, left, held, q) ==
  /\ held \in [B -> Nat]
  /\ \A b \in B : held[b] <= left[b]
  /\ \A time \in Nat :
       PartSum(held, Cut(w, B, time, 0)) = Monus(PartSum(left, Cut(w, B, time, 0)), q)

\* The sell e took what is not left any more.
SellTook(B, S, e, left, held, taken, took) ==
  /\ \A y \in S : took[y] = taken[y]
  /\ took[e] \in [B -> Nat]
  /\ \A b \in B : took[e][b] = left[b] - held[b]


\* A sell after all other trades that takes the oldest shares keeps the shares FIFO.
LEMMA SellKeepsShares ==
  ASSUME NEW w, NEW B, NEW S, NEW e, NEW Z, With(Z, S, e), e \notin B,
         TradesFit(w, B \cup Z), AllBefore(w, B \cup S, e),
         NEW left, NEW taken, FifoShares(w, B, S, left, taken),
         NEW held, Leaves(w, B, left, held, w[e].qty),
         w[e].qty <= PartSum(left, B),
         NEW took, SellTook(B, S, e, left, held, taken, took)
  PROVE  FifoShares(w, B, Z, held, took)
<1> USE DEF AllBefore, SellTook
<1>1. /\ TradesFit(w, S) /\ TradesFit(w, B) /\ TradesFit(w, Z) /\ TradesFit(w, B \cup S)
      /\ e \in Z /\ e \notin S /\ S \in SUBSET Z /\ Z = S \cup {e}
      /\ e \in Nat /\ w[e].qty \in Nat /\ w[e].time \in Nat
  <2>1. e \in Z /\ e \notin S /\ S \in SUBSET Z /\ Z = S \cup {e}
    BY DEF With
  <2>2. IsFiniteSet(S) /\ IsFiniteSet(B) /\ IsFiniteSet(Z) /\ IsFiniteSet(B \cup S)
    BY <2>1, FS_Subset DEF TradesFit
  <2> QED BY <2>1, <2>2 DEF TradesFit
<1>2. \A t \in B \cup S : /\ t \in Nat /\ w[t].time \in Nat
                          /\ w[t].time < w[e].time \/ (w[t].time = w[e].time /\ t < e)
  BY <1>1 DEF Before, Cut, TradesFit
<1>3. ASSUME NEW time \in Nat, NEW id \in Nat,
             w[e].time < time \/ (w[e].time = time /\ e < id)
      PROVE  Cut(w, B, time, id) = B /\ Cut(w, S, time, id) = S
  BY <1>1, <1>2, <1>3 DEF Cut
<1>4. /\ Shares(w, S) \in Nat /\ Shares(w, B) \in Nat
      /\ Shares(w, S) + w[e].qty <= Shares(w, B)
  <2>1. w[e].time + 1 \in Nat /\ w[e].time < w[e].time + 1
    BY <1>1
  <2>2. Cut(w, B, w[e].time + 1, 0) = B /\ Cut(w, S, w[e].time + 1, 0) = S
    BY <2>1, <1>3
  <2>3. PartSum(left, B) = Monus(Shares(w, B), Shares(w, S))
    BY <2>1, <2>2 DEF FifoShares, LeftFits
  <2>4. Shares(w, S) <= Shares(w, B)
    BY <2>1, <2>2 DEF FifoShares, Covers
  <2>5. Shares(w, S) \in Nat /\ Shares(w, B) \in Nat
    BY <1>1, SharesGrow
  <2> QED BY <2>3, <2>4, <2>5, <1>1 DEF Monus
<1>5. Shares(w, Z) = w[e].qty + Shares(w, S)
  BY <1>1, OneMoreShare
<1>6. Covers(w, B, Z)
  <2> SUFFICES ASSUME NEW time \in Nat, NEW id \in Nat
               PROVE  Shares(w, Cut(w, Z, time, id)) <= Shares(w, Cut(w, B, time, id))
    BY DEF Covers
  <2>1. CASE w[e].time < time \/ (w[e].time = time /\ e < id)
    <3>1. Cut(w, B, time, id) = B /\ Cut(w, S, time, id) = S
      BY <2>1, <1>3
    <3>2. Cut(w, Z, time, id) = Z
      BY <2>1, <3>1, <1>1 DEF Cut
    <3> QED BY <3>1, <3>2, <1>1, <1>4, <1>5
  <2>2. CASE ~(w[e].time < time \/ (w[e].time = time /\ e < id))
    <3>1. Cut(w, Z, time, id) = Cut(w, S, time, id)
      BY <2>2, <1>1 DEF Cut
    <3> QED BY <3>1 DEF FifoShares, Covers
  <2> QED BY <2>1, <2>2
<1>7. ASSUME NEW time \in Nat
      PROVE  /\ Cut(w, B, time, 0) \in SUBSET B
             /\ IsFiniteSet(Cut(w, B, time, 0))
             /\ Shares(w, Cut(w, B, time, 0)) \in Nat
             /\ PartSum(left, Cut(w, B, time, 0))
                  = Monus(Shares(w, Cut(w, B, time, 0)), Shares(w, S))
             /\ PartSum(held, Cut(w, B, time, 0))
                  = Monus(PartSum(left, Cut(w, B, time, 0)), w[e].qty)
  <2>1. Cut(w, B, time, 0) \in SUBSET B
    BY DEF Cut
  <2>2. IsFiniteSet(Cut(w, B, time, 0)) /\ Shares(w, Cut(w, B, time, 0)) \in Nat
    BY <2>1, <1>1, SharesGrow
  <2> QED BY <2>1, <2>2 DEF FifoShares, LeftFits, Leaves
<1>8. LeftFits(w, B, Z, held)
  <2>1. ASSUME NEW time \in Nat
        PROVE  PartSum(held, Cut(w, B, time, 0))
                 = Monus(Shares(w, Cut(w, B, time, 0)), Shares(w, Z))
    BY <1>1, <1>4, <1>5, <1>7 DEF Monus
  <2> QED BY <2>1 DEF LeftFits, Leaves
<1>9. ASSUME NEW y \in S
      PROVE  TakenFits(w, B, Z, y, took[y])
  <2>1. Before(w, Z, y) = Before(w, S, y)
    <3>1. e \notin Before(w, Z, y)
      BY <1>1, <1>2 DEF Before, Cut
    <3> QED BY <3>1, <1>1 DEF Before, Cut
  <2>2. TakenFits(w, B, S, y, taken[y])
    BY DEF FifoShares
  <2>3. took[y] = taken[y]
    OBVIOUS
  <2> QED BY <2>1, <2>2, <2>3 DEF TakenFits
<1>10. TakenFits(w, B, Z, e, took[e])
  <2>1. Before(w, Z, e) = S
    <3>1. e \notin Before(w, Z, e)
      BY <1>1 DEF Before, Cut
    <3> QED BY <3>1, <1>1, <1>2 DEF Before, Cut
  <2>2. ASSUME NEW time \in Nat
        PROVE  PartSum(took[e], Cut(w, B, time, 0))
                 = Least(Shares(w, Cut(w, B, time, 0)), Shares(w, S) + w[e].qty)
                     - Least(Shares(w, Cut(w, B, time, 0)), Shares(w, S))
    <3>1. Adds(left, held, took[e], Cut(w, B, time, 0))
      <4>1. Cut(w, B, time, 0) \in SUBSET B
        BY <1>7
      <4>2. left \in [B -> Nat] /\ held \in [B -> Nat]
        BY DEF FifoShares, LeftFits, Leaves
      <4> QED BY <4>1, <4>2 DEF Adds
    <3>2. /\ PartSum(left, Cut(w, B, time, 0))
               = PartSum(held, Cut(w, B, time, 0)) + PartSum(took[e], Cut(w, B, time, 0))
          /\ PartSum(took[e], Cut(w, B, time, 0)) \in Int
      BY <3>1, <1>7, SumOfSums
    <3> QED BY <3>2, <1>1, <1>4, <1>7 DEF Monus, Least
  <2> QED BY <2>1, <2>2 DEF TakenFits
<1>11. \A y \in Z : TakenFits(w, B, Z, y, took[y])
  BY <1>1, <1>9, <1>10
<1> QED BY <1>6, <1>8, <1>11 DEF FifoShares

-----------------------------------------------------------------------------
(***************************************************************************)
(* Consume and first in, first out: what a walk over a queue of lots takes is*)
(* what the oldest shares come to, so a sell leaves a book that is still   *)
(* first in, first out.                                                    *)
(***************************************************************************)
\* The smaller of two numbers.
LEMMA MinIsLeast ==
  ASSUME NEW a \in Nat, NEW b \in Nat
  PROVE  Min({a, b}) = Least(a, b)
<1>1. \E x \in {a, b} : \A y \in {a, b} : x <= y
  OBVIOUS
<1>2. Min({a, b}) \in {a, b} /\ \A y \in {a, b} : Min({a, b}) <= y
  BY <1>1 DEF Min
<1> QED BY <1>2 DEF Least

\* What the first n lots hold.
RemUpTo(seq, n) == SumFunction([j \in 1..n |-> seq[j].rem])

\* The fills that tell the difference between lots before and after a sell.
FillOf(before, after, j) ==
  [src |-> before[j].src, qty |-> before[j].rem - after[j].rem,
   unit |-> before[j].unit]

FillsOf(before, after, n) ==
  {FillOf(before, after, j) : j \in {k \in 1..n : after[k].rem # before[k].rem}}

\* A lot gives only what the lots before it could not.
OldestFirst(before, after, n, q) ==
  \A k \in 0..n : RemUpTo(after, k) = Monus(RemUpTo(before, k), q)

Shrunk(before, after, n) ==
  \A j \in 1..n : /\ after[j].rem \in Nat /\ after[j].rem <= before[j].rem
                  /\ after[j] = WithRem(before[j], after[j].rem)

TakesOldest(st, seq, i, q) ==
  /\ DOMAIN st.lots = 1..i
  /\ Shrunk(seq, st.lots, i)
  /\ st.fills = FillsOf(seq, st.lots, i)
  /\ OldestFirst(seq, st.lots, i, q)
  /\ st.toSell = Monus(q, RemUpTo(seq, i))

HasRem(seq, i) == \A j \in 1..i : seq[j].rem \in Nat

\* One lot more.
LEMMA RemGrows ==
  ASSUME NEW i \in Nat, i # 0, NEW seq, HasRem(seq, i)
  PROVE  /\ RemUpTo(seq, i) = seq[i].rem + RemUpTo(seq, i - 1)
         /\ RemUpTo(seq, i - 1) \in Nat
<1> DEFINE f == [j \in 1..i |-> seq[j].rem]
           g == [j \in 1..(i - 1) |-> seq[j].rem]
<1>1. i \in 1..i /\ 1..(i - 1) \subseteq 1..i
  OBVIOUS
<1>2. /\ IntegerOn(f, 1..i) /\ IntegerOn(g, 1..(i - 1)) /\ SameOn(g, f, 1..(i - 1))
      /\ f[i] = seq[i].rem
  BY <1>1 DEF IntegerOn, SameOn, HasRem
<1>3. g \in [1..(i - 1) -> Nat] /\ IsFiniteSet(1..(i - 1))
  <2>1. i - 1 \in Int
    OBVIOUS
  <2>2. IsFiniteSet(1..(i - 1))
    BY <2>1, FS_Interval
  <2> QED BY <1>1, <2>2 DEF HasRem
<1> HIDE DEF f, g
<1>4. SumFunction(f) = f[i] + SumFunction(g)
  BY <1>2, SumOfPlaces
<1>5. SumFunction(g) \in Nat
  BY <1>3, SumNat
<1> QED BY <1>2, <1>4, <1>5 DEF RemUpTo, f, g

\* The first lots hold the same when they are the same.
LEMMA SameRem ==
  ASSUME NEW n \in Nat, NEW seq, NEW other,
         \A j \in 1..n : other[j] = seq[j]
  PROVE  RemUpTo(other, n) = RemUpTo(seq, n)
<1>1. [j \in 1..n |-> other[j].rem] = [j \in 1..n |-> seq[j].rem]
  OBVIOUS
<1> QED BY <1>1 DEF RemUpTo

\* No lot holds nothing.
LEMMA NoRem ==
  ASSUME NEW seq
  PROVE  RemUpTo(seq, 0) = 0
<1> DEFINE f == [j \in 1..0 |-> seq[j].rem]
<1>1. DOMAIN f = {} /\ f \in [{} -> Int]
  OBVIOUS
<1> HIDE DEF f
<1>2. SumFunction(f) = 0
  BY <1>1, SumOfNone
<1> QED BY <1>2 DEF RemUpTo, f

\* One step of Consume.
LEMMA LotGivesRest ==
  ASSUME NEW E, AreLots(E), NEW seq, NEW i \in Nat, i # 0,
         \A j \in 1..i : seq[j] \in E, NEW q \in Nat,
         NEW st \in ConsumeStates(E), TakesOldest(st, seq, i - 1, q),
         NEW new, new = ConsumeLot(st, seq[i])
  PROVE  TakesOldest(new, seq, i, q)
<1> DEFINE lot == seq[i]
           taken == Min({lot.rem, st.toSell})
           left == [lot EXCEPT !.rem = @ - taken]
<1>1. /\ st.toSell \in Nat /\ st.lots \in Seq(E) /\ lot \in E
      /\ lot.rem \in Nat /\ i - 1 \in Nat /\ i \in 1..i
      /\ \A j \in 1..(i - 1) : j \in 1..i
  <2>1. i \in 1..i /\ i - 1 \in Nat /\ \A j \in 1..(i - 1) : j \in 1..i
    OBVIOUS
  <2>2. lot \in E
    BY <2>1
  <2> QED BY <2>1, <2>2 DEF ConsumeStates, AreLots
<1>2. taken = Least(lot.rem, st.toSell)
  BY <1>1, MinIsLeast
<1>3. taken \in Nat /\ taken <= lot.rem /\ taken <= st.toSell /\ lot.rem - taken \in Nat
  BY <1>1, <1>2 DEF Least
<1>4. /\ left = WithRem(lot, left.rem) /\ left.rem = lot.rem - taken
      /\ left \in E
  <2>1. left = WithRem(lot, lot.rem - taken)
    BY <1>1, <1>3 DEF WithRem
  <2>2. /\ WithRem(lot, lot.rem - taken).rem = lot.rem - taken
        /\ WithRem(lot, lot.rem - taken) \in E
    BY <1>1, <1>3 DEF AreLots
  <2> QED BY <2>1, <2>2
<1>5. /\ new.toSell = st.toSell - taken
      /\ new.lots = Append(st.lots, left)
      /\ new.fills = IF taken = 0 THEN st.fills
                     ELSE st.fills \cup {[src |-> lot.src, qty |-> taken, unit |-> lot.unit]}
  BY DEF ConsumeLot
<1> HIDE DEF lot, taken, left
<1>6. Len(st.lots) = i - 1 /\ DOMAIN st.lots = 1..(i - 1)
  BY <1>1 DEF TakesOldest
<1>7. /\ DOMAIN new.lots = 1..i /\ new.lots[i] = left
      /\ \A j \in 1..(i - 1) : new.lots[j] = st.lots[j]
  BY <1>1, <1>4, <1>5, <1>6
<1>8. \A j \in 1..i : j = i \/ j \in 1..(i - 1)
  BY <1>1
<1>9. Shrunk(seq, new.lots, i)
  <2>1. Shrunk(seq, st.lots, i - 1)
    BY DEF TakesOldest
  <2>2. /\ left.rem \in Nat /\ left.rem <= seq[i].rem
        /\ left = WithRem(seq[i], left.rem)
    BY <1>1, <1>3, <1>4 DEF lot
  <2> QED BY <2>1, <2>2, <1>7, <1>8 DEF Shrunk
<1>10. /\ RemUpTo(seq, i) = lot.rem + RemUpTo(seq, i - 1)
       /\ RemUpTo(seq, i - 1) \in Nat
  <2>1. HasRem(seq, i)
    BY DEF HasRem, AreLots
  <2> QED BY <2>1, RemGrows DEF lot
<1>11. RemUpTo(new.lots, i) = left.rem + RemUpTo(st.lots, i - 1)
  <2>1. HasRem(new.lots, i)
    BY <1>9 DEF HasRem, Shrunk
  <2>2. RemUpTo(new.lots, i) = new.lots[i].rem + RemUpTo(new.lots, i - 1)
    BY <2>1, RemGrows
  <2>3. RemUpTo(new.lots, i - 1) = RemUpTo(st.lots, i - 1)
    BY <1>1, <1>7, SameRem
  <2> QED BY <2>2, <2>3, <1>7
<1>12. /\ RemUpTo(st.lots, i - 1) = Monus(RemUpTo(seq, i - 1), q)
       /\ st.toSell = Monus(q, RemUpTo(seq, i - 1))
  <2>1. i - 1 \in 0..(i - 1)
    BY <1>1
  <2> QED BY <2>1 DEF TakesOldest, OldestFirst
<1>13. RemUpTo(new.lots, i) = Monus(RemUpTo(seq, i), q)
  BY SMTT(60), <1>1, <1>2, <1>3, <1>4, <1>10, <1>11, <1>12 DEF Monus, Least
<1>14. new.toSell = Monus(q, RemUpTo(seq, i))
  BY <1>1, <1>2, <1>3, <1>5, <1>10, <1>12 DEF Monus, Least
<1>15. OldestFirst(seq, new.lots, i, q)
  <2> SUFFICES ASSUME NEW k \in 0..i
               PROVE  RemUpTo(new.lots, k) = Monus(RemUpTo(seq, k), q)
    BY DEF OldestFirst
  <2>1. CASE k = i
    BY <2>1, <1>13
  <2>2. CASE k # i
    <3>1. k \in 0..(i - 1) /\ k \in Nat /\ \A j \in 1..k : j \in 1..(i - 1)
      BY <2>2, <1>1
    <3>2. RemUpTo(new.lots, k) = RemUpTo(st.lots, k)
      BY <3>1, <1>7, SameRem
    <3> QED BY <3>1, <3>2 DEF TakesOldest, OldestFirst
  <2> QED BY <2>1, <2>2
<1>16. new.fills = FillsOf(seq, new.lots, i)
  <2> DEFINE fill == [src |-> lot.src, qty |-> taken, unit |-> lot.unit]
             K(after, n) == {k \in 1..n : after[k].rem # seq[k].rem}
  <2>1. st.fills = FillsOf(seq, st.lots, i - 1)
    BY DEF TakesOldest
  <2>2. \A j \in 1..(i - 1) : FillOf(seq, new.lots, j) = FillOf(seq, st.lots, j)
    BY <1>7 DEF FillOf
  <2>3. FillsOf(seq, st.lots, i - 1) = {FillOf(seq, new.lots, j) : j \in K(new.lots, i - 1)}
    BY <2>2, <1>7 DEF FillsOf
  <2>4. FillOf(seq, new.lots, i) = fill
    BY SMTT(60), <1>1, <1>3, <1>4, <1>7 DEF FillOf, lot
  <2>5. taken = 0 <=> new.lots[i].rem = seq[i].rem
    BY <1>1, <1>3, <1>4, <1>7 DEF lot
  <2>6. CASE taken = 0
    <3>1. K(new.lots, i) = K(new.lots, i - 1)
      BY <2>5, <2>6, <1>1, <1>8
    <3> QED BY <3>1, <2>1, <2>3, <2>6, <1>5 DEF FillsOf
  <2>7. CASE taken # 0
    <3>1. K(new.lots, i) = K(new.lots, i - 1) \cup {i}
      BY <2>5, <2>7, <1>1, <1>8
    <3>2. {FillOf(seq, new.lots, j) : j \in K(new.lots, i)}
            = {FillOf(seq, new.lots, j) : j \in K(new.lots, i - 1)}
                \cup {FillOf(seq, new.lots, i)}
      BY <3>1
    <3> QED BY <3>2, <2>1, <2>3, <2>4, <2>7, <1>5 DEF FillsOf
  <2> QED BY <2>6, <2>7
<1> QED BY <1>7, <1>9, <1>14, <1>15, <1>16 DEF TakesOldest

\* What consumeLots takes, it takes from the oldest lots.
LEMMA ConsumeTakesOldest ==
  ASSUME NEW E, AreLots(E), NEW seq \in Seq(E), NEW q \in Nat
  PROVE  TakesOldest(Consume(seq, q), seq, Len(seq), q)
<1> DEFINE n == Len(seq)
<1>1. n \in Nat /\ DOMAIN seq = 1..n /\ \A i \in 1..n : seq[i] \in E
  OBVIOUS
<1>2. PICK r \in [0..n -> ConsumeStates(E)] : ConsumeRun(r, seq, q)
  BY ConsumeRuns
<1> DEFINE A == {i \in 0..n : TakesOldest(r[i], seq, i, q)}
<1>3. 0 \in A
  <2>1. r[0].lots = <<>> /\ r[0].fills = {} /\ r[0].toSell = q
    BY <1>2 DEF ConsumeRun
  <2>2. RemUpTo(seq, 0) = 0 /\ RemUpTo(r[0].lots, 0) = 0
    BY NoRem
  <2>3. OldestFirst(seq, r[0].lots, 0, q)
    BY <2>2 DEF OldestFirst, Monus
  <2>4. FillsOf(seq, r[0].lots, 0) = {}
    BY DEF FillsOf
  <2>5. q = Monus(q, RemUpTo(seq, 0))
    BY <2>2 DEF Monus
  <2>6. TakesOldest(r[0], seq, 0, q)
    BY <2>1, <2>3, <2>4, <2>5 DEF TakesOldest, Shrunk
  <2> QED BY <1>1, <2>6
<1>4. ASSUME NEW i \in 1..n, i - 1 \in A
      PROVE  i \in A
  <2>1. /\ i \in Nat /\ i # 0 /\ i - 1 \in 0..n /\ i \in 0..n
        /\ r[i - 1] \in ConsumeStates(E) /\ r[i] = ConsumeLot(r[i - 1], seq[i])
        /\ TakesOldest(r[i - 1], seq, i - 1, q)
        /\ \A j \in 1..i : seq[j] \in E
    BY <1>1, <1>2, <1>4 DEF ConsumeRun
  <2>2. TakesOldest(r[i], seq, i, q)
    BY <2>1, LotGivesRest
  <2> QED BY <2>1, <2>2
<1>5. n \in A
  <2> HIDE DEF A, n
  <2>1. 0..n \subseteq A
    BY <1>1, <1>3, <1>4, PlaceByPlace
  <2> QED BY <2>1, <1>1
<1>6. Consume(seq, q) = r[n] /\ n \in 0..n
  BY <1>1, <1>2 DEF ConsumeRun
<1> QED BY <1>5, <1>6

\* The first k rows have the elements of P where f is not zero.
Lists(row, k, P, f) ==
  /\ \A j \in 1..k : row[j] \in P
  /\ \A i, j \in 1..k : row[i] = row[j] => i = j
  /\ \A x \in P : f[x] \in Nat
  /\ \A x \in P : (\A j \in 1..k : row[j] # x) => f[x] = 0

\* A sum over a set, place by place.
LEMMA SumByPlace ==
  ASSUME NEW P, IsFiniteSet(P), NEW f, NEW k \in Nat, NEW row, Lists(row, k, P, f),
         NEW g, \A j \in 1..k : g[j] = f[row[j]]
  PROVE  PartSum(f, P) = SumFunction([j \in 1..k |-> g[j]])
<1> DEFINE R == [j \in 1..k |-> row[j]]
           Q == {R[j] : j \in 1..k}
           F == [x \in P |-> f[x]]
           G == [x \in Q |-> f[x]]
           W == [j \in 1..k |-> g[j]]
<1>1. Q \in SUBSET P
  BY DEF Lists
<1>2. NaturalOn(W, 1..k) /\ NaturalOn(G, Q)
  BY <1>1 DEF Lists, NaturalOn
<1>3. Numbers(R, k, 1..k, Q, G, W)
  <2>1. \A i, j \in 1..k : R[i] = R[j] => i = j
    BY DEF Lists
  <2>2. \A i \in 1..k : G[R[i]] = W[i]
    OBVIOUS
  <2> HIDE DEF R, G, W
  <2> QED BY <2>1, <2>2 DEF Numbers
<1>4. IntegerOn(F, P) /\ IntegerOn(G, Q) /\ SameOn(G, F, Q) /\ ZeroOff(F, Q, P)
  <2>1. \A x \in P \ Q : f[x] = 0
    BY DEF Lists
  <2>2. \A x \in P : f[x] \in Int
    BY DEF Lists
  <2> HIDE DEF Q
  <2> QED BY <1>1, <2>1, <2>2 DEF IntegerOn, SameOn, ZeroOff
<1>5. PartSum(f, P) = SumFunction(F)
  BY DEF PartSum
<1> HIDE DEF R, Q, F, G, W
<1>6. SumFunction(G) = SumFunction(W)
  BY <1>2, <1>3, SumOfRows
<1>7. SumFunction(F) = SumFunction(G)
  BY <1>4, SumOfPart
<1> QED BY <1>5, <1>6, <1>7 DEF W

\* A queue of the lots of B that holds what is left of them, the oldest first.
Queue(w, B, left, seq, n) ==
  /\ \A j \in 1..n : seq[j].src \in B /\ seq[j].rem = left[seq[j].src]
  /\ \A i, j \in 1..n : seq[i].src = seq[j].src => i = j
  /\ \A i, j \in 1..n : i < j => w[seq[i].src].time <= w[seq[j].src].time
  /\ \A b \in B : (\A j \in 1..n : seq[j].src # b) => left[b] = 0

\* What the lots of B hold after a sell from the queue.
HeldAfter(B, seq, after, n, held) ==
  /\ held \in [B -> Nat]
  /\ \A j \in 1..n : held[seq[j].src] = after[j].rem
  /\ \A b \in B : (\A j \in 1..n : seq[j].src # b) => held[b] = 0

\* The lots opened before an instant are the first ones of a queue.
LEMMA OldestStandFirst ==
  ASSUME NEW w, NEW B, TradesFit(w, B), NEW left, NEW seq, NEW n \in Nat,
         Queue(w, B, left, seq, n), NEW time \in Nat
  PROVE  \E k \in 0..n : \A j \in 1..n : j <= k <=> w[seq[j].src].time < time
<1> DEFINE s == {j \in 1..n : w[seq[j].src].time < time}
<1>1. \A j \in 1..n : seq[j].src \in B /\ w[seq[j].src].time \in Nat
  BY DEF Queue, TradesFit
<1>2. CASE s = {}
  <2>1. 0 \in 0..n /\ \A j \in 1..n : j <= 0 <=> w[seq[j].src].time < time
    BY <1>2
  <2> QED BY <2>1
<1>3. CASE s # {}
  <2>1. s \in SUBSET (1..n)
    OBVIOUS
  <2>2. Max(s) \in s /\ \A m \in s : m <= Max(s)
    <3> HIDE DEF s
    <3> QED BY <1>3, <2>1, GreatestNumber
  <2>3. PICK k \in s : \A m \in s : m <= k
    BY <2>2
  <2>4. k \in 1..n /\ k \in 0..n /\ w[seq[k].src].time < time
    BY <2>3
  <2>5. \A j \in 1..n : w[seq[j].src].time < time => j <= k
    BY <2>3
  <2>6. ASSUME NEW j \in 1..n, j <= k
        PROVE  w[seq[j].src].time < time
    <3>1. CASE j = k
      BY <3>1, <2>4
    <3>2. CASE j # k
      <4>1. j < k
        BY <2>4, <2>6, <3>2
      <4>2. w[seq[j].src].time <= w[seq[k].src].time
        BY <2>4, <4>1 DEF Queue
      <4> QED BY <4>2, <2>4, <1>1
    <3> QED BY <3>1, <3>2
  <2> QED BY <2>4, <2>5, <2>6
<1> QED BY <1>2, <1>3

\* A sell that takes from the oldest lots of the queue leaves what it must.
LEMMA QueueLeaves ==
  ASSUME NEW w, NEW B, TradesFit(w, B), NEW left \in [B -> Nat], NEW q \in Nat,
         NEW seq, NEW after, NEW n \in Nat, Queue(w, B, left, seq, n),
         Shrunk(seq, after, n), OldestFirst(seq, after, n, q),
         NEW held, HeldAfter(B, seq, after, n, held)
  PROVE  /\ Leaves(w, B, left, held, q)
         /\ PartSum(left, B) = RemUpTo(seq, n)
<1>1. \A b \in B : held[b] <= left[b]
  <2> SUFFICES ASSUME NEW b \in B
               PROVE  held[b] <= left[b]
    OBVIOUS
  <2>1. CASE \E j \in 1..n : seq[j].src = b
    BY <2>1 DEF Queue, HeldAfter, Shrunk
  <2>2. CASE \A j \in 1..n : seq[j].src # b
    BY <2>2 DEF Queue, HeldAfter
  <2> QED BY <2>1, <2>2
<1> DEFINE row == [j \in 1..n |-> seq[j].src]
<1>2. ASSUME NEW k \in 0..n, NEW P \in SUBSET B,
             \A j \in 1..n : j <= k <=> seq[j].src \in P
      PROVE  /\ PartSum(left, P) = RemUpTo(seq, k)
             /\ PartSum(held, P) = RemUpTo(after, k)
  <2>1. IsFiniteSet(P)
    BY FS_Subset DEF TradesFit
  <2>2. k \in Nat /\ \A j \in 1..k : j \in 1..n /\ j <= k
    OBVIOUS
  <2>3. \A x \in P : (\A j \in 1..k : row[j] # x) => \A j \in 1..n : seq[j].src # x
    <3> SUFFICES ASSUME NEW x \in P, \A j \in 1..k : row[j] # x, NEW j \in 1..n,
                        seq[j].src = x
                 PROVE  FALSE
      OBVIOUS
    <3>1. j \in 1..k
      BY <1>2
    <3> QED BY <3>1
  <2>4. /\ \A j \in 1..k : row[j] \in P
        /\ \A i, j \in 1..k : row[i] = row[j] => i = j
    BY <2>2, <1>2 DEF Queue
  <2>5. Lists(row, k, P, left)
    BY <2>3, <2>4 DEF Lists, Queue
  <2>6. Lists(row, k, P, held)
    BY <2>3, <2>4 DEF Lists, HeldAfter
  <2> DEFINE g == [j \in 1..k |-> seq[j].rem]
             h == [j \in 1..k |-> after[j].rem]
  <2>7. \A j \in 1..k : g[j] = left[row[j]]
    BY <2>2 DEF Queue
  <2>8. \A j \in 1..k : h[j] = held[row[j]]
    BY <2>2 DEF HeldAfter
  <2>9. g = [j \in 1..k |-> g[j]] /\ h = [j \in 1..k |-> h[j]]
    OBVIOUS
  <2>10. RemUpTo(seq, k) = SumFunction(g) /\ RemUpTo(after, k) = SumFunction(h)
    BY DEF RemUpTo
  <2> HIDE DEF g, h, row
  <2>11. PartSum(left, P) = SumFunction([j \in 1..k |-> g[j]])
    BY <2>1, <2>2, <2>5, <2>7, SumByPlace
  <2>12. PartSum(held, P) = SumFunction([j \in 1..k |-> h[j]])
    BY <2>1, <2>2, <2>6, <2>8, SumByPlace
  <2> QED BY <2>9, <2>10, <2>11, <2>12
<1>3. ASSUME NEW time \in Nat
      PROVE  PartSum(held, Cut(w, B, time, 0)) = Monus(PartSum(left, Cut(w, B, time, 0)), q)
  <2>1. PICK k \in 0..n : \A j \in 1..n : j <= k <=> w[seq[j].src].time < time
    BY OldestStandFirst
  <2>2. \A b \in B : b \in Cut(w, B, time, 0) <=> w[b].time < time
    <3>1. \A b \in B : b \in Nat
      BY DEF TradesFit
    <3> QED BY <3>1 DEF Cut
  <2>3. Cut(w, B, time, 0) \in SUBSET B
    BY DEF Cut
  <2>4. \A j \in 1..n : j <= k <=> seq[j].src \in Cut(w, B, time, 0)
    BY <2>1, <2>2 DEF Queue
  <2>5. /\ PartSum(left, Cut(w, B, time, 0)) = RemUpTo(seq, k)
        /\ PartSum(held, Cut(w, B, time, 0)) = RemUpTo(after, k)
    BY <1>2, <2>3, <2>4
  <2> QED BY <2>5 DEF OldestFirst
<1>4. PartSum(left, B) = RemUpTo(seq, n)
  <2>1. n \in 0..n /\ B \in SUBSET B /\ \A j \in 1..n : j <= n <=> seq[j].src \in B
    BY DEF Queue
  <2> QED BY <2>1, <1>2
<1>5. held \in [B -> Nat]
  BY DEF HeldAfter
<1> QED BY <1>1, <1>3, <1>4, <1>5 DEF Leaves

UnitOf(w, b) == w[b].amount \div w[b].qty

\* What a sell took, and the rows that tell it.
Taken(B, left, held) == [b \in B |-> left[b] - held[b]]

FillsFor(w, B, taken) ==
  {[src |-> b, qty |-> taken[b], unit |-> UnitOf(w, b)] :
     b \in {c \in B : taken[c] # 0}}

\* After a sell there is something to say of each lot.
LEMMA HeldAfterExists ==
  ASSUME NEW w, NEW B, NEW left, NEW seq, NEW after, NEW n \in Nat,
         Queue(w, B, left, seq, n), Shrunk(seq, after, n)
  PROVE  \E held : HeldAfter(B, seq, after, n, held)
<1> DEFINE At(b) == CHOOSE j \in 1..n : seq[j].src = b
           held == [b \in B |-> IF \E j \in 1..n : seq[j].src = b
                                  THEN after[At(b)].rem ELSE 0]
<1>1. \A j \in 1..n : seq[j].src \in B /\ At(seq[j].src) = j
  <2> SUFFICES ASSUME NEW j \in 1..n
               PROVE  seq[j].src \in B /\ At(seq[j].src) = j
    OBVIOUS
  <2>1. seq[j].src \in B
    BY DEF Queue
  <2>2. At(seq[j].src) \in 1..n /\ seq[At(seq[j].src)].src = seq[j].src
    OBVIOUS
  <2> HIDE DEF At
  <2> QED BY <2>1, <2>2 DEF Queue
<1>2. \A b \in B : (\E j \in 1..n : seq[j].src = b) => At(b) \in 1..n
  OBVIOUS
<1> HIDE DEF At
<1>3. held \in [B -> Nat]
  BY <1>2 DEF Shrunk
<1>4. \A j \in 1..n : held[seq[j].src] = after[j].rem
  BY <1>1
<1>5. \A b \in B : (\A j \in 1..n : seq[j].src # b) => held[b] = 0
  OBVIOUS
<1>6. HeldAfter(B, seq, after, n, held)
  BY <1>3, <1>4, <1>5 DEF HeldAfter
<1> QED BY <1>6

\* The fills of a sell from a queue tell what it took.
LEMMA FillsTellTaken ==
  ASSUME NEW w, NEW B, NEW left \in [B -> Nat], NEW seq, NEW after, NEW n \in Nat,
         Queue(w, B, left, seq, n), Shrunk(seq, after, n),
         \A j \in 1..n : seq[j].unit = UnitOf(w, seq[j].src),
         NEW held, HeldAfter(B, seq, after, n, held)
  PROVE  FillsOf(seq, after, n) = FillsFor(w, B, Taken(B, left, held))
<1> DEFINE took == Taken(B, left, held)
           row(b) == [src |-> b, qty |-> took[b], unit |-> UnitOf(w, b)]
<1>1. \A b \in B : took[b] = left[b] - held[b] /\ left[b] \in Nat /\ held[b] \in Nat
  BY DEF Taken, HeldAfter
<1> HIDE DEF took
<1>2. ASSUME NEW j \in 1..n
      PROVE  /\ seq[j].src \in B
             /\ FillOf(seq, after, j) = row(seq[j].src)
             /\ took[seq[j].src] # 0 <=> after[j].rem # seq[j].rem
  <2>1. /\ seq[j].src \in B /\ seq[j].rem = left[seq[j].src]
        /\ after[j].rem = held[seq[j].src]
    BY DEF Queue, HeldAfter
  <2>2. took[seq[j].src] = seq[j].rem - after[j].rem
    BY <2>1, <1>1
  <2>3. FillOf(seq, after, j) = row(seq[j].src)
    BY <2>2 DEF FillOf
  <2> QED BY <2>1, <2>2, <2>3, <1>1
<1>3. ASSUME NEW b \in B, took[b] # 0
      PROVE  \E j \in 1..n : seq[j].src = b
  <2>1. CASE \A j \in 1..n : seq[j].src # b
    <3>1. left[b] = 0 /\ held[b] = 0
      BY <2>1 DEF Queue, HeldAfter
    <3> QED BY <3>1, <1>1, <1>3
  <2> QED BY <2>1
<1>4. ASSUME NEW x \in FillsOf(seq, after, n)
      PROVE  x \in FillsFor(w, B, took)
  <2>1. PICK j \in 1..n : after[j].rem # seq[j].rem /\ x = FillOf(seq, after, j)
    BY <1>4 DEF FillsOf
  <2>2. seq[j].src \in {c \in B : took[c] # 0} /\ x = row(seq[j].src)
    BY <1>2, <2>1
  <2> QED BY <2>2 DEF FillsFor
<1>5. ASSUME NEW x \in FillsFor(w, B, took)
      PROVE  x \in FillsOf(seq, after, n)
  <2>1. PICK b \in {c \in B : took[c] # 0} : x = row(b)
    BY <1>5 DEF FillsFor
  <2>2. PICK j \in 1..n : seq[j].src = b
    BY <1>3, <2>1
  <2>3. j \in {k \in 1..n : after[k].rem # seq[k].rem} /\ x = FillOf(seq, after, j)
    BY <1>2, <2>1, <2>2
  <2> QED BY <2>3 DEF FillsOf
<1> QED BY <1>4, <1>5 DEF took

\* What a sell in full from a queue does.
QueueSold(w, B, left, seq, q, held) ==
  LET sold == Consume(seq, q) IN
  /\ Leaves(w, B, left, held, q)
  /\ q <= PartSum(left, B)
  /\ Shrunk(seq, sold.lots, Len(seq))
  /\ DOMAIN sold.lots = 1..Len(seq)
  /\ HeldAfter(B, seq, sold.lots, Len(seq), held)
  /\ sold.fills = FillsFor(w, B, Taken(B, left, held))

\* A sell from a queue of the lots that are left takes the oldest shares of them.
LEMMA SellFromQueue ==
  ASSUME NEW w, NEW B, TradesFit(w, B), NEW left \in [B -> Nat], NEW q \in Nat,
         NEW E, AreLots(E), NEW seq \in Seq(E), Queue(w, B, left, seq, Len(seq)),
         \A j \in 1..Len(seq) : seq[j].unit = UnitOf(w, seq[j].src),
         Consume(seq, q).toSell = 0
  PROVE  \E held : QueueSold(w, B, left, seq, q, held)
<1> DEFINE n == Len(seq)
           after == Consume(seq, q).lots
<1>1. n \in Nat
  OBVIOUS
<1>2. TakesOldest(Consume(seq, q), seq, n, q)
  BY ConsumeTakesOldest
<1>3. /\ DOMAIN after = 1..n /\ Shrunk(seq, after, n)
      /\ Consume(seq, q).fills = FillsOf(seq, after, n)
      /\ OldestFirst(seq, after, n, q)
      /\ Monus(q, RemUpTo(seq, n)) = 0
  BY <1>2 DEF TakesOldest
<1> HIDE DEF n, after
<1>4. Queue(w, B, left, seq, n) /\ \A j \in 1..n : seq[j].unit = UnitOf(w, seq[j].src)
  BY DEF n
<1>5. PICK held : HeldAfter(B, seq, after, n, held)
  BY <1>1, <1>3, <1>4, HeldAfterExists
<1>6. Leaves(w, B, left, held, q) /\ PartSum(left, B) = RemUpTo(seq, n)
  BY <1>1, <1>3, <1>4, <1>5, QueueLeaves
<1>7. FillsOf(seq, after, n) = FillsFor(w, B, Taken(B, left, held))
  BY <1>1, <1>3, <1>4, <1>5, FillsTellTaken
<1>8. q <= PartSum(left, B)
  <2>1. IsFiniteSet(B) /\ left \in [B -> Nat] /\ left = [b \in B |-> left[b]]
    BY DEF TradesFit
  <2>2. SumFunction(left) \in Nat
    BY <2>1, SumNat
  <2>3. PartSum(left, B) \in Nat
    BY <2>1, <2>2 DEF PartSum
  <2> QED BY <2>3, <1>3, <1>6 DEF Monus
<1>9. QueueSold(w, B, left, seq, q, held)
  BY <1>3, <1>5, <1>6, <1>7, <1>8 DEF QueueSold, n, after
<1> QED BY <1>9

-----------------------------------------------------------------------------
(***************************************************************************)
(* The replay of a scope, event by event: up to each event the lots and fills*)
(* are those of a first-in-first-out book of the events so far.            *)
(***************************************************************************)
\* The lot of a buy, with k shares left.
LotOf(w, b, k) ==
  [src |-> b, orig |-> w[b].qty, rem |-> k, unit |-> UnitOf(w, b),
   openedAt |-> w[b].time]

\* The lots are a queue of those of B, none missing.
LotsTell(w, B, left, seq) ==
  /\ Queue(w, B, left, seq, Len(seq))
  /\ \A b \in B : \E j \in 1..Len(seq) : seq[j].src = b
  /\ \A j \in 1..Len(seq) : seq[j] = LotOf(w, seq[j].src, seq[j].rem)

\* A replay of the buys B and the sells S has come out first in, first out.
Staged(w, B, S, st, left, taken) ==
  /\ LotsTell(w, B, left, st.lots)
  /\ FifoShares(w, B, S, left, taken)
  /\ \A e \in S : st.fills[e] = FillsFor(w, B, taken[e])

\* The event of a trade.
TellsTrade(w, e) ==
  /\ e.id \in Nat
  /\ w[e.id].qty = e.qty /\ w[e.id].amount = e.amount /\ w[e.id].time = e.time

\* One buy more, of which nothing is taken yet, changes no fills.
LEMMA NothingTakenYet ==
  ASSUME NEW w, NEW B, NEW C, NEW b, With(C, B, b), NEW taken, NEW took,
         took[b] = 0, \A y \in B : took[y] = taken[y]
  PROVE  FillsFor(w, C, took) = FillsFor(w, B, taken)
<1> DEFINE row(c, k) == [src |-> c, qty |-> k, unit |-> UnitOf(w, c)]
<1>1. ASSUME NEW x \in FillsFor(w, C, took)
      PROVE  x \in FillsFor(w, B, taken)
  <2>1. PICK c \in C : took[c] # 0 /\ x = row(c, took[c])
    BY <1>1 DEF FillsFor
  <2>2. c \in B
    BY <2>1 DEF With
  <2> QED BY <2>1, <2>2 DEF FillsFor
<1>2. ASSUME NEW x \in FillsFor(w, B, taken)
      PROVE  x \in FillsFor(w, C, took)
  <2>1. PICK c \in B : taken[c] # 0 /\ x = row(c, taken[c])
    BY <1>2 DEF FillsFor
  <2>2. c \in C /\ took[c] = taken[c]
    BY DEF With
  <2> QED BY <2>1, <2>2 DEF FillsFor
<1> QED BY <1>1, <1>2

\* A buy keeps a replay first in, first out.
LEMMA BuyIsStaged ==
  ASSUME NEW w, NEW B, NEW S, NEW e, TellsTrade(w, e), NEW C, With(C, B, e.id),
         e.id \notin S, TradesFit(w, C \cup S),
         AllBefore(w, B \cup S, e.id),
         NEW st, NEW E, st.lots \in Seq(E), NEW left, NEW taken,
         Staged(w, B, S, st, left, taken),
         NEW new, new.fills = st.fills,
         new.lots = Append(st.lots, LotOf(w, e.id, e.qty))
  PROVE  \E held, took : Staged(w, C, S, new, held, took)
<1> DEFINE b == e.id
           n == Len(st.lots)
           held == [y \in C |-> IF y = b THEN w[b].qty ELSE left[y]]
           took == [t \in S |-> [y \in C |-> IF y = b THEN 0 ELSE taken[t][y]]]
<1>1. /\ b \in C /\ b \notin B /\ \A y \in C : y \in B \/ y = b
      /\ \A y \in B : y \in C /\ y # b
  BY DEF With
<1>2. /\ b \in Nat /\ w[b].qty \in Nat /\ w[b].time \in Nat
      /\ \A t \in B : w[t].time \in Nat
  BY <1>1 DEF TradesFit
<1>3. left \in [B -> Nat] /\ \A t \in S : taken[t] \in [B -> Nat]
  BY DEF Staged, FifoShares, LeftFits, TakenFits
<1>4. /\ held \in [C -> Nat] /\ held[b] = w[b].qty
      /\ \A y \in B : held[y] = left[y]
  BY <1>1, <1>2, <1>3
<1>5. \A t \in S : /\ took[t] \in [C -> Nat] /\ took[t][b] = 0
                   /\ \A y \in B : took[t][y] = taken[t][y]
  BY <1>1, <1>3
<1>6. /\ \A t \in S : t \in Before(w, S, b)
      /\ \A t \in B : w[t].time <= w[b].time
  BY <1>2 DEF AllBefore, Before, Cut
<1> HIDE DEF held, took
<1>7. FifoShares(w, C, S, held, took)
  <2>1. FifoShares(w, B, S, left, taken) /\ With(C, B, b) /\ b \notin S
    BY DEF Staged
  <2>2. BuyHeld(w, B, b, C, left, held) /\ BuyKept(B, b, C, S, taken, took)
    BY <1>4, <1>5 DEF BuyHeld, BuyKept
  <2>3. AllBefore(w, S, b)
    BY <1>6 DEF AllBefore
  <2> HIDE DEF b
  <2> QED BY <2>1, <2>2, <2>3, BuyKeepsShares
<1>8. \A t \in S : new.fills[t] = FillsFor(w, C, took[t])
  BY <1>5, NothingTakenYet DEF Staged
<1>9. /\ n \in Nat /\ Len(new.lots) = n + 1
      /\ \A j \in 1..n : new.lots[j] = st.lots[j]
      /\ new.lots[n + 1] = LotOf(w, b, e.qty)
  OBVIOUS
<1>10. /\ \A j \in 1..n : st.lots[j].src \in B /\ st.lots[j].rem = left[st.lots[j].src]
       /\ \A i, j \in 1..n : st.lots[i].src = st.lots[j].src => i = j
       /\ \A i, j \in 1..n : i < j => w[st.lots[i].src].time <= w[st.lots[j].src].time
       /\ \A y \in B : \E j \in 1..n : st.lots[j].src = y
       /\ \A j \in 1..n : st.lots[j] = LotOf(w, st.lots[j].src, st.lots[j].rem)
  BY DEF Staged, LotsTell, Queue
<1>11. new.lots[n + 1].src = b /\ new.lots[n + 1].rem = held[b]
  BY <1>4, <1>9 DEF LotOf, TellsTrade
<1>12. \A j \in 1..(n + 1) : j \in 1..n \/ j = n + 1
  BY <1>9
<1> HIDE DEF n
<1>13. \A j \in 1..(n + 1) : /\ new.lots[j].src \in C
                             /\ new.lots[j].rem = held[new.lots[j].src]
                             /\ new.lots[j] = LotOf(w, new.lots[j].src, new.lots[j].rem)
  <2> SUFFICES ASSUME NEW j \in 1..(n + 1)
               PROVE  /\ new.lots[j].src \in C
                      /\ new.lots[j].rem = held[new.lots[j].src]
                      /\ new.lots[j] = LotOf(w, new.lots[j].src, new.lots[j].rem)
    OBVIOUS
  <2>1. CASE j \in 1..n
    BY SMTT(60), <2>1, <1>1, <1>4, <1>9, <1>10
  <2>2. CASE j = n + 1
    <3>1. held[b] = e.qty
      BY <1>4 DEF TellsTrade
    <3> QED BY <2>2, <3>1, <1>1, <1>9, <1>11
  <2> QED BY <2>1, <2>2, <1>12
<1>14. \A i, j \in 1..(n + 1) : new.lots[i].src = new.lots[j].src => i = j
  BY <1>1, <1>9, <1>10, <1>11, <1>12
<1>15. \A i, j \in 1..(n + 1) :
         i < j => w[new.lots[i].src].time <= w[new.lots[j].src].time
  <2> SUFFICES ASSUME NEW i \in 1..(n + 1), NEW j \in 1..(n + 1), i < j
               PROVE  w[new.lots[i].src].time <= w[new.lots[j].src].time
    OBVIOUS
  <2>1. i \in 1..n
    BY <1>9, <1>12
  <2>2. CASE j \in 1..n
    BY <2>1, <2>2, <1>9, <1>10
  <2>3. CASE j = n + 1
    BY <2>1, <2>3, <1>6, <1>9, <1>10, <1>11
  <2> QED BY <2>2, <2>3, <1>12
<1>16. \A y \in C : \E j \in 1..(n + 1) : new.lots[j].src = y
  <2> SUFFICES ASSUME NEW y \in C
               PROVE  \E j \in 1..(n + 1) : new.lots[j].src = y
    OBVIOUS
  <2>1. CASE y = b
    <3>1. n + 1 \in 1..(n + 1)
      BY <1>9
    <3> QED BY <2>1, <3>1, <1>11
  <2>2. CASE y \in B
    <3>1. PICK j \in 1..n : st.lots[j].src = y
      BY <2>2, <1>10
    <3>2. j \in 1..(n + 1) /\ new.lots[j].src = y
      BY SMTT(60), <3>1, <1>9
    <3> QED BY <3>2
  <2> QED BY <2>1, <2>2, <1>1
<1>17. LotsTell(w, C, held, new.lots)
  BY <1>9, <1>13, <1>14, <1>15, <1>16 DEF LotsTell, Queue
<1>18. Staged(w, C, S, new, held, took)
  BY <1>7, <1>8, <1>17 DEF Staged
<1> QED BY <1>18

\* The state has become new with the sell e, the sells of S are as before.
SoldTo(st, e, S, new) ==
  LET consumed == Consume(st.lots, e.qty) IN
  /\ consumed.toSell = 0
  /\ new.lots = consumed.lots
  /\ new.fills[e.id] = consumed.fills
  /\ \A t \in S : new.fills[t] = st.fills[t]

\* A sell in full keeps a replay first in, first out.
LEMMA SellIsStaged ==
  ASSUME NEW w, NEW B, NEW S, NEW e, TellsTrade(w, e), NEW Z, With(Z, S, e.id),
         e.id \notin B, TradesFit(w, B \cup Z),
         AllBefore(w, B \cup S, e.id),
         NEW st, NEW E, AreLots(E), st.lots \in Seq(E), NEW left, NEW taken,
         Staged(w, B, S, st, left, taken),
         NEW new, new.lots \in Seq(E), SoldTo(st, e, S, new)
  PROVE  \E held, took : Staged(w, B, Z, new, held, took)
<1> USE DEF SoldTo
<1> DEFINE z == e.id
           n == Len(st.lots)
           seq == st.lots
           after == new.lots
<1>1. /\ z \in Z /\ z \notin S /\ z \notin B /\ \A t \in Z : t \in S \/ t = z
      /\ With(Z, S, z)
  BY DEF With
<1>2. TradesFit(w, B) /\ z \in Nat /\ w[z].qty \in Nat /\ e.qty = w[z].qty
  <2>1. IsFiniteSet(B)
    BY FS_Subset DEF TradesFit
  <2> QED BY <2>1, <1>1 DEF TradesFit, TellsTrade
<1>3. left \in [B -> Nat]
  BY DEF Staged, FifoShares, LeftFits
<1>4. /\ Queue(w, B, left, seq, n)
      /\ \A y \in B : \E j \in 1..n : seq[j].src = y
      /\ \A j \in 1..n : seq[j] = LotOf(w, seq[j].src, seq[j].rem)
      /\ FifoShares(w, B, S, left, taken)
      /\ \A t \in S : st.fills[t] = FillsFor(w, B, taken[t])
  BY DEF Staged, LotsTell
<1>5. \A j \in 1..n : seq[j].unit = UnitOf(w, seq[j].src)
  <2> HIDE DEF n, seq
  <2>1. \A j \in 1..n : LotOf(w, seq[j].src, seq[j].rem).unit = UnitOf(w, seq[j].src)
    BY DEF LotOf
  <2> QED BY <2>1, <1>4
<1>6. PICK held : QueueSold(w, B, left, seq, e.qty, held)
  BY <1>2, <1>3, <1>4, <1>5, SellFromQueue
<1> DEFINE took == [t \in Z |-> IF t = z THEN Taken(B, left, held) ELSE taken[t]]
<1>7. /\ Leaves(w, B, left, held, w[z].qty)
      /\ w[z].qty <= PartSum(left, B)
      /\ Shrunk(seq, after, n)
      /\ HeldAfter(B, seq, after, n, held)
      /\ new.fills[z] = FillsFor(w, B, Taken(B, left, held))
      /\ DOMAIN after = 1..n
  BY <1>2, <1>6 DEF QueueSold
<1>8. /\ held \in [B -> Nat] /\ \A b \in B : held[b] <= left[b]
  BY <1>7 DEF Leaves
<1>9. Taken(B, left, held) \in [B -> Nat]
      /\ \A b \in B : Taken(B, left, held)[b] = left[b] - held[b]
  BY <1>3, <1>8 DEF Taken
<1>10. took[z] = Taken(B, left, held) /\ \A t \in S : took[t] = taken[t]
  <2>1. \A t \in S : t \in Z /\ t # z
    BY DEF With
  <2> HIDE DEF z
  <2> QED BY <2>1, <1>1
<1> HIDE DEF took
<1>11. FifoShares(w, B, Z, held, took)
  <2>1. AllBefore(w, B \cup S, z)
    OBVIOUS
  <2>2. SellTook(B, S, z, left, held, taken, took)
    BY <1>9, <1>10 DEF SellTook
  <2> HIDE DEF z
  <2> QED BY <2>1, <2>2, <1>1, <1>4, <1>7, SellKeepsShares
<1>12. \A t \in Z : new.fills[t] = FillsFor(w, B, took[t])
  BY <1>1, <1>4, <1>7, <1>10
<1>13. n \in Nat /\ Len(after) = n
  BY <1>7
<1>14. ASSUME NEW j \in 1..n
       PROVE  /\ after[j].src = seq[j].src
              /\ after[j] = LotOf(w, after[j].src, after[j].rem)
  <2> HIDE DEF n, seq, after
  <2>1. seq[j] = LotOf(w, seq[j].src, seq[j].rem)
    BY <1>4
  <2>2. after[j] = WithRem(seq[j], after[j].rem)
    BY <1>7 DEF Shrunk
  <2> DEFINE k == after[j].rem
             a == seq[j].src
             l == seq[j].rem
  <2>3. after[j] = WithRem(LotOf(w, a, l), k)
    BY <2>1, <2>2
  <2> HIDE DEF k, a, l
  <2>4. WithRem(LotOf(w, a, l), k) = LotOf(w, a, k)
    BY DEF WithRem, LotOf
  <2>5. LotOf(w, a, k).src = a
    BY DEF LotOf
  <2> QED BY <2>3, <2>4, <2>5 DEF k, a
<1>15. LotsTell(w, B, held, after)
  <2> HIDE DEF n, seq, after
  <2>1. Queue(w, B, held, after, n)
    <3>1. \A j \in 1..n : after[j].src \in B /\ after[j].rem = held[after[j].src]
      BY <1>4, <1>7, <1>14 DEF Queue, HeldAfter
    <3>2. \A i, j \in 1..n : after[i].src = after[j].src => i = j
      BY <1>4, <1>14 DEF Queue
    <3>3. \A i, j \in 1..n : i < j => w[after[i].src].time <= w[after[j].src].time
      BY <1>4, <1>14 DEF Queue
    <3>4. \A b \in B : (\A j \in 1..n : after[j].src # b) => held[b] = 0
      BY <1>4, <1>14
    <3> QED BY <3>1, <3>2, <3>3, <3>4 DEF Queue
  <2>2. \A b \in B : \E j \in 1..n : after[j].src = b
    BY <1>4, <1>14
  <2> QED BY <2>1, <2>2, <1>13, <1>14 DEF LotsTell
<1>16. Staged(w, B, Z, new, held, took)
  BY <1>11, <1>12, <1>15 DEF Staged
<1> QED BY <1>16

\* The trades of one kind among the first i events.
OfKind(seq, kind, i) == {seq[j].id : j \in {k \in 1..i : seq[k].kind = kind}}

\* Before the first event nothing is left and nothing is taken.
LEMMA NothingIsStaged ==
  ASSUME NEW w, NEW st, st.lots = <<>>
  PROVE  \E left, taken : Staged(w, {}, {}, st, left, taken)
<1> DEFINE none == [x \in {} |-> 0]
<1>1. none \in [{} -> Nat] /\ Len(<<>>) = 0 /\ 1..0 = {}
  OBVIOUS
<1> HIDE DEF none
<1>2. LotsTell(w, {}, none, st.lots)
  BY <1>1 DEF LotsTell, Queue
<1>3. \A time, id \in Nat : Cut(w, {}, time, id) = {}
  BY DEF Cut
<1>4. Shares(w, {}) = 0 /\ PartSum(none, {}) = 0
  <2> DEFINE f == [t \in {} |-> w[t].qty]
             g == [t \in {} |-> none[t]]
  <2>1. f \in [{} -> Int] /\ DOMAIN f = {} /\ g \in [{} -> Int] /\ DOMAIN g = {}
    OBVIOUS
  <2> HIDE DEF f, g
  <2>2. SumFunction(f) = 0 /\ SumFunction(g) = 0
    BY <2>1, SumOfNone
  <2> QED BY <2>2 DEF Shares, PartSum, f, g
<1>5. FifoShares(w, {}, {}, none, none)
  <2>1. Covers(w, {}, {})
    <3>1. \A time, id \in Nat : Shares(w, Cut(w, {}, time, id)) = 0
      BY <1>3, <1>4
    <3> QED BY <3>1 DEF Covers
  <2>2. LeftFits(w, {}, {}, none)
    <3>1. 0 \in Nat /\ Monus(0, 0) = 0
      BY DEF Monus
    <3>2. \A time \in Nat :
            PartSum(none, Cut(w, {}, time, 0))
              = Monus(Shares(w, Cut(w, {}, time, 0)), Shares(w, {}))
      BY <3>1, <1>3, <1>4
    <3> QED BY <3>2, <1>1 DEF LeftFits
  <2> QED BY <2>1, <2>2 DEF FifoShares
<1>6. Staged(w, {}, {}, st, none, none)
  BY <1>2, <1>5 DEF Staged
<1> QED BY <1>6

\* One event more.
LEMMA BuyEventIsStaged ==
  ASSUME NEW w, NEW trades, AreTrades(trades), NEW e \in Events(trades, {}),
         e.kind = "buy", TellsTrade(w, e), NEW st \in ReplayStates(trades),
         NEW B, NEW S, NEW C, With(C, B, e.id), e.id \notin S,
         TradesFit(w, C \cup S), AllBefore(w, B \cup S, e.id),
         \E left, taken : Staged(w, B, S, st, left, taken)
  PROVE  \E left, taken : Staged(w, C, S, ReplayEvent(st, e), left, taken)
<1> DEFINE lot == [src |-> e.id, orig |-> e.qty, rem |-> e.qty,
                   unit |-> e.amount \div e.qty, openedAt |-> e.time]
           opened == IF SumOpenQuantity(st.lots) = 0 THEN e.time ELSE st.openedAt
           new == ReplayEvent(st, e)
<1>1. /\ st.lots \in Seq(LotStates) /\ st.fills \in [SellIds(trades) -> SUBSET Fills]
  BY DEF ReplayStates
<1>2. new = [st EXCEPT !.lots = Append(st.lots, lot), !.openedAt = opened]
  BY DEF ReplayEvent, ReplayBuy
<1>3. lot = LotOf(w, e.id, e.qty)
  BY DEF LotOf, UnitOf, TellsTrade
<1> HIDE DEF lot, opened, new
<1>4. new.lots = Append(st.lots, LotOf(w, e.id, e.qty)) /\ new.fills = st.fills
  BY <1>2, <1>3 DEF ReplayStates
<1>5. PICK left, taken : Staged(w, B, S, st, left, taken)
  OBVIOUS
<1> QED BY <1>1, <1>4, <1>5, BuyIsStaged DEF new

\* A sell event of the timeline of a replay adds its trade to the stage.
LEMMA SellEventIsStaged ==
  ASSUME NEW w, NEW trades, AreTrades(trades), NEW e \in Events(trades, {}),
         e.kind = "sell", TellsTrade(w, e), NEW st \in ReplayStates(trades),
         NEW B, NEW S, S \subseteq SellIds(trades), NEW Z, With(Z, S, e.id),
         e.id \notin B, TradesFit(w, B \cup Z), AllBefore(w, B \cup S, e.id),
         \E left, taken : Staged(w, B, S, st, left, taken),
         ReplayEvent(st, e).ok
  PROVE  \E left, taken : Staged(w, B, Z, ReplayEvent(st, e), left, taken)
<1> DEFINE consumed == Consume(st.lots, e.qty)
           new == ReplayEvent(st, e)
<1>0. AreActions({})
  BY FS_EmptySet DEF AreActions
<1>1. /\ st.lots \in Seq(LotStates) /\ st.fills \in [SellIds(trades) -> SUBSET Fills]
      /\ st.ok \in BOOLEAN
  BY DEF ReplayStates
<1>2. new = [st EXCEPT !.lots = consumed.lots,
                       !.fills = [st.fills EXCEPT ![e.id] = consumed.fills],
                       !.ok = st.ok /\ consumed.toSell = 0]
  BY DEF ReplayEvent, ReplaySell
<1>3. new \in ReplayStates(trades)
  BY <1>0, ReplayEventTypes
<1>4. e.id \in SellIds(trades) /\ e.id \notin S
  BY <1>0, EventTypes DEF SellIds, With
<1> HIDE DEF consumed
<1>5. /\ new.lots = consumed.lots /\ new.ok = (st.ok /\ consumed.toSell = 0)
      /\ new.fills = [st.fills EXCEPT ![e.id] = consumed.fills]
  <2> HIDE DEF new
  <2> QED BY <1>2 DEF ReplayStates
<1>6. /\ new.fills[e.id] = consumed.fills
      /\ \A t \in S : new.fills[t] = st.fills[t]
  BY <1>1, <1>4, <1>5
<1>7. new.lots \in Seq(LotStates)
  BY <1>3 DEF ReplayStates
<1>8. consumed.toSell = 0
  BY <1>5
<1>9. PICK left, taken : Staged(w, B, S, st, left, taken)
  OBVIOUS
<1>10. SoldTo(st, e, S, new)
  BY <1>5, <1>6, <1>8 DEF SoldTo, consumed
<1> HIDE DEF new
<1> QED BY <1>1, <1>7, <1>9, <1>10, LotStatesAreLots, SellIsStaged DEF new

\* An event adds its trade to those of its kind.
LEMMA OneMoreOfKind ==
  ASSUME NEW seq, TradesDiffer(seq), NEW i \in Nat, i # 0, 1..i \subseteq DOMAIN seq,
         \A j \in 1..i : seq[j].kind \in {"buy", "sell"}, NEW kind
  PROVE  /\ seq[i].id \notin OfKind(seq, kind, i - 1)
         /\ seq[i].kind = kind =>
              With(OfKind(seq, kind, i), OfKind(seq, kind, i - 1), seq[i].id)
         /\ seq[i].kind # kind => OfKind(seq, kind, i) = OfKind(seq, kind, i - 1)
<1>1. i \in 1..i /\ \A j \in 1..i : j \in 1..(i - 1) \/ j = i
  OBVIOUS
<1>2. \A j \in 1..(i - 1) : j \in 1..i /\ j # i
  OBVIOUS
<1>3. \A j \in 1..(i - 1) : seq[j].id # seq[i].id
  BY <1>1, <1>2 DEF TradesDiffer
<1>4. seq[i].id \notin OfKind(seq, kind, i - 1)
  BY <1>3 DEF OfKind
<1>5. OfKind(seq, kind, i - 1) \subseteq OfKind(seq, kind, i)
  BY <1>2 DEF OfKind
<1>6. ASSUME NEW x \in OfKind(seq, kind, i), x \notin OfKind(seq, kind, i - 1)
      PROVE  x = seq[i].id /\ seq[i].kind = kind
  <2>1. PICK j \in 1..i : seq[j].kind = kind /\ x = seq[j].id
    BY <1>6 DEF OfKind
  <2>2. j \notin 1..(i - 1)
    BY <2>1, <1>6 DEF OfKind
  <2> QED BY <2>1, <2>2, <1>1
<1>7. seq[i].kind = kind => seq[i].id \in OfKind(seq, kind, i)
  BY <1>1 DEF OfKind
<1>8. seq[i].kind = kind =>
        OfKind(seq, kind, i) = OfKind(seq, kind, i - 1) \cup {seq[i].id}
  BY <1>5, <1>6, <1>7
<1>9. seq[i].kind # kind => OfKind(seq, kind, i) = OfKind(seq, kind, i - 1)
  BY <1>5, <1>6
<1> QED BY <1>4, <1>8, <1>9 DEF With

\* The rows of a table that trades were read from.
ReadFrom(w, trades) ==
  \A x \in trades :
    w[x.id].qty = x.qty /\ w[x.id].amount = x.amount /\ w[x.id].time = x.time

IdsOf(trades, kind) == {x.id : x \in {y \in trades : y.type = kind}}

\* The events of a timeline without splits tell their trades.
LEMMA TradeEventsTell ==
  ASSUME NEW trades, AreTrades(trades), NEW w, ReadFrom(w, trades),
         NEW e \in Events(trades, {})
  PROVE  /\ TellsTrade(w, e) /\ e.kind \in {"buy", "sell"} /\ e.priority = 1
         /\ e.id \in Nat /\ e.time \in Nat /\ e.qty \in Nat
         /\ e.id \in {x.id : x \in trades} /\ e.id \in IdsOf(trades, e.kind)
<1>1. PICK y \in trades :
        e = [kind |-> y.type, time |-> y.time, priority |-> 1, id |-> y.id,
             qty |-> y.qty, amount |-> y.amount]
  BY DEF Events, SplitEvents, TradeEvents
<1>2. /\ e.kind = y.type /\ e.time = y.time /\ e.priority = 1 /\ e.id = y.id
      /\ e.qty = y.qty /\ e.amount = y.amount
  BY <1>1
<1>3. /\ y.id \in Nat /\ y.time \in Nat /\ y.type \in {"buy", "sell"} /\ y.qty \in Nat
      /\ w[y.id].qty = y.qty /\ w[y.id].amount = y.amount /\ w[y.id].time = y.time
  BY DEF AreTrades, ReadFrom
<1> QED BY <1>2, <1>3 DEF TellsTrade, IdsOf

\* Trades of a scope can be put in order.
LEMMA TradesOfScopeFit ==
  ASSUME NEW trades, AreTrades(trades), NEW w, ReadFrom(w, trades),
         NEW T \in SUBSET {x.id : x \in trades}
  PROVE  TradesFit(w, T)
<1> DEFINE p == [x \in trades |-> x.id]
<1>1. IsFiniteSet(trades)
  BY DEF AreTrades
<1>2. IsFiniteSet({p[x] : x \in trades})
  <2>1. DOMAIN p = trades /\ p = [x \in trades |-> p[x]]
    OBVIOUS
  <2> HIDE DEF p
  <2> QED BY <1>1, <2>1, FewValues
<1>3. {p[x] : x \in trades} = {x.id : x \in trades}
  OBVIOUS
<1>4. IsFiniteSet(T)
  BY <1>2, <1>3, FS_Subset
<1>5. \A t \in T : t \in Nat /\ w[t].qty \in Nat /\ w[t].time \in Nat
  BY DEF AreTrades, ReadFrom
<1> QED BY <1>4, <1>5 DEF TradesFit

\* The trades of the first events precede the next event.
LEMMA EventsComeInOrder ==
  ASSUME NEW trades, AreTrades(trades), NEW w, ReadFrom(w, trades),
         NEW seq, NEW i \in Nat, i # 0,
         \A j \in 1..i : seq[j] \in Events(trades, {}),
         \A j \in 1..(i - 1) : Earlier(seq[j], seq[i]), NEW a, NEW b
  PROVE  AllBefore(w, OfKind(seq, a, i - 1) \cup OfKind(seq, b, i - 1), seq[i].id)
<1> SUFFICES ASSUME NEW t \in OfKind(seq, a, i - 1) \cup OfKind(seq, b, i - 1)
             PROVE  w[t].time < w[seq[i].id].time
                      \/ (w[t].time = w[seq[i].id].time /\ t < seq[i].id)
  BY DEF AllBefore, Before, Cut
<1>1. PICK j \in 1..(i - 1) : t = seq[j].id
  BY DEF OfKind
<1>2. j \in 1..i /\ i \in 1..i
  OBVIOUS
<1>3. /\ TellsTrade(w, seq[j]) /\ TellsTrade(w, seq[i])
      /\ seq[i].priority = 1 /\ seq[j].priority = 1
      /\ seq[i].time \in Nat /\ seq[j].time \in Nat
  BY <1>2, TradeEventsTell
<1>4. Earlier(seq[j], seq[i])
  OBVIOUS
<1> QED BY <1>1, <1>3, <1>4 DEF Earlier, TellsTrade

StagedUpTo(w, seq, i, st) ==
  \E left, taken :
    Staged(w, OfKind(seq, "buy", i), OfKind(seq, "sell", i), st, left, taken)

\* An event keeps a feasible replay feasible or ends it.
LEMMA FeasibleBefore ==
  ASSUME NEW trades, NEW st \in ReplayStates(trades), NEW e,
         e.kind \in {"buy", "sell"}, ReplayEvent(st, e).ok
  PROVE  st.ok
<1>1. CASE e.kind = "buy"
  <2>1. ReplayEvent(st, e) = ReplayBuy(st, e)
    BY <1>1 DEF ReplayEvent
  <2>2. ReplayBuy(st, e).ok = st.ok
    BY DEF ReplayBuy, ReplayStates
  <2> QED BY <2>1, <2>2
<1>2. CASE e.kind = "sell"
  <2> DEFINE consumed == Consume(st.lots, e.qty)
             fills == [st.fills EXCEPT ![e.id] = consumed.fills]
  <2>1. ReplayEvent(st, e) = [st EXCEPT !.lots = consumed.lots, !.fills = fills,
                                        !.ok = st.ok /\ consumed.toSell = 0]
    BY <1>2 DEF ReplayEvent, ReplaySell
  <2> HIDE DEF consumed, fills
  <2>2. ReplayEvent(st, e).ok = (st.ok /\ consumed.toSell = 0)
    BY <2>1 DEF ReplayStates
  <2> QED BY <2>2
<1> QED BY <1>1, <1>2

\* A feasible replay of trades is first in, first out.
LEMMA ReplayIsStaged ==
  ASSUME NEW trades, AreTrades(trades), NEW w, ReadFrom(w, trades),
         ReplayScopeLedger(trades, {}).ok
  PROVE  \E left, taken :
           Staged(w, IdsOf(trades, "buy"), IdsOf(trades, "sell"),
                  ReplayScopeLedger(trades, {}), left, taken)
<1> DEFINE seq == BuildTimeline(trades, {})
           n == Len(seq)
           L == ReplayScopeLedger(trades, {})
<1>0. AreActions({})
  BY FS_EmptySet DEF AreActions
<1>1. /\ seq \in Seq(Events(trades, {})) /\ TradesDiffer(seq)
      /\ \A i, j \in 1..n : i < j => Earlier(seq[i], seq[j])
      /\ \A e \in Events(trades, {}) : \E i \in 1..n : seq[i] = e
  BY <1>0, TimelineIsComplete, TimelineTradesDiffer
<1>2. PICK r \in [0..n -> ReplayStates(trades)] : ReplayRun(r, trades, {})
  BY <1>0, ReplayRuns
<1>3. /\ r[0] = EmptyReplay(trades)
      /\ \A i \in 1..n : r[i] = ReplayEvent(r[i - 1], seq[i])
      /\ L = r[n]
  BY <1>2 DEF ReplayRun
<1>4. n \in Nat /\ DOMAIN seq = 1..n /\ \A i \in 1..n : seq[i] \in Events(trades, {})
  BY <1>1
<1> HIDE DEF seq, n, L
<1> DEFINE A == {i \in 0..n : r[i].ok => StagedUpTo(w, seq, i, r[i])}
<1>5. 0 \in A
  <2>1. r[0].lots = <<>>
    BY <1>3 DEF EmptyReplay
  <2>2. \A kind : OfKind(seq, kind, 0) = {}
    BY DEF OfKind
  <2>3. StagedUpTo(w, seq, 0, r[0])
    BY <2>1, <2>2, NothingIsStaged DEF StagedUpTo
  <2> QED BY <2>3, <1>4
<1>6. ASSUME NEW i \in 1..n, i - 1 \in A
      PROVE  i \in A
  <2>1. /\ i \in Nat /\ i # 0 /\ i \in 0..n /\ i - 1 \in 0..n /\ 1..i \subseteq 1..n
        /\ i \in 1..i /\ 1..(i - 1) \subseteq 1..n /\ \A j \in 1..(i - 1) : j < i
        /\ 1..(i - 1) \subseteq 1..i
    BY <1>4
  <2> SUFFICES ASSUME r[i].ok
               PROVE  StagedUpTo(w, seq, i, r[i])
    BY <2>1
  <2> DEFINE st == r[i - 1]
             e == seq[i]
             B(k) == OfKind(seq, "buy", k)
             S(k) == OfKind(seq, "sell", k)
  <2>2. st \in ReplayStates(trades) /\ r[i] = ReplayEvent(st, e)
    BY <1>3, <2>1
  <2>3. \A j \in 1..i : seq[j] \in Events(trades, {})
    BY <1>4, <2>1
  <2>4. \A j \in 1..i : seq[j].kind \in {"buy", "sell"} /\ seq[j].id \in {x.id : x \in trades}
    BY <2>3, TradeEventsTell
  <2>5. e \in Events(trades, {}) /\ TellsTrade(w, e) /\ e.kind \in {"buy", "sell"}
    BY <2>1, <2>3, TradeEventsTell
  <2>6. st.ok
    BY <2>2, <2>5, FeasibleBefore
  <2>7. StagedUpTo(w, seq, i - 1, st)
    BY <1>6, <2>6
  <2>8. \A j \in 1..(i - 1) : Earlier(seq[j], seq[i])
    BY <1>1, <2>1
  <2>9. AllBefore(w, B(i - 1) \cup S(i - 1), e.id)
    BY <2>1, <2>3, <2>8, EventsComeInOrder
  <2>10. TradesFit(w, B(i) \cup S(i))
    <3>1. B(i) \cup S(i) \in SUBSET {x.id : x \in trades}
      BY <2>4 DEF OfKind
    <3> QED BY <3>1, TradesOfScopeFit
  <2>11. S(i - 1) \subseteq SellIds(trades)
    <3>1. \A j \in 1..i : seq[j].id \in IdsOf(trades, seq[j].kind)
      BY <2>3, TradeEventsTell
    <3>2. IdsOf(trades, "sell") = SellIds(trades)
      BY DEF IdsOf, SellIds
    <3> QED BY <2>1, <3>1, <3>2 DEF OfKind
  <2>12. \A kind :
           /\ e.id \notin OfKind(seq, kind, i - 1)
           /\ e.kind = kind =>
                With(OfKind(seq, kind, i), OfKind(seq, kind, i - 1), e.id)
           /\ e.kind # kind => OfKind(seq, kind, i) = OfKind(seq, kind, i - 1)
    BY <1>1, <1>4, <2>1, <2>4, OneMoreOfKind
  <2>13. \E left, taken : Staged(w, B(i - 1), S(i - 1), st, left, taken)
    BY <2>7 DEF StagedUpTo
  <2>14. CASE e.kind = "buy"
    <3>1. With(B(i), B(i - 1), e.id) /\ S(i) = S(i - 1) /\ e.id \notin S(i - 1)
      BY <2>12, <2>14
    <3>2. TradesFit(w, B(i) \cup S(i - 1))
      BY <3>1, <2>10
    <3> HIDE DEF e, st, B, S
    <3>3. \E left, taken : Staged(w, B(i), S(i - 1), ReplayEvent(st, e), left, taken)
      BY <3>1, <3>2, <2>2, <2>5, <2>9, <2>13, <2>14, BuyEventIsStaged
    <3> QED BY <3>1, <3>3, <2>2 DEF StagedUpTo, B, S
  <2>15. CASE e.kind = "sell"
    <3>1. With(S(i), S(i - 1), e.id) /\ B(i) = B(i - 1) /\ e.id \notin B(i - 1)
      BY <2>12, <2>15
    <3>2. TradesFit(w, B(i - 1) \cup S(i))
      BY <3>1, <2>10
    <3>3. ReplayEvent(st, e).ok
      BY <2>2
    <3> HIDE DEF e, st, B, S
    <3>4. \E left, taken : Staged(w, B(i - 1), S(i), ReplayEvent(st, e), left, taken)
      BY <3>1, <3>2, <3>3, <2>2, <2>5, <2>9, <2>11, <2>13, <2>15, SellEventIsStaged
    <3> QED BY <3>1, <3>4, <2>2 DEF StagedUpTo, B, S
  <2> QED BY <2>5, <2>14, <2>15
<1>7. n \in A
  <2> HIDE DEF A
  <2>1. 0..n \subseteq A
    BY <1>4, <1>5, <1>6, PlaceByPlace
  <2> QED BY <2>1, <1>4
<1>8. StagedUpTo(w, seq, n, L)
  BY <1>3, <1>7 DEF L
<1>9. ASSUME NEW kind
      PROVE  OfKind(seq, kind, n) = IdsOf(trades, kind)
  <2>1. ASSUME NEW t \in OfKind(seq, kind, n)
        PROVE  t \in IdsOf(trades, kind)
    <3>1. PICK j \in 1..n : seq[j].kind = kind /\ t = seq[j].id
      BY <2>1 DEF OfKind
    <3> QED BY <3>1, <1>4, TradeEventsTell
  <2>2. ASSUME NEW t \in IdsOf(trades, kind)
        PROVE  t \in OfKind(seq, kind, n)
    <3>1. PICK x \in trades : x.type = kind /\ t = x.id
      BY <2>2 DEF IdsOf
    <3> DEFINE e == [kind |-> x.type, time |-> x.time, priority |-> 1, id |-> x.id,
                     qty |-> x.qty, amount |-> x.amount]
    <3>2. e \in Events(trades, {})
      BY DEF Events, TradeEvents
    <3>3. e.kind = kind /\ e.id = t
      BY <3>1
    <3> HIDE DEF e
    <3>4. PICK j \in 1..n : seq[j] = e
      BY <3>2, <1>1
    <3> QED BY <3>3, <3>4 DEF OfKind
  <2> QED BY <2>1, <2>2
<1> QED BY <1>8, <1>9 DEF StagedUpTo, L

-----------------------------------------------------------------------------
(***************************************************************************)
(* The lots and matches of a scope tell such a book: after rebuildScopes, and*)
(* when nothing of the scope has changed.                                  *)
(***************************************************************************)
\* The lots and matches of a scope tell a book that is first in, first out.
BookTells(w, s, held, rows, left, taken) ==
  /\ held = {LotRow(s, LotOf(w, b, left[b])) : b \in LiveBuys(w, s)}
  /\ \A e \in LiveSells(w, s) :
       MatchesOf(e, rows)
         = {MatchRow(s, e, f) : f \in FillsFor(w, LiveBuys(w, s), taken[e])}
  /\ FifoShares(w, LiveBuys(w, s), LiveSells(w, s), left, taken)

FifoScope(s) == \E left, taken : BookTells(tx, s, LotsOf(s), matches, left, taken)

\* A queue that tells all lots tells their rows.
LEMMA RowsOfQueue ==
  ASSUME NEW w, NEW B, NEW left, NEW seq, NEW E, seq \in Seq(E),
         LotsTell(w, B, left, seq), NEW s
  PROVE  RowsOf(s, seq) = {LotRow(s, LotOf(w, b, left[b])) : b \in B}
<1> DEFINE n == Len(seq)
<1>1. DOMAIN seq = 1..n
  OBVIOUS
<1>2. ASSUME NEW j \in 1..n
      PROVE  seq[j].src \in B /\ seq[j] = LotOf(w, seq[j].src, left[seq[j].src])
  <2>1. seq[j].src \in B /\ seq[j].rem = left[seq[j].src]
    BY DEF LotsTell, Queue
  <2>2. seq[j] = LotOf(w, seq[j].src, seq[j].rem)
    BY DEF LotsTell
  <2> HIDE DEF n
  <2> QED BY <2>1, <2>2
<1>3. \A b \in B : \E j \in 1..n : seq[j].src = b
  BY DEF LotsTell
<1> HIDE DEF n
<1>4. ASSUME NEW x \in RowsOf(s, seq)
      PROVE  x \in {LotRow(s, LotOf(w, b, left[b])) : b \in B}
  <2>1. PICK j \in 1..n : x = LotRow(s, seq[j])
    BY <1>1, <1>4 DEF RowsOf
  <2>2. seq[j].src \in B /\ x = LotRow(s, LotOf(w, seq[j].src, left[seq[j].src]))
    BY <1>2, <2>1
  <2> QED BY <2>2
<1>5. ASSUME NEW b \in B
      PROVE  LotRow(s, LotOf(w, b, left[b])) \in RowsOf(s, seq)
  <2>1. PICK j \in 1..n : seq[j].src = b
    BY <1>3
  <2>2. LotRow(s, seq[j]) = LotRow(s, LotOf(w, b, left[b]))
    BY <1>2, <2>1
  <2> QED BY <2>1, <2>2, <1>1 DEF RowsOf
<1> QED BY <1>4, <1>5

\* The trades that a replay of a scope reads are its live buys and sells.
LEMMA TradesOfScope ==
  ASSUME NEW w, TableFits(w), NEW s \in Scopes
  PROVE  /\ ReadFrom(w, ReplayTransactions(w, s))
         /\ IdsOf(ReplayTransactions(w, s), "buy") = LiveBuys(w, s)
         /\ IdsOf(ReplayTransactions(w, s), "sell") = LiveSells(w, s)
         /\ LiveTrades(w, s) = {x.id : x \in ReplayTransactions(w, s)}
<1> DEFINE row(t) == [id |-> t, type |-> w[t].type, time |-> w[t].time,
                      qty |-> w[t].qty, amount |-> w[t].amount]
<1>1. ReplayTransactions(w, s) = {row(t) : t \in LiveTrades(w, s)}
  BY DEF ReplayTransactions
<1>2. \A t : /\ row(t).id = t /\ row(t).type = w[t].type /\ row(t).time = w[t].time
             /\ row(t).qty = w[t].qty /\ row(t).amount = w[t].amount
  OBVIOUS
<1> HIDE DEF row
<1>3. \A t \in LiveTrades(w, s) : w[t].type \in {"buy", "sell"}
  BY DEF LiveTrades, ScopedIds, ScopesOf
<1>4. ReadFrom(w, ReplayTransactions(w, s))
  BY <1>1, <1>2 DEF ReadFrom
<1>5. \A kind, t : t \in IdsOf(ReplayTransactions(w, s), kind)
                     <=> t \in LiveTrades(w, s) /\ w[t].type = kind
  <2> TAKE kind, t
  <2>1. ASSUME t \in IdsOf(ReplayTransactions(w, s), kind)
        PROVE  t \in LiveTrades(w, s) /\ w[t].type = kind
    <3>1. PICK x \in ReplayTransactions(w, s) : x.type = kind /\ t = x.id
      BY <2>1 DEF IdsOf
    <3>2. PICK u \in LiveTrades(w, s) : x = row(u)
      BY <3>1, <1>1
    <3> QED BY <3>1, <3>2, <1>2
  <2>2. ASSUME t \in LiveTrades(w, s) /\ w[t].type = kind
        PROVE  t \in IdsOf(ReplayTransactions(w, s), kind)
    <3>1. row(t) \in ReplayTransactions(w, s) /\ row(t).type = kind /\ row(t).id = t
      BY <2>2, <1>1, <1>2
    <3> QED BY <3>1 DEF IdsOf
  <2> QED BY <2>1, <2>2
<1>6. \A t : t \in LiveSells(w, s) <=> t \in LiveTrades(w, s) /\ w[t].type = "sell"
  BY DEF LiveSells
<1>7. \A t : t \in LiveBuys(w, s) <=> t \in LiveTrades(w, s) /\ w[t].type = "buy"
  BY <1>3, <1>6 DEF LiveBuys
<1>8. LiveTrades(w, s) = {x.id : x \in ReplayTransactions(w, s)}
  <2>1. ASSUME NEW t \in LiveTrades(w, s)
        PROVE  t \in {x.id : x \in ReplayTransactions(w, s)}
    <3>1. row(t) \in ReplayTransactions(w, s) /\ row(t).id = t
      BY <1>1, <1>2
    <3> QED BY <3>1
  <2>2. ASSUME NEW x \in ReplayTransactions(w, s)
        PROVE  x.id \in LiveTrades(w, s)
    BY <1>1, <1>2
  <2> QED BY <2>1, <2>2
<1> QED BY <1>4, <1>5, <1>6, <1>7, <1>8

\* The trades of a scope can be put in order.
LEMMA ScopeFits ==
  ASSUME NEW w, TableFits(w), NEW s \in Scopes
  PROVE  /\ TradesFit(w, LiveTrades(w, s))
         /\ LiveBuys(w, s) \cup LiveSells(w, s) = LiveTrades(w, s)
         /\ LiveBuys(w, s) \cap LiveSells(w, s) = {}
<1>1. AreTrades(ReplayTransactions(w, s)) /\ ReadFrom(w, ReplayTransactions(w, s))
  BY ScopeTrades, TradesOfScope
<1>2. LiveTrades(w, s) \in SUBSET {x.id : x \in ReplayTransactions(w, s)}
  BY TradesOfScope
<1>3. TradesFit(w, LiveTrades(w, s))
  BY <1>1, <1>2, TradesOfScopeFit
<1> QED BY <1>3 DEF LiveBuys, LiveSells

\* A rebuilt scope is first in, first out.
LEMMA RebuiltIsFifo ==
  ASSUME NEW S \in SUBSET Scopes, TableFits(tx'), SplitsFit, splits = {},
         RebuildScopes(S), NEW s \in S
  PROVE  FifoScope(s)'
<1> DEFINE trades == ReplayTransactions(tx', s)
           L == Replay(tx', s)
<1>1. /\ AreTrades(trades) /\ ReadFrom(tx', trades)
      /\ IdsOf(trades, "buy") = LiveBuys(tx', s)
      /\ IdsOf(trades, "sell") = LiveSells(tx', s)
  BY ScopeTrades, TradesOfScope
<1>2. L = ReplayScopeLedger(trades, {})
  <2>1. CorporateActions(s) = {}
    BY DEF CorporateActions
  <2> QED BY <2>1 DEF Replay
<1>3. /\ L.ok /\ L.lots \in Seq(LotStates)
      /\ {l \in lots' : l.scope = s} = RowsOf(s, L.lots)
  BY RebuiltScope DEF ScopeReplayed
<1>4. \A u \in LiveSells(tx', s) :
        MatchesOf(u, matches') = {MatchRow(s, u, f) : f \in L.fills[u]}
  BY RebuiltMatches
<1> HIDE DEF trades, L
<1>5. PICK left, taken : Staged(tx', LiveBuys(tx', s), LiveSells(tx', s), L, left, taken)
  <2>1. \E left, taken :
          Staged(tx', IdsOf(trades, "buy"), IdsOf(trades, "sell"),
                 ReplayScopeLedger(trades, {}), left, taken)
    <3>1. ReplayScopeLedger(trades, {}).ok
      BY <1>2, <1>3
    <3> QED BY <3>1, <1>1, ReplayIsStaged
  <2> QED BY <2>1, <1>1, <1>2
<1>6. /\ LotsTell(tx', LiveBuys(tx', s), left, L.lots)
      /\ FifoShares(tx', LiveBuys(tx', s), LiveSells(tx', s), left, taken)
      /\ \A e \in LiveSells(tx', s) : L.fills[e] = FillsFor(tx', LiveBuys(tx', s), taken[e])
  BY <1>5 DEF Staged
<1>7. RowsOf(s, L.lots)
        = {LotRow(s, LotOf(tx', b, left[b])) : b \in LiveBuys(tx', s)}
  BY <1>3, <1>6, RowsOfQueue
<1>8. LotsOf(s)' = {l \in lots' : l.scope = s}
  BY DEF LotsOf
<1>9. BookTells(tx', s, LotsOf(s)', matches', left, taken)
  BY <1>3, <1>4, <1>6, <1>7, <1>8 DEF BookTells
<1> QED BY <1>9 DEF FifoScope

\* The two tables have the same rows for the trades of T.
SameRows(v, w, T) == \A t \in T : v[t] = w[t]

\* A scope is as it was when its rows are.
LEMMA SharesCarryOver ==
  ASSUME NEW w, NEW v, NEW B, NEW S, SameRows(v, w, B \cup S),
         NEW left, NEW taken, FifoShares(w, B, S, left, taken)
  PROVE  FifoShares(v, B, S, left, taken)
<1>1. ASSUME NEW T \in SUBSET (B \cup S), NEW time, NEW id
      PROVE  Cut(v, T, time, id) = Cut(w, T, time, id)
  <2>1. \A t \in T : v[t] = w[t]
    BY DEF SameRows
  <2> QED BY <2>1 DEF Cut
<1>2. ASSUME NEW T \in SUBSET (B \cup S)
      PROVE  Shares(v, T) = Shares(w, T)
  <2>1. \A t \in T : v[t] = w[t]
    BY DEF SameRows
  <2>2. [t \in T |-> v[t].qty] = [t \in T |-> w[t].qty]
    BY <2>1
  <2> QED BY <2>2 DEF Shares
<1>3. B \in SUBSET (B \cup S) /\ S \in SUBSET (B \cup S)
  OBVIOUS
<1>4. ASSUME NEW time, NEW id
      PROVE  /\ Cut(v, B, time, id) = Cut(w, B, time, id)
             /\ Cut(v, S, time, id) = Cut(w, S, time, id)
             /\ Shares(v, Cut(v, B, time, id)) = Shares(w, Cut(w, B, time, id))
             /\ Shares(v, Cut(v, S, time, id)) = Shares(w, Cut(w, S, time, id))
  <2>1. /\ Cut(v, B, time, id) = Cut(w, B, time, id)
        /\ Cut(v, S, time, id) = Cut(w, S, time, id)
    BY <1>1, <1>3
  <2>2. /\ Cut(w, B, time, id) \in SUBSET (B \cup S)
        /\ Cut(w, S, time, id) \in SUBSET (B \cup S)
    BY DEF Cut
  <2> QED BY <2>1, <2>2, <1>2
<1>5. Covers(v, B, S)
  BY <1>4 DEF FifoShares, Covers
<1>6. LeftFits(v, B, S, left)
  BY <1>2, <1>3, <1>4 DEF FifoShares, LeftFits
<1>7. ASSUME NEW e \in S
      PROVE  TakenFits(v, B, S, e, taken[e])
  <2>1. v[e] = w[e]
    BY DEF SameRows
  <2>2. Before(v, S, e) = Before(w, S, e)
        /\ Shares(v, Before(v, S, e)) = Shares(w, Before(w, S, e))
    BY <2>1, <1>4 DEF Before
  <2>3. TakenFits(w, B, S, e, taken[e])
    BY DEF FifoShares
  <2> QED BY <2>1, <2>2, <2>3, <1>4 DEF TakenFits
<1> QED BY <1>5, <1>6, <1>7 DEF FifoShares

\* The fills of buys whose rows stay the same stay the same.
LEMMA FillsCarryOver ==
  ASSUME NEW w, NEW v, NEW B, SameRows(v, w, B), NEW taken
  PROVE  FillsFor(v, B, taken) = FillsFor(w, B, taken)
<1>1. \A b \in B : UnitOf(v, b) = UnitOf(w, b)
  BY DEF SameRows, UnitOf
<1> QED BY <1>1 DEF FillsFor

\* A scope with the same trades, lots and matches.
LEMMA KeptIsFifo ==
  ASSUME NEW s \in Scopes, FifoScope(s),
         LiveTrades(tx', s) = LiveTrades(tx, s),
         SameRows(tx', tx, LiveTrades(tx, s)),
         \A u \in LiveSells(tx, s) : MatchesOf(u, matches') = MatchesOf(u, matches),
         LotsOf(s)' = LotsOf(s)
  PROVE  FifoScope(s)'
<1> DEFINE B == LiveBuys(tx, s)
           S == LiveSells(tx, s)
<1>1. S = LiveSells(tx', s) /\ B = LiveBuys(tx', s)
      /\ B \subseteq LiveTrades(tx, s) /\ S \subseteq LiveTrades(tx, s)
  <2>1. S = LiveSells(tx', s)
    BY DEF LiveSells, SameRows
  <2> QED BY <2>1 DEF LiveBuys, LiveSells
<1>2. SameRows(tx', tx, B) /\ SameRows(tx', tx, B \cup S)
  BY <1>1 DEF SameRows
<1>3. PICK left, taken : BookTells(tx, s, LotsOf(s), matches, left, taken)
  BY DEF FifoScope
<1>4. /\ LotsOf(s) = {LotRow(s, LotOf(tx, b, left[b])) : b \in B}
      /\ \A e \in S :
           MatchesOf(e, matches) = {MatchRow(s, e, f) : f \in FillsFor(tx, B, taken[e])}
      /\ FifoShares(tx, B, S, left, taken)
  BY <1>3 DEF BookTells
<1> HIDE DEF B, S
<1>5. FifoShares(tx', B, S, left, taken)
  BY <1>2, <1>4, SharesCarryOver
<1>6. \A e \in S :
        MatchesOf(e, matches') = {MatchRow(s, e, f) : f \in FillsFor(tx', B, taken[e])}
  <2>1. \A e \in S : FillsFor(tx', B, taken[e]) = FillsFor(tx, B, taken[e])
    BY <1>2, FillsCarryOver
  <2>2. \A e \in S : MatchesOf(e, matches') = MatchesOf(e, matches)
    BY DEF S
  <2> QED BY <2>1, <2>2, <1>4
<1>7. LotsOf(s)' = {LotRow(s, LotOf(tx', b, left[b])) : b \in B}
  <2>1. \A b \in B : LotOf(tx', b, left[b]) = LotOf(tx, b, left[b])
    BY <1>2 DEF LotOf, UnitOf, SameRows
  <2> QED BY <2>1, <1>4
<1>8. BookTells(tx', s, LotsOf(s)', matches', left, taken)
  BY <1>1, <1>5, <1>6, <1>7 DEF BookTells
<1> QED BY <1>8 DEF FifoScope

(***************************************************************************)
(* The inductive invariant.                                                *)
(***************************************************************************)
FifoInv ==
  /\ BookInv
  /\ splits = {}
  /\ \A s \in Scopes : FifoScope(s)

\* rebuildScopes leaves every scope first in, first out.
LEMMA RebuildKeepsFifo ==
  ASSUME FifoInv, NEW S \in SUBSET Scopes, IsFiniteSet(S),
         RowChanges(S), UNCHANGED splits, RebuildScopes(S)
  PROVE  FifoInv'
<1>1. BookInv' /\ splits' = {} /\ splits = {} /\ BookInv
  BY RebuildKeepsBook DEF FifoInv
<1>2. ASSUME NEW s \in Scopes
      PROVE  FifoScope(s)'
  <2>1. CASE s \in S
    <3>1. TableFits(tx') /\ SplitsFit
      BY <1>1 DEF RowChanges, BookInv
    <3> QED BY <3>1, <2>1, <1>1, RebuiltIsFifo
  <2>2. CASE s \notin S
    <3>1. /\ LiveTrades(tx', s) = LiveTrades(tx, s)
          /\ LiveSells(tx', s) = LiveSells(tx, s)
          /\ SameRows(tx', tx, LiveTrades(tx, s))
      BY <2>2, OtherScopesAreKept DEF SameRows
    <3>2. \A u \in LiveSells(tx, s) : MatchesOf(u, matches') = MatchesOf(u, matches)
      BY <1>1, <2>2, <3>1, KeptMatches
    <3>3. LotsOf(s)' = LotsOf(s)
      <4>1. {l \in lots' : l.scope = s} = {l \in lots : l.scope = s}
        BY <2>2, RebuiltOthers
      <4> QED BY <4>1 DEF LotsOf
    <3>4. FifoScope(s)
      BY DEF FifoInv
    <3> QED BY <3>1, <3>2, <3>3, <3>4, KeptIsFifo
  <2> QED BY <2>1, <2>2
<1> QED BY <1>1, <1>2 DEF FifoInv

\* A new row in another scope.
LEMMA NewRowElsewhereIsFifo ==
  ASSUME FifoInv, NEW t \in TxIds, NEW r, RowIsNew(t, r),
         NEW z \in Scopes, z \notin ScopesOf(r),
         \A u \in LiveSells(tx, z) : MatchesOf(u, matches') = MatchesOf(u, matches),
         LotsOf(z)' = LotsOf(z)
  PROVE  FifoScope(z)'
<1>1. /\ LiveTrades(tx', z) = LiveTrades(tx, z)
      /\ SameRows(tx', tx, LiveTrades(tx, z))
  BY DEF RowIsNew, SameRows
<1>2. FifoScope(z)
  BY DEF FifoInv
<1> QED BY <1>1, <1>2, KeptIsFifo

\* A cash movement belongs to no scope.
LEMMA NewCashKeepsFifo ==
  ASSUME FifoInv, NEW t \in TxIds, NEW r \in NewRows, CreateCashMovement(t, r)
  PROVE  FifoInv'
<1>1. BookInv /\ BookInv'
  BY NewCashKeepsBook DEF FifoInv
<1>2. RowIsNew(t, r) /\ ScopesOf(r) = {} /\ UNCHANGED <<lots, matches, splits>>
  BY <1>1, InsertAddsRow DEF BookInv, CreateCashMovement, Insert
<1>3. ASSUME NEW z \in Scopes
      PROVE  FifoScope(z)'
  <2>1. LotsOf(z)' = LotsOf(z)
    BY <1>2 DEF LotsOf
  <2> QED BY <2>1, <1>2, NewRowElsewhereIsFifo
<1> QED BY <1>1, <1>2, <1>3 DEF FifoInv

-----------------------------------------------------------------------------
(***************************************************************************)
(* The incremental paths of create: a buy or a sell after every live trade of*)
(* its scope, the sell from the open lots in whichever order they are read.*)
(***************************************************************************)
\* A new trade of a scope is a buy or a sell more.
LEMMA OneTradeMore ==
  ASSUME NEW t \in TxIds, NEW r, RowIsNew(t, r), NEW s \in ScopesOf(r)
  PROVE  /\ r.type = "buy" => /\ With(LiveBuys(tx', s), LiveBuys(tx, s), t)
                              /\ LiveSells(tx', s) = LiveSells(tx, s)
         /\ r.type = "sell" => /\ With(LiveSells(tx', s), LiveSells(tx, s), t)
                               /\ LiveBuys(tx', s) = LiveBuys(tx, s)
         /\ LiveTrades(tx', s) = LiveTrades(tx, s) \cup {t}
         /\ SameRows(tx', tx, LiveTrades(tx, s))
         /\ s \in Scopes /\ t \notin LiveTrades(tx, s) /\ tx'[t] = r
<1>1. s \in Scopes
  BY DEF ScopesOf
<1>2. /\ t \notin LiveTrades(tx, s) /\ tx'[t] = r
      /\ \A u \in LiveTrades(tx, s) : u \in LiveTrades(tx', s) /\ tx'[u] = tx[u]
      /\ \A u \in LiveTrades(tx', s) : u \in LiveTrades(tx, s) \/ u = t
      /\ t \in LiveTrades(tx', s)
  BY <1>1 DEF RowIsNew
<1>3. LiveTrades(tx', s) = LiveTrades(tx, s) \cup {t}
  BY <1>2
<1>4. /\ \A u : u \in LiveSells(tx, s) <=> u \in LiveTrades(tx, s) /\ tx[u].type = "sell"
      /\ \A u : u \in LiveSells(tx', s) <=> u \in LiveTrades(tx', s) /\ tx'[u].type = "sell"
      /\ \A u : u \in LiveBuys(tx, s) <=> u \in LiveTrades(tx, s) /\ tx[u].type # "sell"
      /\ \A u : u \in LiveBuys(tx', s) <=> u \in LiveTrades(tx', s) /\ tx'[u].type # "sell"
  BY DEF LiveBuys, LiveSells
<1>5. ASSUME r.type = "buy"
      PROVE  /\ With(LiveBuys(tx', s), LiveBuys(tx, s), t)
             /\ LiveSells(tx', s) = LiveSells(tx, s)
  <2>1. \A u : u \in LiveBuys(tx', s) <=> u \in LiveBuys(tx, s) \/ u = t
    BY <1>2, <1>3, <1>4, <1>5
  <2>2. \A u : u \in LiveSells(tx', s) <=> u \in LiveSells(tx, s)
    BY <1>2, <1>3, <1>4, <1>5
  <2> QED BY <2>1, <2>2, <1>2, <1>4 DEF With
<1>6. ASSUME r.type = "sell"
      PROVE  /\ With(LiveSells(tx', s), LiveSells(tx, s), t)
             /\ LiveBuys(tx', s) = LiveBuys(tx, s)
  <2>1. \A u : u \in LiveSells(tx', s) <=> u \in LiveSells(tx, s) \/ u = t
    BY <1>2, <1>3, <1>4, <1>6
  <2>2. \A u : u \in LiveBuys(tx', s) <=> u \in LiveBuys(tx, s)
    BY <1>2, <1>3, <1>4, <1>6
  <2> QED BY <2>1, <2>2, <1>2, <1>4 DEF With
<1> QED BY <1>1, <1>2, <1>3, <1>5, <1>6 DEF SameRows

\* A buy that no live sell follows is first in, first out without a replay.
LEMMA NewBuyIsFifo ==
  ASSUME FifoInv, NEW t \in TxIds, NEW r, RowIsNew(t, r), r.type = "buy",
         NEW s \in ScopesOf(r), ~HasFutureSell(s, r.time),
         LotsOf(s)' = LotsOf(s) \cup
           {LotRow(s, [src |-> t, orig |-> r.qty, rem |-> r.qty,
                       unit |-> r.amount \div r.qty, openedAt |-> r.time])},
         matches' = matches
  PROVE  FifoScope(s)'
<1> DEFINE B == LiveBuys(tx, s)
           C == LiveBuys(tx', s)
           S == LiveSells(tx, s)
<1>1. /\ With(C, B, t) /\ LiveSells(tx', s) = S /\ s \in Scopes
      /\ SameRows(tx', tx, LiveTrades(tx, s))
      /\ t \notin LiveTrades(tx, s) /\ tx'[t] = r
  BY OneTradeMore
<1>2. TableFits(tx') /\ TableFits(tx)
  BY DEF RowIsNew, FifoInv, BookInv
<1>3. /\ TradesFit(tx', C \cup S) /\ B \cup S = LiveTrades(tx, s)
      /\ TradesFit(tx, B \cup S)
  BY <1>1, <1>2, ScopeFits
<1>4. PICK left, taken : BookTells(tx, s, LotsOf(s), matches, left, taken)
  BY <1>1 DEF FifoInv, FifoScope
<1>5. /\ LotsOf(s) = {LotRow(s, LotOf(tx, b, left[b])) : b \in B}
      /\ \A e \in S :
           MatchesOf(e, matches) = {MatchRow(s, e, f) : f \in FillsFor(tx, B, taken[e])}
      /\ FifoShares(tx, B, S, left, taken)
  BY <1>4 DEF BookTells
<1>6. ~HasFutureSell(s, r.time) => \A e \in S : ~(tx[e].time >= r.time)
  BY DEF HasFutureSell
<1> HIDE DEF B, C, S
<1> DEFINE held == [y \in C |-> IF y = t THEN tx'[t].qty ELSE left[y]]
           took == [e \in S |-> [y \in C |-> IF y = t THEN 0 ELSE taken[e][y]]]
<1>7. /\ t \in C /\ t \notin B /\ t \notin S /\ \A y \in C : y \in B \/ y = t
      /\ \A y \in B : y \in C /\ y # t
  BY <1>1, <1>3 DEF With
<1>8. left \in [B -> Nat] /\ \A e \in S : taken[e] \in [B -> Nat]
  BY <1>5 DEF FifoShares, LeftFits, TakenFits
<1>9. /\ tx'[t].qty \in Nat /\ tx'[t].time \in Nat /\ t \in Nat
      /\ \A e \in S : tx[e].time \in Nat /\ tx'[e] = tx[e]
  BY <1>1, <1>3, <1>7 DEF TradesFit, SameRows
<1>10. BuyHeld(tx', B, t, C, left, held)
  BY <1>7, <1>8, <1>9 DEF BuyHeld
<1>11. /\ BuyKept(B, t, C, S, taken, took)
       /\ \A e \in S : took[e][t] = 0 /\ \A y \in B : took[e][y] = taken[e][y]
  BY <1>7, <1>8 DEF BuyKept
<1>12. held[t] = r.qty /\ \A y \in B : held[y] = left[y]
  BY <1>1, <1>7
<1> HIDE DEF held, took
<1>13. AllBefore(tx', S, t)
  <2>1. \A e \in S : tx'[e].time < tx'[t].time
    BY <1>1, <1>6, <1>9
  <2> QED BY <2>1 DEF AllBefore, Before, Cut
<1>14. SameRows(tx', tx, B \cup S) /\ SameRows(tx', tx, B)
  BY <1>1, <1>3 DEF SameRows
<1>15. FifoShares(tx', B, S, left, taken)
  BY <1>5, <1>14, SharesCarryOver
<1>16. FifoShares(tx', C, S, held, took)
  BY <1>1, <1>3, <1>7, <1>10, <1>11, <1>13, <1>15, BuyKeepsShares
<1>17. ASSUME NEW e \in S
       PROVE  MatchesOf(e, matches') = {MatchRow(s, e, f) : f \in FillsFor(tx', C, took[e])}
  <2>1. FillsFor(tx', C, took[e]) = FillsFor(tx', B, taken[e])
    BY <1>1, <1>11, NothingTakenYet
  <2>2. FillsFor(tx', B, taken[e]) = FillsFor(tx, B, taken[e])
    BY <1>14, FillsCarryOver
  <2> QED BY <2>1, <2>2, <1>5
<1>18. LotsOf(s)' = {LotRow(s, LotOf(tx', b, held[b])) : b \in C}
  <2>1. \A b \in B : LotOf(tx', b, held[b]) = LotOf(tx, b, left[b])
    BY <1>12, <1>14 DEF LotOf, UnitOf, SameRows
  <2>2. [src |-> t, orig |-> r.qty, rem |-> r.qty,
         unit |-> r.amount \div r.qty, openedAt |-> r.time] = LotOf(tx', t, held[t])
    BY <1>1, <1>12 DEF LotOf, UnitOf
  <2>3. LotsOf(s)' = LotsOf(s) \cup {LotRow(s, LotOf(tx', t, held[t]))}
    BY <2>2
  <2>4. {LotRow(s, LotOf(tx', b, held[b])) : b \in B}
          = {LotRow(s, LotOf(tx, b, left[b])) : b \in B}
    BY <2>1
  <2>5. {LotRow(s, LotOf(tx', b, held[b])) : b \in C}
          = {LotRow(s, LotOf(tx', b, held[b])) : b \in B}
              \cup {LotRow(s, LotOf(tx', t, held[t]))}
    BY <1>7
  <2> QED BY <2>3, <2>4, <2>5, <1>5
<1>19. BookTells(tx', s, LotsOf(s)', matches', held, took)
  BY <1>1, <1>16, <1>17, <1>18 DEF BookTells, C, S
<1> QED BY <1>19 DEF FifoScope

\* A buy that is entered incrementally keeps the book FIFO.
LEMMA NewBuyKeepsFifo ==
  ASSUME FifoInv, NEW t \in TxIds, NEW r \in NewRows, HasExactPrice(r),
         CreateBuyIncrementally(t, r)
  PROVE  FifoInv'
<1>1. BookInv /\ BookInv'
  BY NewBuyKeepsBook DEF FifoInv
<1>2. RowIsNew(t, r) /\ r.type = "buy" /\ UNCHANGED <<matches, splits>>
  BY <1>1, InsertAddsRow DEF BookInv, CreateBuyIncrementally, Insert
<1>3. PICK s \in ScopesOf(r) :
        /\ ~NeedsFullScopeReplayOnCreate(r, s)
        /\ lots' = lots \cup
             {LotRow(s, [src |-> t, orig |-> r.qty, rem |-> r.qty,
                         unit |-> r.amount \div r.qty, openedAt |-> r.time])}
  BY DEF CreateBuyIncrementally
<1>4. ~HasFutureSell(s, r.time)
  BY <1>2, <1>3 DEF NeedsFullScopeReplayOnCreate
<1> DEFINE x == LotRow(s, [src |-> t, orig |-> r.qty, rem |-> r.qty,
                           unit |-> r.amount \div r.qty, openedAt |-> r.time])
<1>5. x.scope = s
  BY DEF LotRow
<1>6. ASSUME NEW z \in Scopes
      PROVE  FifoScope(z)'
  <2>1. CASE z = s
    <3>1. LotsOf(s)' = LotsOf(s) \cup {x}
      <4> HIDE DEF x
      <4>1. lots' = lots \cup {x}
        BY <1>3 DEF x
      <4> QED BY <4>1, <1>5 DEF LotsOf
    <3> QED BY <3>1, <2>1, <1>2, <1>4, NewBuyIsFifo
  <2>2. CASE z # s
    <3>1. z \notin ScopesOf(r)
      BY <2>2, OneScope
    <3>2. LotsOf(z)' = LotsOf(z)
      <4> HIDE DEF x
      <4>1. lots' = lots \cup {x}
        BY <1>3 DEF x
      <4> QED BY <4>1, <2>2, <1>5 DEF LotsOf
    <3> QED BY <3>1, <3>2, <1>2, NewRowElsewhereIsFifo
  <2> QED BY <2>1, <2>2
<1> QED BY <1>1, <1>2, <1>6 DEF FifoInv

\* The lot rows of the buys B of a scope.
LotRowsFor(s, w, B, left) == {LotRow(s, LotOf(w, b, left[b])) : b \in B}

\* The fields of a lot row of a buy.
LEMMA LotRowFields ==
  ASSUME NEW s, NEW w, NEW b, NEW k
  PROVE  LET l == LotRow(s, LotOf(w, b, k)) IN
         /\ l.scope = s /\ l.src = b /\ l.rem = k /\ l.unit = UnitOf(w, b)
         /\ l.openedAt = w[b].time
         /\ \A h : LotRow(s, WithRem(l, h)) = LotRow(s, LotOf(w, b, h))
BY DEF LotRow, LotOf, WithRem

\* The open lots of a scope, in an order, are a queue.
LEMMA OpenLotsAreQueue ==
  ASSUME BookInv, NEW s \in Scopes, NEW order \in FifoOrders(s), NEW w, NEW B,
         NEW left \in [B -> Nat], LotsOf(s) = LotRowsFor(s, w, B, left)
  PROVE  /\ order \in Seq(LotRows)
         /\ Queue(w, B, left, order, Len(order))
         /\ \A j \in 1..Len(order) : order[j].unit = UnitOf(w, order[j].src)
         /\ \A j \in 1..Len(order) :
              order[j] = LotRow(s, LotOf(w, order[j].src, left[order[j].src]))
<1> DEFINE n == Len(order)
           row(b) == LotRow(s, LotOf(w, b, left[b]))
<1>1. /\ order \in Seq(LotRows) /\ SourcesDiffer(order)
      /\ \A i \in DOMAIN order : order[i] \in OpenLots(s)
      /\ \A l \in OpenLots(s) : \E i \in DOMAIN order : order[i] = l
  BY OrderOfOpenLots
<1>2. DOMAIN order = 1..n /\ n \in Nat
  BY <1>1
<1>3. \A i, j \in 1..n : i < j => order[i].openedAt <= order[j].openedAt
  BY <1>2 DEF FifoOrders
<1>4. \A b \in B : /\ row(b).src = b /\ row(b).rem = left[b]
                   /\ row(b).unit = UnitOf(w, b) /\ row(b).openedAt = w[b].time
                   /\ row(b) \in LotsOf(s)
  BY LotRowFields DEF LotRowsFor
<1>5. \A l \in LotsOf(s) : \E b \in B : l = row(b)
  BY DEF LotRowsFor
<1>6. \A l : l \in OpenLots(s) <=> l \in LotsOf(s) /\ l.rem > 0
  BY DEF OpenLots, LotsOf
<1> HIDE DEF n, row
<1>7. ASSUME NEW j \in 1..n
      PROVE  /\ order[j].src \in B /\ order[j] = row(order[j].src)
             /\ order[j].rem = left[order[j].src]
             /\ order[j].unit = UnitOf(w, order[j].src)
             /\ order[j].openedAt = w[order[j].src].time
  <2>1. PICK b \in B : order[j] = row(b)
    BY <1>1, <1>2, <1>5, <1>6
  <2> QED BY <2>1, <1>4
<1>8. ASSUME NEW b \in B, \A j \in 1..n : order[j].src # b
      PROVE  left[b] = 0
  <2>1. row(b) \notin OpenLots(s)
    BY <1>1, <1>2, <1>4, <1>8
  <2>2. ~(left[b] > 0)
    BY <2>1, <1>4, <1>6
  <2> QED BY <2>2
<1>9. Queue(w, B, left, order, n)
  <2>1. \A i, j \in 1..n : order[i].src = order[j].src => i = j
    BY <1>1, <1>2 DEF SourcesDiffer
  <2>2. \A i, j \in 1..n : i < j => w[order[i].src].time <= w[order[j].src].time
    BY <1>3, <1>7
  <2> QED BY <2>1, <2>2, <1>7, <1>8 DEF Queue
<1> QED BY <1>1, <1>7, <1>9 DEF n, row

\* What the lots of a scope are after a sell from the open ones.
LEMMA LotsAfterSell ==
  ASSUME BookInv, NEW s \in Scopes, NEW order \in FifoOrders(s), NEW w, NEW B,
         NEW left \in [B -> Nat], LotsOf(s) = LotRowsFor(s, w, B, left),
         NEW q, NEW held, QueueSold(w, B, left, order, q, held)
  PROVE  (LotsOf(s) \ OpenLots(s)) \cup RowsOf(s, Consume(order, q).lots)
           = LotRowsFor(s, w, B, held)
<1> DEFINE n == Len(order)
           C == Consume(order, q).lots
           row(b, k) == LotRow(s, LotOf(w, b, k))
<1>1. /\ Queue(w, B, left, order, n)
      /\ \A j \in 1..n : order[j] = row(order[j].src, left[order[j].src])
  BY OpenLotsAreQueue
<1>2. /\ \A b \in B : held[b] <= left[b] /\ held[b] \in Nat
      /\ Shrunk(order, C, n) /\ DOMAIN C = 1..n
      /\ \A j \in 1..n : held[order[j].src] = C[j].rem
      /\ \A b \in B : (\A j \in 1..n : order[j].src # b) => held[b] = 0
  BY DEF QueueSold, Leaves, HeldAfter
<1>3. \A l : l \in OpenLots(s) <=> l \in LotsOf(s) /\ l.rem > 0
  BY DEF OpenLots, LotsOf
<1>4. \A b, k : row(b, k).rem = k
  BY LotRowFields
<1> HIDE DEF n, C, row
<1>5. ASSUME NEW j \in 1..n
      PROVE  /\ order[j].src \in B
             /\ LotRow(s, C[j]) = row(order[j].src, held[order[j].src])
  <2> DEFINE b == order[j].src
  <2>1. b \in B
    BY <1>1 DEF Queue
  <2>2. C[j] = WithRem(order[j], C[j].rem) /\ C[j].rem = held[b]
    BY <1>2 DEF Shrunk
  <2>3. order[j] = row(b, left[b])
    BY <1>1
  <2> HIDE DEF b
  <2>4. C[j] = WithRem(row(b, left[b]), held[b])
    BY <2>2, <2>3
  <2>5. LotRow(s, WithRem(row(b, left[b]), held[b])) = row(b, held[b])
    BY LotRowFields DEF row
  <2> QED BY <2>1, <2>4, <2>5 DEF b
<1>6. ASSUME NEW b \in B, left[b] = 0
      PROVE  row(b, left[b]) = row(b, held[b]) /\ row(b, held[b]) \in LotsOf(s) \ OpenLots(s)
  <2>1. held[b] = 0
    BY <1>2, <1>6
  <2>2. row(b, left[b]) \in LotsOf(s)
    BY DEF LotRowsFor, row
  <2>3. row(b, held[b]).rem = 0
    BY <2>1, <1>4
  <2> QED BY <2>1, <2>2, <2>3, <1>3, <1>6
<1>7. ASSUME NEW l \in LotsOf(s) \ OpenLots(s)
      PROVE  l \in LotRowsFor(s, w, B, held)
  <2>1. PICK b \in B : l = row(b, left[b])
    BY DEF LotRowsFor, row
  <2>2. ~(left[b] > 0)
    BY <2>1, <1>3, <1>4
  <2>3. left[b] = 0
    BY <2>2
  <2>4. l = row(b, held[b])
    BY <2>1, <2>3, <1>6
  <2> QED BY <2>4 DEF LotRowsFor, row
<1>8. ASSUME NEW l \in RowsOf(s, C)
      PROVE  l \in LotRowsFor(s, w, B, held)
  <2>1. PICK j \in 1..n : l = LotRow(s, C[j])
    BY <1>2, <1>8 DEF RowsOf
  <2>2. order[j].src \in B /\ l = row(order[j].src, held[order[j].src])
    BY <2>1, <1>5
  <2> QED BY <2>2 DEF LotRowsFor, row
<1>9. ASSUME NEW b \in B
      PROVE  row(b, held[b]) \in (LotsOf(s) \ OpenLots(s)) \cup RowsOf(s, C)
  <2>1. CASE \E j \in 1..n : order[j].src = b
    <3>1. PICK j \in 1..n : order[j].src = b
      BY <2>1
    <3>2. row(b, held[b]) = LotRow(s, C[j])
      BY <3>1, <1>5
    <3> QED BY <3>2, <1>2 DEF RowsOf
  <2>2. CASE \A j \in 1..n : order[j].src # b
    <3>1. left[b] = 0
      BY <2>2, <1>1 DEF Queue
    <3> QED BY <3>1, <1>6
  <2> QED BY <2>1, <2>2
<1> QED BY <1>7, <1>8, <1>9 DEF LotRowsFor, row, C

\* A sell after all live trades, from the open lots in an order.
LEMMA NewSellIsFifo ==
  ASSUME FifoInv, NEW t \in TxIds, NEW r, RowIsNew(t, r), r.type = "sell",
         NEW s \in ScopesOf(r), ~HasLaterScopedActivity(s, r.time),
         NEW order \in FifoOrders(s), Consume(order, r.qty).toSell = 0,
         LotsOf(s)' = (LotsOf(s) \ OpenLots(s))
                        \cup RowsOf(s, Consume(order, r.qty).lots),
         MatchesOf(t, matches')
           = {MatchRow(s, t, f) : f \in Consume(order, r.qty).fills},
         \A u \in LiveSells(tx, s) : MatchesOf(u, matches') = MatchesOf(u, matches)
  PROVE  FifoScope(s)'
<1> DEFINE B == LiveBuys(tx, s)
           S == LiveSells(tx, s)
           Z == LiveSells(tx', s)
<1>1. /\ With(Z, S, t) /\ LiveBuys(tx', s) = B /\ s \in Scopes
      /\ SameRows(tx', tx, LiveTrades(tx, s))
      /\ t \notin LiveTrades(tx, s) /\ tx'[t] = r
  BY OneTradeMore
<1>2. TableFits(tx') /\ TableFits(tx) /\ BookInv
  BY DEF RowIsNew, FifoInv, BookInv
<1>3. /\ TradesFit(tx', B \cup Z) /\ B \cup S = LiveTrades(tx, s)
      /\ TradesFit(tx, B \cup S)
  BY ZenonT(60), <1>1, <1>2, ScopeFits
<1>4. PICK left, taken : BookTells(tx, s, LotsOf(s), matches, left, taken)
  BY <1>1 DEF FifoInv, FifoScope
<1>5. /\ LotsOf(s) = LotRowsFor(s, tx, B, left)
      /\ \A e \in S :
           MatchesOf(e, matches) = {MatchRow(s, e, f) : f \in FillsFor(tx, B, taken[e])}
      /\ FifoShares(tx, B, S, left, taken)
  BY <1>4 DEF BookTells, LotRowsFor
<1>6. \A u \in LiveTrades(tx, s) : ~(tx[u].time >= r.time)
  BY DEF HasLaterScopedActivity
<1>7. \A e \in S : MatchesOf(e, matches') = MatchesOf(e, matches)
  OBVIOUS
<1> HIDE DEF B, S, Z
<1>8. /\ t \in Z /\ t \notin B /\ t \notin S /\ \A e \in Z : e \in S \/ e = t
      /\ \A e \in S : e # t /\ e \in Z
  BY <1>1, <1>3 DEF With
<1>9. /\ r.qty \in Nat /\ r.time \in Nat /\ t \in Nat
      /\ \A u \in B \cup S : tx[u].time \in Nat /\ tx'[u] = tx[u]
  BY <1>1, <1>3, <1>8 DEF TradesFit, SameRows
<1>10. AllBefore(tx', B \cup S, t)
  <2>1. \A u \in B \cup S : tx'[u].time < tx'[t].time
    BY <1>1, <1>3, <1>6, <1>9
  <2> QED BY <2>1 DEF AllBefore, Before, Cut
<1>11. SameRows(tx', tx, B \cup S) /\ SameRows(tx', tx, B)
  BY <1>1, <1>3 DEF SameRows
<1>12. FifoShares(tx', B, S, left, taken) /\ left \in [B -> Nat]
  BY <1>5, <1>11, SharesCarryOver DEF FifoShares, LeftFits
<1>13. TradesFit(tx', B)
  <2>1. IsFiniteSet(B)
    BY <1>3, FS_Subset DEF TradesFit
  <2> QED BY <2>1, <1>3 DEF TradesFit
<1>14. LotsOf(s) = LotRowsFor(s, tx', B, left)
  <2>1. \A b \in B : LotOf(tx', b, left[b]) = LotOf(tx, b, left[b])
    BY <1>11 DEF LotOf, UnitOf, SameRows
  <2> QED BY <2>1, <1>5 DEF LotRowsFor
<1>15. PICK held : QueueSold(tx', B, left, order, r.qty, held)
  <2>1. /\ order \in Seq(LotRows) /\ Queue(tx', B, left, order, Len(order))
        /\ \A j \in 1..Len(order) : order[j].unit = UnitOf(tx', order[j].src)
    BY <1>1, <1>2, <1>12, <1>14, OpenLotsAreQueue
  <2> QED BY <2>1, <1>9, <1>12, <1>13, LotRowTypes, SellFromQueue
<1> DEFINE took == [e \in Z |-> IF e = t THEN Taken(B, left, held) ELSE taken[e]]
<1>16. took[t] = Taken(B, left, held) /\ \A e \in S : took[e] = taken[e]
  BY <1>8
<1> HIDE DEF took
<1>17. /\ Leaves(tx', B, left, held, tx'[t].qty) /\ tx'[t].qty <= PartSum(left, B)
       /\ Consume(order, r.qty).fills = FillsFor(tx', B, Taken(B, left, held))
       /\ held \in [B -> Nat] /\ \A b \in B : held[b] <= left[b]
  BY <1>1, <1>15 DEF QueueSold, Leaves
<1>18. SellTook(B, S, t, left, held, taken, took)
  <2>1. /\ Taken(B, left, held) \in [B -> Nat]
        /\ \A b \in B : Taken(B, left, held)[b] = left[b] - held[b]
    BY <1>12, <1>17 DEF Taken
  <2> QED BY <2>1, <1>16 DEF SellTook
<1>19. FifoShares(tx', B, Z, held, took)
  BY <1>1, <1>3, <1>8, <1>10, <1>12, <1>17, <1>18, SellKeepsShares
<1>20. ASSUME NEW e \in Z
       PROVE  MatchesOf(e, matches') = {MatchRow(s, e, f) : f \in FillsFor(tx', B, took[e])}
  <2>1. CASE e = t
    BY <2>1, <1>16, <1>17
  <2>2. CASE e \in S
    <3>1. FillsFor(tx', B, taken[e]) = FillsFor(tx, B, taken[e])
      BY <1>11, FillsCarryOver
    <3> QED BY <3>1, <2>2, <1>5, <1>7, <1>16
  <2> QED BY <2>1, <2>2, <1>8
<1>21. LotsOf(s)' = LotRowsFor(s, tx', B, held)
  BY <1>1, <1>2, <1>12, <1>14, <1>15, LotsAfterSell
<1>22. BookTells(tx', s, LotsOf(s)', matches', held, took)
  BY <1>1, <1>19, <1>20, <1>21 DEF BookTells, LotRowsFor, Z
<1> QED BY <1>22 DEF FifoScope

\* A sell that is entered incrementally keeps the book FIFO.
LEMMA NewSellKeepsFifo ==
  ASSUME FifoInv, NEW t \in TxIds, NEW r \in NewRows, CreateSellIncrementally(t, r)
  PROVE  FifoInv'
<1>0. BookInv /\ BookInv'
  BY NewSellKeepsBook DEF FifoInv
<1>1. RowIsNew(t, r) /\ r.type = "sell" /\ splits' = splits
  BY <1>0, InsertAddsRow DEF BookInv, CreateSellIncrementally, Insert
<1>2. PICK s \in ScopesOf(r) :
        /\ ~NeedsFullScopeReplayOnCreate(r, s)
        /\ \E p \in positions : \E order \in FifoOrders(s) :
             IsActivePosition(p, s) /\ ConsumeOpenLots(s, p, t, r, order)
  BY DEF CreateSellIncrementally
<1>3. PICK p \in positions, order \in FifoOrders(s) : ConsumeOpenLots(s, p, t, r, order)
  BY <1>2
<1>4. ~HasLaterScopedActivity(s, r.time) /\ s \in Scopes
  BY <1>1, <1>2 DEF NeedsFullScopeReplayOnCreate, ScopesOf
<1> DEFINE c == Consume(order, r.qty)
           new == {MatchRow(s, t, f) : f \in c.fills}
<1>5. /\ c.toSell = 0
      /\ lots' = (lots \ OpenLots(s)) \cup RowsOf(s, c.lots)
      /\ matches' = matches \cup new
  BY <1>3 DEF ConsumeOpenLots, RowsOf
<1> HIDE DEF c
<1>6. \A m \in new : m.sell = t
  BY DEF MatchRow
<1>7. \A l \in RowsOf(s, c.lots) : l.scope = s
  BY DEF RowsOf, LotRow
<1>8. \A z \in Scopes : t \notin LiveSells(tx, z)
  BY <1>1, NewRowInSells
<1>9. \A m \in matches : m.sell # t
  <2>1. \A m \in matches : m.sell \in LiveSells(tx, m.scope) /\ m.scope \in Scopes
    BY <1>0 DEF BookInv, LedgerRowsResolve, LiveSells, LiveTrades, ScopedIds, ScopesOf
  <2> QED BY <2>1, <1>8
<1> HIDE DEF new
<1>10. MatchesOf(t, matches') = new
  BY <1>5, <1>6, <1>9 DEF MatchesOf
<1>11. \A z \in Scopes : \A u \in LiveSells(tx, z) :
         MatchesOf(u, matches') = MatchesOf(u, matches)
  BY <1>5, <1>6, <1>8 DEF MatchesOf
<1>12. \A l \in OpenLots(s) : l.scope = s
  BY DEF OpenLots
<1>13. ASSUME NEW z \in Scopes
       PROVE  FifoScope(z)'
  <2>1. CASE z = s
    <3>1. LotsOf(s)' = (LotsOf(s) \ OpenLots(s)) \cup RowsOf(s, c.lots)
      BY <1>5, <1>7, <1>12 DEF LotsOf
    <3>2. MatchesOf(t, matches') = {MatchRow(s, t, f) : f \in c.fills}
      BY <1>10 DEF new
    <3> QED BY <3>1, <3>2, <2>1, <1>1, <1>4, <1>5, <1>11, NewSellIsFifo DEF c
  <2>2. CASE z # s
    <3>1. z \notin ScopesOf(r)
      BY <2>2, OneScope
    <3>2. LotsOf(z)' = LotsOf(z)
      BY <1>5, <1>7, <1>12, <2>2 DEF LotsOf
    <3> QED BY <3>1, <3>2, <1>1, <1>11, NewRowElsewhereIsFifo
  <2> QED BY <2>1, <2>2
<1> QED BY <1>0, <1>1, <1>13 DEF FifoInv

\* A create, incremental or with a replay.
LEMMA CreateKeepsFifo ==
  ASSUME FifoInv, NEW t \in TxIds, NEW r \in NewRows, HasExactPrice(r),
         Create(t, r)
  PROVE  FifoInv'
<1>1. CASE CreateCashMovement(t, r)
  BY <1>1, NewCashKeepsFifo
<1>2. CASE CreateBuyIncrementally(t, r)
  BY <1>2, NewBuyKeepsFifo
<1>3. CASE CreateSellIncrementally(t, r)
  BY <1>3, NewSellKeepsFifo
<1>4. CASE CreateWithReplay(t, r)
  <2>1. PICK s \in ScopesOf(r) : RebuildScopes({s})
    BY <1>4 DEF CreateWithReplay
  <2>2. RowIsNew(t, r) /\ UNCHANGED splits
    BY <1>4, InsertAddsRow DEF FifoInv, BookInv, CreateWithReplay, Insert
  <2>3. {s} \in SUBSET Scopes /\ ScopesOf(r) \subseteq {s}
    BY OneScope
  <2>4. RowChanges({s})
    BY <2>2, <2>3 DEF RowIsNew, RowChanges
  <2>5. IsFiniteSet({s})
    BY FS_Singleton
  <2> QED BY <2>1, <2>2, <2>3, <2>4, <2>5, RebuildKeepsFifo
<1> QED BY <1>1, <1>2, <1>3, <1>4 DEF Create

\* A row written over a stored one, and its scopes replayed.
LEMMA RewriteKeepsFifo ==
  ASSUME FifoInv, NEW t \in TxIds, NEW S \in SUBSET Scopes, IsFiniteSet(S),
         NEW r, r = NoTx \/ (r \in TxRow /\ ValidRow(r, NoAsset)),
         tx' = [tx EXCEPT ![t] = r], UNCHANGED splits, RebuildScopes(S),
         ScopesOf(tx[t]) \subseteq S, r # NoTx => ScopesOf(r) \subseteq S
  PROVE  FifoInv'
<1>1. /\ TableFits(tx') /\ tx'[t] = r
      /\ \A u \in TxIds : u # t => tx'[u] = tx[u]
  BY OneRowWritten DEF FifoInv, BookInv
<1>2. RowChanges(S)
  BY <1>1 DEF RowChanges
<1> QED BY <1>2, RebuildKeepsFifo

\* An edit.
LEMMA UpdateKeepsFifo ==
  ASSUME FifoInv, NEW t \in TxIds, NEW r \in NewRows, Update(t, r)
  PROVE  FifoInv'
<1> DEFINE S == UpdateScopes(tx[t], r)
           new == [r EXCEPT !.deleted = tx[t].deleted]
<1>1. /\ tx[t] # NoTx /\ ValidRow(r, NoAsset)
      /\ tx' = [tx EXCEPT ![t] = new] /\ UNCHANGED splits /\ RebuildScopes(S)
  BY DEF Update, Exists
<1>2. tx[t] \in TxRow
  BY <1>1 DEF FifoInv, BookInv, TableFits
<1>3. new \in TxRow /\ ValidRow(new, NoAsset) /\ ScopesOf(new) = ScopesOf(r)
  BY <1>1, <1>2 DEF NewRows, TxRow, ValidRow, ScopesOf
<1>4. S = ScopesOf(tx[t]) \cup ScopesOf(r)
  BY DEF UpdateScopes
<1> HIDE DEF new, S
<1>5. S \in SUBSET Scopes /\ IsFiniteSet(S)
  BY <1>4, FewScopes, FS_Union
<1> QED BY <1>1, <1>3, <1>4, <1>5, RewriteKeepsFifo

\* A soft or hard delete.
LEMMA DeleteKeepsFifo ==
  ASSUME FifoInv, NEW t \in TxIds, SoftDelete(t) \/ HardDelete(t)
  PROVE  FifoInv'
<1> DEFINE S == ScopesOf(tx[t])
           old == [tx[t] EXCEPT !.deleted = TRUE]
<1>1. S \in SUBSET Scopes /\ IsFiniteSet(S)
  BY FewScopes
<1>2. tx[t] # NoTx /\ UNCHANGED splits /\ RebuildScopes(S)
  BY DEF SoftDelete, HardDelete, Exists
<1>3. tx[t] \in TxRow /\ ValidRow(tx[t], NoAsset)
  BY <1>2 DEF FifoInv, BookInv, TableFits
<1>4. CASE SoftDelete(t)
  <2>1. tx' = [tx EXCEPT ![t] = old]
    BY <1>4 DEF SoftDelete
  <2>2. old \in TxRow /\ ValidRow(old, NoAsset) /\ ScopesOf(old) = S
    BY <1>3 DEF TxRow, ValidRow, ScopesOf
  <2> HIDE DEF old
  <2> QED BY <1>1, <1>2, <2>1, <2>2, RewriteKeepsFifo
<1>5. CASE HardDelete(t)
  <2>1. tx' = [tx EXCEPT ![t] = NoTx]
    BY <1>5 DEF HardDelete
  <2> QED BY <1>1, <1>2, <2>1, RewriteKeepsFifo
<1> QED BY <1>4, <1>5

\* An empty book is first in, first out.
LEMMA InitFifo == Init => FifoInv
<1> SUFFICES ASSUME Init
             PROVE  FifoInv
  OBVIOUS
<1>1. BookInv /\ splits = {}
  BY InitBook DEF Init
<1>2. ASSUME NEW s \in Scopes
      PROVE  FifoScope(s)
  <2>1. LiveSells(tx, s) = {} /\ LiveBuys(tx, s) = {} /\ LotsOf(s) = {}
    BY DEF Init, LiveSells, LiveBuys, LiveTrades, ScopedIds, LotsOf
  <2> DEFINE st == [lots |-> <<>>]
  <2>2. PICK left, taken : Staged(tx, {}, {}, st, left, taken)
    BY NothingIsStaged
  <2>3. FifoShares(tx, {}, {}, left, taken)
    BY <2>2 DEF Staged
  <2>4. BookTells(tx, s, LotsOf(s), matches, left, taken)
    BY <2>1, <2>3 DEF BookTells
  <2> QED BY <2>4 DEF FifoScope
<1> QED BY <1>1, <1>2 DEF FifoInv

\* Nothing happens to the book.
LEMMA UntouchedFifo ==
  ASSUME FifoInv, UNCHANGED <<tx, lots, matches, positions, splits>>
  PROVE  FifoInv'
<1>1. BookInv'
  BY UntouchedBook DEF FifoInv, BookInv, SplitsFit
<1>2. ASSUME NEW s \in Scopes
      PROVE  FifoScope(s)'
  <2>1. LotsOf(s)' = LotsOf(s) /\ FifoScope(s)
    BY DEF LotsOf, FifoInv
  <2>2. SameRows(tx', tx, LiveTrades(tx, s))
    BY DEF SameRows
  <2> QED BY <2>1, <2>2, KeptIsFifo
<1> QED BY <1>1, <1>2 DEF FifoInv

\* Every operation of the service keeps the book first in, first out.
LEMMA NextKeepsFifo ==
  ASSUME FifoInv, Next
  PROVE  FifoInv'
BY CreateKeepsFifo, UpdateKeepsFifo, DeleteKeepsFifo, InputsAreRows, PricesAreExact
   DEF Next, UpdateOwn

(***************************************************************************)
(* createTransaction, updateTransaction and deleteTransaction keep every   *)
(* scope first in, first out, whether positions.service.ts works           *)
(* incrementally or the scope is replayed: at every point of the order no  *)
(* more was sold than bought, and what is left of the shares bought before *)
(* an instant, and what each sell took of them, are the oldest there were. *)
(***************************************************************************)
THEOREM FifoInvariant == Spec => []FifoInv
<1>1. FifoInv /\ [Next]_vars => FifoInv'
  BY NextKeepsFifo, UntouchedFifo DEF vars
<1> QED BY InitFifo, <1>1, PTL DEF Spec

-----------------------------------------------------------------------------
(***************************************************************************)
(* From sums up to an instant to the abstract book of LedgerProperties.    *)
(***************************************************************************)
\* What two intervals of shares have in common.
LEMMA CommonIs ==
  ASSUME NEW a \in Nat, NEW b \in Nat, NEW c \in Nat, NEW d \in Nat
  PROVE  Common(a, b, c, d) = Monus(Least(b, d), IF a > c THEN a ELSE c)
<1>1. ASSUME NEW x \in Int, NEW y \in Int
      PROVE  Max({x, y}) = IF x > y THEN x ELSE y
  <2>1. /\ x \in {x, y} /\ y \in {x, y}
        /\ \A z \in {x, y} : z = x \/ z = y
    OBVIOUS
  <2>2. ASSUME NEW m \in {x, y}, \A z \in {x, y} : m >= z
        PROVE  m = IF x > y THEN x ELSE y
    BY <2>1, <2>2
  <2>3. \E m \in {x, y} : \A z \in {x, y} : m >= z
    BY <2>1
  <2>4. Max({x, y}) \in {x, y} /\ \A z \in {x, y} : Max({x, y}) >= z
    BY <2>3 DEF Max
  <2> QED BY <2>2, <2>4
<1>2. Min({d, b}) = Least(b, d)
  <2>1. Min({d, b}) = Least(d, b)
    BY MinIsLeast
  <2> QED BY <2>1 DEF Least
<1>3. Least(b, d) \in Int
  BY DEF Least
<1>4. Max({a, c}) = IF a > c THEN a ELSE c
  BY <1>1
<1>5. (IF a > c THEN a ELSE c) \in Int
  OBVIOUS
<1> DEFINE hi == Least(b, d)
           lo == IF a > c THEN a ELSE c
<1>6. hi \in Int /\ lo \in Int /\ Common(a, b, c, d) = Max({0, hi - lo})
  BY <1>2, <1>3, <1>4, <1>5 DEF Common
<1> HIDE DEF hi, lo
<1>7. Max({0, hi - lo}) = IF 0 > hi - lo THEN 0 ELSE hi - lo
  BY <1>1, <1>6
<1>8. Common(a, b, c, d) = Monus(hi, lo)
  BY <1>6, <1>7 DEF Monus
<1> QED BY <1>8 DEF hi, lo

\* The shares of trades, and where those of a trade begin.
LEMMA StartIsShares ==
  ASSUME NEW T, NEW t
  PROVE  /\ SharesOf(T) = Shares(tx, T)
         /\ Start(T, t) = Shares(tx, Before(tx, T, t))
         /\ Finish(T, t) = Shares(tx, Before(tx, T, t)) + tx[t].qty
BY DEF SharesOf, Shares, Start, Finish, Preceding, Precedes, Before, Cut

\* The trades up to an instant.
LEMMA UpToInstant ==
  ASSUME NEW w, NEW T, TradesFit(w, T), NEW now \in Nat
  PROVE  /\ {t \in T : w[t].time <= now} = Cut(w, T, now + 1, 0)
         /\ now + 1 \in Nat
         /\ Cut(w, T, now + 1, 0) \in SUBSET T
<1>1. \A t \in T : t \in Nat /\ w[t].time \in Nat
  BY DEF TradesFit
<1> QED BY <1>1 DEF Cut

\* No sell takes shares bought after it.
LEMMA FeasibleBook ==
  ASSUME NEW s, TradesFit(tx, LiveBuys(tx, s) \cup LiveSells(tx, s)),
         LiveBuys(tx, s) \cap LiveSells(tx, s) = {},
         Covers(tx, LiveBuys(tx, s), LiveSells(tx, s))
  PROVE  FifoFeasible(s)
<1> DEFINE B == LiveBuys(tx, s)
           S == LiveSells(tx, s)
<1> SUFFICES ASSUME NEW e \in S
             PROVE  Finish(S, e) <= Start(B, e)
  BY DEF FifoFeasible
<1>1. TradesFit(tx, S) /\ TradesFit(tx, B) /\ e \notin B
  <2>1. IsFiniteSet(S) /\ IsFiniteSet(B)
    BY FS_Subset DEF TradesFit
  <2> QED BY <2>1 DEF TradesFit
<1>2. e \in Nat /\ e + 1 \in Nat /\ tx[e].time \in Nat /\ tx[e].qty \in Nat
  BY <1>1 DEF TradesFit
<1> HIDE DEF B, S
<1>3. Shares(tx, Cut(tx, S, tx[e].time, e + 1)) <= Shares(tx, Cut(tx, B, tx[e].time, e + 1))
  BY <1>2 DEF Covers, B, S
<1>4. Shares(tx, Cut(tx, S, tx[e].time, e + 1)) = tx[e].qty + Shares(tx, Before(tx, S, e))
  BY <1>1, CutAfter
<1>5. Cut(tx, B, tx[e].time, e + 1) = Before(tx, B, e)
  <2>1. \A t \in B : t \in Nat /\ t # e
    BY <1>1 DEF TradesFit
  <2>2. \A t \in B : t < e + 1 <=> t < e
    BY <2>1, <1>2
  <2> QED BY <2>2 DEF Cut, Before
<1>6. Before(tx, S, e) \in SUBSET S
  BY DEF Before, Cut
<1>7. Shares(tx, Before(tx, S, e)) \in Nat
  BY <1>1, <1>6, SharesGrow
<1> QED BY <1>2, <1>3, <1>4, <1>5, <1>7, StartIsShares

\* What is left of the shares bought up to an instant.
LEMMA LeftOfLots ==
  ASSUME NEW s, NEW B, TradesFit(tx, B), NEW left \in [B -> Nat], NEW held,
         held = {LotRow(s, LotOf(tx, b, left[b])) : b \in B}, NEW now \in Nat
  PROVE  LeftUpTo(held, now) = PartSum(left, Cut(tx, B, now + 1, 0))
<1> DEFINE row(b) == LotRow(s, LotOf(tx, b, left[b]))
           D == Cut(tx, B, now + 1, 0)
           E == {k \in held : k.openedAt <= now}
           p == [b \in D |-> row(b)]
           f == [l \in E |-> l.rem]
           g == [b \in D |-> left[b]]
<1>1. D = {b \in B : tx[b].time <= now} /\ IsFiniteSet(D)
  <2>1. D = {b \in B : tx[b].time <= now} /\ D \subseteq B
    BY UpToInstant
  <2> QED BY <2>1, FS_Subset DEF TradesFit
<1>2. \A b : /\ row(b).src = b /\ row(b).rem = left[b]
             /\ row(b).openedAt = tx[b].time
  BY LotRowFields
<1>3. \A l : l \in held <=> \E b \in B : l = row(b)
  OBVIOUS
<1> HIDE DEF D, row
<1>4. ASSUME NEW l \in E
      PROVE  \E b \in D : l = row(b)
  BY <1>1, <1>2, <1>3
<1>5. ASSUME NEW b \in D
      PROVE  row(b) \in E
  BY <1>1, <1>2, <1>3
<1> HIDE DEF E
<1>6. OneToOne(p, D, E)
  <2>1. p \in [D -> E]
    BY <1>5
  <2>2. \A b, c \in D : p[b] = p[c] => b = c
    BY <1>2
  <2>3. \A l \in E : \E b \in D : p[b] = l
    BY <1>4
  <2> QED
    BY <2>1, <2>2, <2>3 DEF OneToOne, Bijection, Injection, Surjection, IsInjective
<1>7. IntegerOn(g, D)
  BY <1>1 DEF IntegerOn
<1>8. \A l \in E : l.rem \in Int
  BY <1>1, <1>2, <1>4
<1>9. IntegerOn(f, E)
  BY <1>8 DEF IntegerOn
<1>10. Renamed(g, f, p, D)
  BY <1>2, <1>5 DEF Renamed
<1>11. SumFunction(f) = SumFunction(g)
  <2> HIDE DEF f, g, p
  <2> QED BY <1>1, <1>6, <1>7, <1>9, <1>10, SumRenamedTo
<1> QED BY <1>11 DEF LeftUpTo, PartSum, E, D

\* What a sell took of the shares bought up to an instant.
LEMMA TakenOfMatches ==
  ASSUME NEW s, NEW e, NEW B, TradesFit(tx, B), NEW taken \in [B -> Nat], NEW rows,
         rows = {MatchRow(s, e, f) : f \in FillsFor(tx, B, taken)}, NEW now \in Nat
  PROVE  TakenUpTo(rows, now) = PartSum(taken, Cut(tx, B, now + 1, 0))
<1> DEFINE row(b) == MatchRow(s, e, [src |-> b, qty |-> taken[b], unit |-> UnitOf(tx, b)])
           K == Cut(tx, B, now + 1, 0)
           D == {b \in K : taken[b] # 0}
           E == {k \in rows : tx[k.src].time <= now}
           p == [b \in D |-> row(b)]
           f == [m \in E |-> m.qty]
           g == [b \in D |-> taken[b]]
           h == [b \in K |-> taken[b]]
<1>1. K = {b \in B : tx[b].time <= now} /\ IsFiniteSet(K) /\ K \subseteq B
  <2>1. K = {b \in B : tx[b].time <= now} /\ K \subseteq B
    BY UpToInstant
  <2> QED BY <2>1, FS_Subset DEF TradesFit
<1>2. \A b : row(b).src = b /\ row(b).qty = taken[b]
  BY DEF MatchRow
<1>3. \A m : m \in rows <=> \E b \in B : taken[b] # 0 /\ m = row(b)
  <2>1. ASSUME NEW m \in rows
        PROVE  \E b \in B : taken[b] # 0 /\ m = row(b)
    <3>1. PICK x \in FillsFor(tx, B, taken) : m = MatchRow(s, e, x)
      OBVIOUS
    <3> QED BY <3>1 DEF FillsFor
  <2>2. ASSUME NEW b \in B, taken[b] # 0
        PROVE  row(b) \in rows
    <3>1. [src |-> b, qty |-> taken[b], unit |-> UnitOf(tx, b)] \in FillsFor(tx, B, taken)
      BY <2>2 DEF FillsFor
    <3> QED BY <3>1
  <2> QED BY <2>1, <2>2
<1> HIDE DEF K, row
<1>4. ASSUME NEW m \in E
      PROVE  \E b \in D : m = row(b)
  BY <1>1, <1>2, <1>3
<1>5. ASSUME NEW b \in D
      PROVE  row(b) \in E
  BY <1>1, <1>2, <1>3
<1>6. IsFiniteSet(D) /\ D \subseteq K
  BY <1>1, FS_Subset
<1>7. ZeroOff(h, D, K)
  BY DEF ZeroOff
<1>8. \A b \in D : taken[b] \in Int
  BY <1>1
<1> HIDE DEF E, D
<1>9. OneToOne(p, D, E)
  <2>1. p \in [D -> E]
    BY <1>5
  <2>2. \A b, c \in D : p[b] = p[c] => b = c
    BY <1>2
  <2>3. \A m \in E : \E b \in D : p[b] = m
    BY <1>4
  <2> QED
    BY <2>1, <2>2, <2>3 DEF OneToOne, Bijection, Injection, Surjection, IsInjective
<1>10. IntegerOn(g, D) /\ IntegerOn(h, K)
  BY <1>1, <1>8 DEF IntegerOn
<1>11. \A m \in E : m.qty \in Int
  BY <1>2, <1>4, <1>8
<1>12. IntegerOn(f, E)
  BY <1>11 DEF IntegerOn
<1>13. Renamed(g, f, p, D)
  BY <1>2, <1>5 DEF Renamed
<1>14. SameOn(g, h, D)
  BY <1>6 DEF SameOn
<1>15. SumFunction(f) = SumFunction(g) /\ SumFunction(h) = SumFunction(g)
  <2> HIDE DEF f, g, h, p
  <2> QED
    BY <1>1, <1>6, <1>7, <1>9, <1>10, <1>12, <1>13, <1>14, SumRenamedTo, SumOfPart
<1> QED BY <1>15 DEF TakenUpTo, PartSum, E, K

\* What the shares from the first on have in common with others.
LEMMA CommonFromFirst ==
  ASSUME NEW b \in Nat, NEW c \in Nat, NEW d \in Nat
  PROVE  /\ b <= d => Common(0, b, c, d) = Monus(b, c)
         /\ c <= d => Common(0, b, c, d) = Least(b, d) - Least(b, c)
<1>1. Common(0, b, c, d) = Monus(Least(b, d), IF 0 > c THEN 0 ELSE c)
  BY CommonIs
<1>2. (IF 0 > c THEN 0 ELSE c) = c
  OBVIOUS
<1> QED BY <1>1, <1>2 DEF Monus, Least

\* A book that is first in, first out is so at every instant.
LEMMA BookByInstant ==
  ASSUME NEW s, TradesFit(tx, LiveBuys(tx, s) \cup LiveSells(tx, s)), FifoScope(s)
  PROVE  FifoByInstant(s)
<1> DEFINE B == LiveBuys(tx, s)
           S == LiveSells(tx, s)
<1>1. PICK left, taken : BookTells(tx, s, LotsOf(s), matches, left, taken)
  BY DEF FifoScope
<1>2. TradesFit(tx, B) /\ TradesFit(tx, S)
  <2>1. IsFiniteSet(S) /\ IsFiniteSet(B)
    BY FS_Subset DEF TradesFit
  <2> QED BY <2>1 DEF TradesFit
<1>3. /\ LotsOf(s) = {LotRow(s, LotOf(tx, b, left[b])) : b \in B}
      /\ \A e \in S :
           MatchesOf(e, matches) = {MatchRow(s, e, f) : f \in FillsFor(tx, B, taken[e])}
      /\ LeftFits(tx, B, S, left)
      /\ \A e \in S : TakenFits(tx, B, S, e, taken[e])
  BY <1>1 DEF BookTells, FifoShares
<1> SUFFICES ASSUME NEW buy \in B
             PROVE  /\ LeftUpTo(LotsOf(s), tx[buy].time)
                         = Common(0, SharesOf({b \in B : tx[b].time <= tx[buy].time}),
                                  SharesOf(S), SharesOf(B))
                    /\ \A e \in S :
                         TakenUpTo(MatchesOf(e, matches), tx[buy].time)
                           = Common(0, SharesOf({b \in B : tx[b].time <= tx[buy].time}),
                                    Start(S, e), Finish(S, e))
  BY DEF FifoByInstant
<1> DEFINE now == tx[buy].time
           K == Cut(tx, B, now + 1, 0)
           bought == Shares(tx, K)
<1>4. now \in Nat
  BY <1>2 DEF TradesFit
<1>5. /\ {b \in B : tx[b].time <= now} = K /\ now + 1 \in Nat /\ K \in SUBSET B
  BY <1>2, <1>4, UpToInstant
<1>6. /\ bought \in Nat /\ Shares(tx, B) \in Nat /\ Shares(tx, S) \in Nat
      /\ bought <= Shares(tx, B)
  BY <1>2, <1>5, SharesGrow
<1>7. SharesOf({b \in B : tx[b].time <= now}) = bought
  BY <1>5, StartIsShares
<1>8. LeftUpTo(LotsOf(s), now) = Common(0, bought, SharesOf(S), SharesOf(B))
  <2>1. LeftUpTo(LotsOf(s), now) = PartSum(left, K)
    BY <1>2, <1>3, <1>4, LeftOfLots DEF LeftFits
  <2>2. PartSum(left, K) = Monus(bought, Shares(tx, S))
    BY <1>3, <1>5 DEF LeftFits
  <2>3. SharesOf(S) = Shares(tx, S) /\ SharesOf(B) = Shares(tx, B)
    BY StartIsShares
  <2> HIDE DEF bought
  <2>4. Common(0, bought, Shares(tx, S), Shares(tx, B)) = Monus(bought, Shares(tx, S))
    BY <1>6, CommonFromFirst
  <2> QED BY <2>1, <2>2, <2>3, <2>4
<1>9. ASSUME NEW e \in S
      PROVE  TakenUpTo(MatchesOf(e, matches), now)
               = Common(0, bought, Start(S, e), Finish(S, e))
  <2> DEFINE t == taken[e]
             st == Shares(tx, Before(tx, S, e))
             q == tx[e].qty
  <2>1. TakenFits(tx, B, S, e, t)
    BY <1>3
  <2>2. TakenUpTo(MatchesOf(e, matches), now) = PartSum(t, K)
    <3>1. t \in [B -> Nat]
      BY <2>1 DEF TakenFits
    <3>2. MatchesOf(e, matches) = {MatchRow(s, e, f) : f \in FillsFor(tx, B, t)}
      BY <1>3
    <3> HIDE DEF t, B, S
    <3> QED BY <1>2, <1>4, <3>1, <3>2, TakenOfMatches
  <2>3. PartSum(t, K) = Least(bought, st + q) - Least(bought, st)
    BY <2>1, <1>5 DEF TakenFits
  <2>4. st \in Nat /\ q \in Nat
    <3>1. Before(tx, S, e) \in SUBSET S
      BY DEF Before, Cut
    <3> QED BY <1>2, <3>1, SharesGrow DEF TradesFit
  <2>5. Start(S, e) = st /\ Finish(S, e) = st + q
    BY StartIsShares
  <2> HIDE DEF bought, st, q
  <2>6. Common(0, bought, st, st + q) = Least(bought, st + q) - Least(bought, st)
    <3>1. st + q \in Nat /\ st <= st + q
      BY <2>4
    <3> QED BY <1>6, <2>4, <3>1, CommonFromFirst
  <2> QED BY <2>2, <2>3, <2>5, <2>6
<1> QED BY <1>7, <1>8, <1>9

\* No other trade of B is at the time of b.
AloneAtItsTime(w, B, b) == \A c \in B : c # b => w[c].time # w[b].time

\* One buy is what the instants before and after it differ in.
LEMMA BuyBetweenInstants ==
  ASSUME NEW w, NEW B, TradesFit(w, B), NEW b \in B, AloneAtItsTime(w, B, b),
         NEW f \in [B -> Nat]
  PROVE  LET lo == Cut(w, B, w[b].time, 0)
             hi == Cut(w, B, w[b].time + 1, 0) IN
         /\ w[b].time \in Nat /\ w[b].time + 1 \in Nat /\ w[b].qty \in Nat
         /\ lo = Before(w, B, b) /\ lo \in SUBSET B /\ hi \in SUBSET B
         /\ Shares(w, lo) \in Nat /\ Shares(w, hi) = w[b].qty + Shares(w, lo)
         /\ Shares(w, hi) <= Shares(w, B)
         /\ f[b] \in Nat
         /\ PartSum(f, hi) = f[b] + PartSum(f, lo)
         /\ PartSum(f, lo) \in Int
<1> DEFINE lo == Cut(w, B, w[b].time, 0)
           hi == Cut(w, B, w[b].time + 1, 0)
<1>1. /\ \A t \in B : t \in Nat /\ w[t].time \in Nat /\ w[t].qty \in Nat
      /\ IsFiniteSet(B)
  BY DEF TradesFit
<1>2. \A t \in B : w[t].time = w[b].time => t = b
  BY DEF AloneAtItsTime
<1>3. lo = Before(w, B, b) /\ lo \in SUBSET B /\ hi \in SUBSET B
  BY <1>1, <1>2 DEF Before, Cut
<1>4. With(hi, lo, b)
  <2>1. \A t \in B : w[t].time < w[b].time + 1 <=> w[t].time < w[b].time \/ t = b
    BY <1>1, <1>2
  <2>2. \A t \in hi : t \in lo \/ t = b
    BY <1>1, <2>1 DEF Cut
  <2>3. \A t \in lo : t \in hi /\ t # b
    BY <1>1, <2>1 DEF Cut
  <2>4. b \in hi
    BY <1>1, <2>1 DEF Cut
  <2> HIDE DEF lo, hi
  <2>5. hi = lo \cup {b}
    BY <2>2, <2>3, <2>4
  <2> QED BY <2>3, <2>5 DEF With
<1> HIDE DEF lo, hi
<1>5. Shares(w, hi) = w[b].qty + Shares(w, lo)
  BY <1>3, <1>4, OneMoreShare
<1>6. /\ Shares(w, lo) \in Nat /\ Shares(w, hi) <= Shares(w, B)
      /\ IsFiniteSet(lo)
  BY <1>3, SharesGrow
<1>7. PartSum(f, hi) = f[b] + PartSum(f, lo)
  <2>1. Alike(f, f, lo) /\ f[b] \in Int
    BY <1>3 DEF Alike
  <2> QED BY <1>4, <1>6, <2>1, OneMoreSummand
<1>8. PartSum(f, lo) \in Int
  <2>1. IntegerOn(f, B)
    BY DEF IntegerOn
  <2> QED BY <1>1, <1>3, <2>1, PartSplits
<1> QED BY <1>1, <1>3, <1>5, <1>6, <1>7, <1>8 DEF lo, hi

\* The shares after the first have in common with others what both ends tell.
LEMMA CommonOfEnds ==
  ASSUME NEW a \in Nat, NEW q \in Nat, NEW c \in Nat, NEW d \in Nat
  PROVE  /\ a + q <= d => Common(a, a + q, c, d) = Monus(a + q, c) - Monus(a, c)
         /\ c <= d => Common(a, a + q, c, d)
                        = (Least(a + q, d) - Least(a + q, c))
                            - (Least(a, d) - Least(a, c))
         /\ Common(a, a + q, c, d) \in Nat
<1>1. a + q \in Nat
  OBVIOUS
<1>2. Common(a, a + q, c, d) = Monus(Least(a + q, d), IF a > c THEN a ELSE c)
  BY <1>1, CommonIs
<1>3. CASE a > c
  <2>1. Common(a, a + q, c, d) = Monus(Least(a + q, d), a)
    BY <1>2, <1>3
  <2> QED BY <1>3, <2>1 DEF Monus, Least
<1>4. CASE ~(a > c)
  <2>1. Common(a, a + q, c, d) = Monus(Least(a + q, d), c)
    BY <1>2, <1>4
  <2> QED BY <1>4, <2>1 DEF Monus, Least
<1> QED BY <1>3, <1>4

\* When no two buys are at one instant, each lot and each match is told.
LEMMA SharesOfEachBuy ==
  ASSUME NEW s, NEW B, NEW S, TradesFit(tx, B), TradesFit(tx, S),
         NEW b \in B, AloneAtItsTime(tx, B, b)
  PROVE  /\ \A left : LeftFits(tx, B, S, left) =>
              left[b] = Common(Start(B, b), Finish(B, b), SharesOf(S), SharesOf(B))
         /\ \A e \in S : \A taken : TakenFits(tx, B, S, e, taken) =>
              /\ taken[b] = Common(Start(B, b), Finish(B, b), Start(S, e), Finish(S, e))
              /\ taken[b] \in Nat
<1> DEFINE lo == Cut(tx, B, tx[b].time, 0)
           hi == Cut(tx, B, tx[b].time + 1, 0)
           a == Shares(tx, lo)
           q == tx[b].qty
           n == Shares(tx, B)
           m == Shares(tx, S)
<1>1. m \in Nat /\ n \in Nat
  BY SharesGrow
<1>2. SharesOf(S) = m /\ SharesOf(B) = n
  BY StartIsShares
<1>3. ASSUME NEW left, LeftFits(tx, B, S, left)
      PROVE  left[b] = Common(Start(B, b), Finish(B, b), SharesOf(S), SharesOf(B))
  <2>1. left \in [B -> Nat]
    BY <1>3 DEF LeftFits
  <2>2. /\ tx[b].time \in Nat /\ tx[b].time + 1 \in Nat /\ q \in Nat
        /\ lo = Before(tx, B, b) /\ a \in Nat /\ Shares(tx, hi) = q + a
        /\ q + a <= n /\ left[b] \in Nat
        /\ PartSum(left, hi) = left[b] + PartSum(left, lo)
        /\ PartSum(left, lo) \in Int
    BY <2>1, BuyBetweenInstants
  <2>3. PartSum(left, lo) = Monus(a, m) /\ PartSum(left, hi) = Monus(q + a, m)
    BY <1>3, <2>2 DEF LeftFits
  <2>4. Start(B, b) = a /\ Finish(B, b) = a + q
    BY <2>2, StartIsShares
  <2> HIDE DEF a, q, n, m, lo, hi
  <2>5. q + a = a + q
    BY <2>2
  <2>6. Common(a, a + q, m, n) = Monus(a + q, m) - Monus(a, m)
    BY <1>1, <2>2, <2>5, CommonOfEnds
  <2>7. left[b] = Monus(a + q, m) - Monus(a, m)
    BY <2>2, <2>3, <2>5
  <2> QED BY <1>2, <2>4, <2>6, <2>7
<1>4. ASSUME NEW e \in S, NEW taken, TakenFits(tx, B, S, e, taken)
      PROVE  /\ taken[b] = Common(Start(B, b), Finish(B, b), Start(S, e), Finish(S, e))
             /\ taken[b] \in Nat
  <2> DEFINE st == Shares(tx, Before(tx, S, e))
             k == tx[e].qty
  <2>1. taken \in [B -> Nat]
    BY <1>4 DEF TakenFits
  <2>2. /\ tx[b].time \in Nat /\ tx[b].time + 1 \in Nat /\ q \in Nat
        /\ lo = Before(tx, B, b) /\ a \in Nat /\ Shares(tx, hi) = q + a
        /\ taken[b] \in Nat
        /\ PartSum(taken, hi) = taken[b] + PartSum(taken, lo)
        /\ PartSum(taken, lo) \in Int
    BY <2>1, BuyBetweenInstants
  <2>3. /\ PartSum(taken, lo) = Least(a, st + k) - Least(a, st)
        /\ PartSum(taken, hi) = Least(q + a, st + k) - Least(q + a, st)
    BY <1>4, <2>2 DEF TakenFits
  <2>4. Start(B, b) = a /\ Finish(B, b) = a + q
    BY <2>2, StartIsShares
  <2>5. Start(S, e) = st /\ Finish(S, e) = st + k
    BY StartIsShares
  <2>6. st \in Nat /\ k \in Nat
    <3>1. Before(tx, S, e) \in SUBSET S
      BY DEF Before, Cut
    <3> QED BY <3>1, SharesGrow DEF TradesFit
  <2> HIDE DEF a, q, lo, hi, st, k
  <2>7. q + a = a + q /\ st + k \in Nat /\ st <= st + k
    BY <2>2, <2>6
  <2>8. Common(a, a + q, st, st + k)
          = (Least(a + q, st + k) - Least(a + q, st))
              - (Least(a, st + k) - Least(a, st))
    BY <2>2, <2>6, <2>7, CommonOfEnds
  <2>9. /\ PartSum(taken, hi) = Least(a + q, st + k) - Least(a + q, st)
        /\ PartSum(taken, lo) = Least(a, st + k) - Least(a, st)
    BY <2>3, <2>7
  <2>10. taken[b] = PartSum(taken, hi) - PartSum(taken, lo)
    BY <2>2
  <2> QED BY <2>2, <2>4, <2>5, <2>8, <2>9, <2>10
<1> QED BY <1>3, <1>4

\* With no two buys at one instant, the lots and matches are the abstract ones.
LEMMA BookAtDistinctTimes ==
  ASSUME NEW s, TradesFit(tx, LiveBuys(tx, s) \cup LiveSells(tx, s)),
         LedgerRowsResolve, BuysAtDistinctTimes(s), FifoScope(s)
  PROVE  FifoBook(s)
<1> DEFINE B == LiveBuys(tx, s)
           S == LiveSells(tx, s)
           Qty(b, e) == Common(Start(B, b), Finish(B, b), Start(S, e), Finish(S, e))
           Rem(b) == Common(Start(B, b), Finish(B, b), SharesOf(S), SharesOf(B))
           lot(b) == [scope |-> s, src |-> b, orig |-> tx[b].qty, rem |-> Rem(b),
                      unit |-> UnitCost(b), openedAt |-> tx[b].time]
           match(b, e) == [scope |-> s, sell |-> e, src |-> b, qty |-> Qty(b, e),
                           unit |-> UnitCost(b)]
<1>1. PICK left, taken : BookTells(tx, s, LotsOf(s), matches, left, taken)
  BY DEF FifoScope
<1>2. TradesFit(tx, B) /\ TradesFit(tx, S)
  <2>1. IsFiniteSet(S) /\ IsFiniteSet(B)
    BY FS_Subset DEF TradesFit
  <2> QED BY <2>1 DEF TradesFit
<1>3. /\ LotsOf(s) = {LotRow(s, LotOf(tx, b, left[b])) : b \in B}
      /\ \A e \in S :
           MatchesOf(e, matches) = {MatchRow(s, e, f) : f \in FillsFor(tx, B, taken[e])}
      /\ LeftFits(tx, B, S, left)
      /\ \A e \in S : TakenFits(tx, B, S, e, taken[e])
  BY <1>1 DEF BookTells, FifoShares
<1>4. \A b \in B : AloneAtItsTime(tx, B, b)
  BY DEF BuysAtDistinctTimes, AloneAtItsTime
<1>5. FifoLots(s) = {lot(b) : b \in B}
  BY DEF FifoLots
<1>6. FifoMatches(s)
        = {match(p[1], p[2]) : p \in {x \in B \X S : Qty(x[1], x[2]) > 0}}
  BY DEF FifoMatches
<1>7. \A b \in B : UnitCost(b) = UnitOf(tx, b)
  BY DEF UnitCost, UnitOf
<1> HIDE DEF B, S, Qty, Rem
<1>8. \A b \in B : left[b] = Rem(b)
  BY <1>2, <1>3, <1>4, SharesOfEachBuy DEF Rem
<1>9. \A e \in S : \A b \in B : taken[e][b] = Qty(b, e) /\ taken[e][b] \in Nat
  <2> SUFFICES ASSUME NEW e \in S, NEW b \in B
               PROVE  taken[e][b] = Qty(b, e) /\ taken[e][b] \in Nat
    OBVIOUS
  <2>1. TakenFits(tx, B, S, e, taken[e])
    BY <1>3
  <2> QED BY <1>2, <1>4, <2>1, SharesOfEachBuy DEF Qty
<1>10. \A b \in B : LotRow(s, LotOf(tx, b, left[b])) = lot(b)
  BY <1>7, <1>8 DEF LotRow, LotOf
<1>11. LotsOf(s) = FifoLots(s)
  <2> HIDE DEF lot
  <2> QED BY <1>3, <1>5, <1>10
<1>12. \A e \in S : \A b \in B :
         MatchRow(s, e, [src |-> b, qty |-> taken[e][b], unit |-> UnitOf(tx, b)])
           = match(b, e)
  BY <1>7, <1>9 DEF MatchRow
<1> HIDE DEF lot
<1>13. \A b, e : match(b, e).scope = s /\ match(b, e).sell = e
  OBVIOUS
<1> HIDE DEF match
<1>14. ASSUME NEW m \in ScopeMatches(s)
       PROVE  m \in FifoMatches(s)
  <2>1. m \in matches /\ m.sell \in S
    BY DEF ScopeMatches, LedgerRowsResolve, S
  <2> DEFINE e == m.sell
  <2>2. m \in MatchesOf(e, matches)
    BY <2>1 DEF MatchesOf
  <2>3. PICK f \in FillsFor(tx, B, taken[e]) : m = MatchRow(s, e, f)
    BY <1>3, <2>1, <2>2
  <2>4. PICK b \in B : /\ taken[e][b] # 0
                       /\ f = [src |-> b, qty |-> taken[e][b], unit |-> UnitOf(tx, b)]
    BY <2>3 DEF FillsFor
  <2>5. m = match(b, e)
    BY <1>12, <2>1, <2>3, <2>4
  <2>6. Qty(b, e) > 0
    BY <1>9, <2>1, <2>4
  <2> HIDE DEF e
  <2>7. e \in S
    BY <2>1 DEF e
  <2> DEFINE p == <<b, e>>
  <2>8. p \in {x \in B \X S : Qty(x[1], x[2]) > 0} /\ p[1] = b /\ p[2] = e
    BY <2>6, <2>7
  <2> HIDE DEF p
  <2> QED BY <1>6, <2>5, <2>8
<1>15. ASSUME NEW m \in FifoMatches(s)
       PROVE  m \in ScopeMatches(s)
  <2>1. PICK p \in {x \in B \X S : Qty(x[1], x[2]) > 0} : m = match(p[1], p[2])
    BY <1>6
  <2> DEFINE b == p[1]
             e == p[2]
  <2>2. b \in B /\ e \in S /\ Qty(b, e) > 0 /\ m = match(b, e)
    BY <2>1
  <2> HIDE DEF b, e
  <2>3. taken[e][b] # 0
    BY <1>9, <2>2
  <2>4. [src |-> b, qty |-> taken[e][b], unit |-> UnitOf(tx, b)] \in FillsFor(tx, B, taken[e])
    BY <2>2, <2>3 DEF FillsFor
  <2>5. m \in MatchesOf(e, matches)
    <3> DEFINE f == [src |-> b, qty |-> taken[e][b], unit |-> UnitOf(tx, b)]
    <3>1. MatchRow(s, e, f) = m
      BY <1>12, <2>2
    <3>2. f \in FillsFor(tx, B, taken[e])
      BY <2>4
    <3> HIDE DEF f
    <3>3. MatchesOf(e, matches) = {MatchRow(s, e, g) : g \in FillsFor(tx, B, taken[e])}
      BY <1>3, <2>2
    <3>4. QED BY <3>1, <3>2, <3>3
  <2> QED BY <1>13, <2>2, <2>5 DEF MatchesOf, ScopeMatches
<1> QED BY <1>11, <1>14, <1>15 DEF FifoBook

\* What the invariant says of a scope.
LEMMA FifoInvIsChronological ==
  ASSUME FifoInv
  PROVE  ChronologicalFifo
<1>1. BookInv /\ TableFits(tx) /\ LedgerRowsResolve
  BY DEF FifoInv, BookInv
<1> SUFFICES ASSUME NEW s \in Scopes
             PROVE  /\ FifoFeasible(s)
                    /\ FifoByInstant(s)
                    /\ BuysAtDistinctTimes(s) => FifoBook(s)
  BY DEF ChronologicalFifo
<1>2. FifoScope(s)
  BY DEF FifoInv
<1>3. /\ TradesFit(tx, LiveBuys(tx, s) \cup LiveSells(tx, s))
      /\ LiveBuys(tx, s) \cap LiveSells(tx, s) = {}
  <2>1. /\ TradesFit(tx, LiveTrades(tx, s))
        /\ LiveBuys(tx, s) \cup LiveSells(tx, s) = LiveTrades(tx, s)
        /\ LiveBuys(tx, s) \cap LiveSells(tx, s) = {}
    BY <1>1, ScopeFits
  <2> QED BY <2>1
<1>4. Covers(tx, LiveBuys(tx, s), LiveSells(tx, s))
  BY <1>2 DEF FifoScope, BookTells, FifoShares
<1>5. FifoFeasible(s)
  BY <1>3, <1>4, FeasibleBook
<1>6. FifoByInstant(s)
  BY <1>2, <1>3, BookByInstant
<1> QED BY <1>1, <1>2, <1>3, <1>5, <1>6, BookAtDistinctTimes

(***************************************************************************)
(* README.md: sells use FIFO lots, backdated changes rebuild the scope.    *)
(* Whatever the sequence of creates, updates and deletes, no live sell     *)
(* reaches past the shares bought before it, the lots and matches are      *)
(* first in, first out up to every instant, and where no two buys of a     *)
(* scope are at one instant they are, row by row, those of the abstract    *)
(* book.                                                                   *)
(***************************************************************************)
THEOREM SharesAreFirstInFirstOut == Spec => []ChronologicalFifo
<1> QED BY FifoInvariant, FifoInvIsChronological, PTL

(***************************************************************************)
(* Nothing of this depends on whose accounts they are: when administrators *)
(* move trades between the accounts of two users, the shares of every      *)
(* scope stay first in, first out, every lot and match keeps its live      *)
(* trade, and the positions agree with the open lots.                      *)
(***************************************************************************)
THEOREM MovesKeepShares ==
  AdminSpec => [](ChronologicalFifo /\ LedgerRowsResolve /\ PositionMatchesOpenLots)
<1>1. ASSUME FifoInv, [AdminNext]_vars PROVE FifoInv'
  <2>1. CASE Next
    BY <1>1, <2>1, NextKeepsFifo
  <2>2. ASSUME NEW t \in TxIds, NEW r \in Inputs, Update(t, r) PROVE FifoInv'
    BY <1>1, <2>2, UpdateKeepsFifo, InputsAreRows
  <2>3. CASE UNCHANGED vars
    BY <1>1, <2>3, UntouchedFifo DEF vars
  <2> QED BY <1>1, <2>1, <2>2, <2>3 DEF AdminNext
<1>2. FifoInv => ChronologicalFifo /\ LedgerRowsResolve /\ PositionMatchesOpenLots
  BY FifoInvIsChronological DEF FifoInv, BookInv
<1> QED BY InitFifo, <1>1, <1>2, PTL DEF AdminSpec
=============================================================================
