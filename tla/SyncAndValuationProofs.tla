----------------------- MODULE SyncAndValuationProofs -----------------------
(***************************************************************************)
(* What is built on the book of Ledger: the split sync, under which the    *)
(* book and its journal stay in order while syncs run between the          *)
(* operations of users, fail and are started again, and what is read from  *)
(* it, the shown position, the dashboard and the rebalance.                *)
(***************************************************************************)
EXTENDS CorpActionSyncProperties, ValuationProperties, LedgerProofs

(***************************************************************************)
(* The rows are left alone: replaying a scope and posting its live sells   *)
(* again keeps every entry right.                                          *)
(***************************************************************************)
LEMMA ReplayScopeKeepsJournal ==
  ASSUME JournalInv, NEW y \in Syncs, NEW s \in Scopes, ReplayScope(y, s)
  PROVE  JournalInv'
<1>1. /\ tx' = tx
      /\ {s} \in SUBSET Scopes
      /\ RebuildScopes({s})
      /\ PostTransactions(Reposted({s}), {})
  BY DEF ReplayScope
<1>2. /\ Reposted({s}) \in SUBSET TxIds
      /\ {} \in SUBSET TxIds
      /\ \A u \in Reposted({s}) : tx'[u] # NoTx /\ tx'[u] \in TxRow
  BY <1>1 DEF Reposted, LiveSells, LiveTrades, ScopedIds, JournalInv, TypeOK
<1>3. /\ MatchesInScope'
      /\ \A u \in TxIds \ Reposted({s}) :
           Live(u)' /\ tx'[u] = tx[u] =>
             PostedEntry(u, tx', matches') = PostedEntry(u, tx, matches)
  <2>1. \A u \in TxIds : tx[u] # NoTx /\ tx'[u] # tx[u] =>
          ScopesOf(tx[u]) \subseteq {s}
    BY <1>1
  <2>2. QED BY <1>1, <2>1, RebuildKeepsMatches, JournalIsOwned
<1>4. TypeOK'
  <2>1. /\ \A l \in lots' : l.scope \in Scopes
        /\ \A m \in matches' : m.scope \in Scopes /\ m.sell \in TxIds
        /\ \A p \in positions' : p.scope \in Scopes /\ p.open \in BOOLEAN
    BY <1>1, RebuildTypeOK DEF JournalInv
  <2>2. \A e \in gl' :
          e.ref \in TxIds /\ e.account \in Accounts /\ e.date \in Nat
    BY <1>1, <1>2, PostingTypeOK DEF JournalInv
  <2>3. QED BY <1>1, <2>1, <2>2 DEF TypeOK, JournalInv
<1>5. EntriesOwned' /\ OwnersEntryCurrent'
  <2>1. /\ \A u \in TxIds : tx[u] # NoTx /\ tx'[u] # NoTx =>
             Owner[tx'[u].account] = Owner[tx[u].account]
        /\ \A u \in TxIds : tx[u] # NoTx /\ tx'[u] = NoTx => u \in {}
        /\ \A u \in TxIds \ Reposted({s}) : Live(u)' =>
             /\ u \notin {}
             /\ Live(u)
             /\ PostedEntry(u, tx', matches') = PostedEntry(u, tx, matches)
    BY <1>1, <1>3 DEF Live, Exists
  <2>2. OwnersInv /\ EntriesOwned
    BY JournalIsOwned
  <2>3. EntriesOwned'
    BY <1>1, <1>2, <2>1, <2>2, PostingKeepsOwned DEF OwnersInv
  <2>4. OwnersEntryCurrent'
    BY <1>1, <1>2, <2>1, <2>2, PostingKeepsOwners DEF OwnersInv
  <2>5. QED BY <2>3, <2>4
<1>6. OwnersInv'
  BY <1>3, <1>4, <1>5 DEF OwnersInv
<1>7. QED BY <1>5, <1>6, JournalIsOwned, PTL

(***************************************************************************)
(* A step that leaves the rows, the matches and the journal alone.         *)
(***************************************************************************)
LEMMA BookUntouched ==
  ASSUME JournalInv, UNCHANGED bookVars
  PROVE  JournalInv'
BY DEF bookVars, JournalInv, TypeOK, MatchesInScope, EntriesOwned,
       LiveEntriesCurrent, EntriesOf, Live, Exists

(***************************************************************************)
(* An operation of a user, which the sync does not hinder.                 *)
(***************************************************************************)
LEMMA EditKeepsJournal ==
  ASSUME JournalInv, Next
  PROVE  JournalInv'
BY CreateKeepsJournal, UpdateKeepsJournal, DeleteKeepsJournal, InputsAreRows DEF Next

(***************************************************************************)
(* However many syncs run, fail and interleave with the users, and         *)
(* whatever the provider reports, every live transaction has exactly one   *)
(* entry, at the cost of its current matches.                              *)
(***************************************************************************)
THEOREM SyncKeepsJournal == SyncSpec => []LiveEntriesCurrent
<1>1. SyncInit => JournalInv
  BY InitJournal DEF SyncInit
<1>2. ASSUME JournalInv, [SyncNext]_allVars
      PROVE  JournalInv'
  <2>1. CASE EditBook
    BY <1>2, <2>1, EditKeepsJournal DEF EditBook
  <2>2. ASSUME NEW y \in Syncs, NEW s \in Scopes, ReplayScope(y, s)
        PROVE  JournalInv'
    BY <1>2, <2>2, ReplayScopeKeepsJournal
  <2>3. ASSUME NEW y \in Syncs,
               \/ StartSync(y) \/ ResolveScopes(y) \/ EndSync(y)
               \/ SyncFails(y)
               \/ \E x \in Assets : FetchEvents(y, x)
               \/ \E e \in SplitNews : UpsertEvent(y, e)
               \/ \E s \in Scopes : ReplayFails(y, s)
        PROVE  JournalInv'
    BY <1>2, <2>3, BookUntouched
       DEF StartSync, ResolveScopes, EndSync, SyncFails, FetchEvents,
           UpsertEvent, ReplayFails, vars, bookVars
  <2>4. ASSUME NEW e \in SplitNews, Report(e)
        PROVE  JournalInv'
    BY <1>2, <2>4, BookUntouched DEF Report, vars, bookVars
  <2>5. CASE UNCHANGED allVars
    BY <1>2, <2>5, BookUntouched DEF allVars, vars, bookVars
  <2>6. QED BY <1>2, <2>1, <2>2, <2>3, <2>4, <2>5
            DEF SyncNext, SyncOrReport, SyncStep
<1>3. JournalInv => LiveEntriesCurrent
  BY DEF JournalInv
<1>4. QED BY <1>1, <1>2, <1>3, PTL DEF SyncSpec

-----------------------------------------------------------------------------
(***************************************************************************)
(* The recorded splits.  There is one row for a key, and a key that a sync *)
(* has upserted has its row, for as long as the sync may record it as      *)
(* applied.                                                                *)
(***************************************************************************)
SyncStates ==
  [phase : {"idle", "fetch", "replay"}, assets : SUBSET Assets,
   events : SUBSET SplitNews, upserted : SUBSET {ActionKey(e) : e \in SplitNews},
   scopes : SUBSET Scopes]

OneRowOfEachKey == \A a, b \in splits : ActionKey(a) = ActionKey(b) => a = b

Recorded(key) == \E a \in splits : ActionKey(a) = key

SplitsInv ==
  /\ reported \subseteq SplitNews
  /\ sync \in [Syncs -> SyncStates]
  /\ OneRowOfEachKey
  /\ \A y \in Syncs : \A key \in sync[y].upserted : Recorded(key)

(***************************************************************************)
(* A step that leaves the splits alone and applies what a sync upserted.   *)
(***************************************************************************)
LEMMA SplitsUntouched ==
  ASSUME SplitsInv, UNCHANGED splits, reported' \subseteq SplitNews,
         sync' \in [Syncs -> SyncStates],
         \A y \in Syncs : sync'[y].upserted \subseteq sync[y].upserted,
         \A p \in applications' \ applications : Recorded(p[1])
  PROVE  SplitsInv' /\ RecordedSplitsStayStep
<1>1. SplitsInv'
  BY DEF SplitsInv, OneRowOfEachKey, Recorded
<1>2. RecordedSplitsStayStep
  BY DEF RecordedSplitsStayStep, SplitsInv, OneRowOfEachKey, Recorded
<1>3. QED BY <1>1, <1>2

(***************************************************************************)
(* An event replaces the row of its key.                                   *)
(***************************************************************************)
LEMMA UpsertKeepsSplits ==
  ASSUME SplitsInv, NEW y \in Syncs, NEW e \in SplitNews, UpsertEvent(y, e)
  PROVE  SplitsInv' /\ RecordedSplitsStayStep
<1>1. /\ splits' = {a \in splits : ActionKey(a) # ActionKey(e)} \cup {e}
      /\ UNCHANGED <<reported, applications>>
      /\ sync' = [sync EXCEPT ![y].events   = @ \ {e},
                              ![y].upserted = @ \cup {ActionKey(e)}]
  BY DEF UpsertEvent, outsideVars
<1>2. sync[y] \in SyncStates
  BY DEF SplitsInv
<1>3. /\ sync' \in [Syncs -> SyncStates]
      /\ sync'[y].upserted = sync[y].upserted \cup {ActionKey(e)}
      /\ \A z \in Syncs \ {y} : sync'[z] = sync[z]
  BY <1>1, <1>2 DEF SplitsInv, SyncStates
<1>4. \A a \in splits : \E b \in splits' : ActionKey(a) = ActionKey(b)
  BY <1>1
<1>5. OneRowOfEachKey'
  <2>1. \A a, b \in splits' : ActionKey(a) = ActionKey(b) => a = b
    BY <1>1 DEF SplitsInv, OneRowOfEachKey
  <2>2. QED BY <2>1 DEF OneRowOfEachKey, ActionKey
<1>6. ASSUME NEW z \in Syncs, NEW key \in sync'[z].upserted
      PROVE  Recorded(key)'
  <2>1. key = ActionKey(e) \/ Recorded(key)
    BY <1>3 DEF SplitsInv
  <2>2. \E b \in splits' : ActionKey(b) = key
    BY <1>1, <1>4, <2>1 DEF Recorded
  <2>3. QED BY <2>2 DEF Recorded, ActionKey
<1>7. SplitsInv'
  BY <1>1, <1>3, <1>5, <1>6 DEF SplitsInv
<1>8. RecordedSplitsStayStep
  BY <1>1, <1>4, <1>5 DEF RecordedSplitsStayStep, OneRowOfEachKey, ActionKey
<1>9. QED BY <1>7, <1>8

(***************************************************************************)
(* No operation of a user records a split.                                 *)
(***************************************************************************)
LEMMA EditKeepsSplits ==
  ASSUME EditBook
  PROVE  UNCHANGED splits
BY ZenonT(60) DEF EditBook, Next, Create, CreateBuyIncrementally, CreateSellIncrementally,
       CreateWithReplay, CreateCashMovement, Insert, UpdateOwn, Update, SoftDelete,
       HardDelete

\* Initially there are no splits.
LEMMA InitSplits == SyncInit => SplitsInv
BY DEF SyncInit, Init, SplitsInv, SyncStates, Idle, OneRowOfEachKey

(***************************************************************************)
(* Every step keeps the recorded splits, one case for each action.         *)
(***************************************************************************)
LEMMA SplitsStep ==
  ASSUME SplitsInv, [SyncNext]_allVars
  PROVE  SplitsInv' /\ RecordedSplitsStayStep
<1>0. reported \subseteq SplitNews
      /\ sync \in [Syncs -> SyncStates] /\ Idle \in SyncStates /\ Idle.upserted = {}
  BY DEF SplitsInv, SyncStates, Idle
<1>1. CASE reported' \subseteq SplitNews /\ UNCHANGED <<splits, sync, applications>>
  BY <1>0, <1>1, SplitsUntouched
<1>2. ASSUME NEW y \in Syncs, NEW r \in SyncStates, sync' = [sync EXCEPT ![y] = r],
             r.upserted \subseteq sync[y].upserted,
             UNCHANGED <<reported, splits, applications>>
      PROVE  SplitsInv' /\ RecordedSplitsStayStep
  <2>1. sync' \in [Syncs -> SyncStates]
        /\ \A z \in Syncs : sync'[z].upserted \subseteq sync[z].upserted
    BY <1>0, <1>2
  <2>2. QED BY <1>0, <1>2, <2>1, SplitsUntouched
<1>3. ASSUME NEW y \in Syncs, StartSync(y)
      PROVE  SplitsInv' /\ RecordedSplitsStayStep
  <2> DEFINE r == [Idle EXCEPT !.phase = "fetch", !.assets = AssetsToSync]
  <2>1. r \in SyncStates /\ r.upserted = {}
    BY DEF SyncStates, Idle, AssetsToSync
  <2>2. sync' = [sync EXCEPT ![y] = r] /\ UNCHANGED <<reported, splits, applications>>
    BY <1>3 DEF StartSync, vars, outsideVars
  <2> HIDE DEF r
  <2>3. QED BY <1>2, <2>1, <2>2
<1>4. ASSUME NEW y \in Syncs, NEW x \in Assets, FetchEvents(y, x)
      PROVE  SplitsInv' /\ RecordedSplitsStayStep
  <2> DEFINE r == [sync[y] EXCEPT !.assets = @ \ {x},
                                  !.events = {e \in reported : e.asset = x}]
  <2>1. sync' = [sync EXCEPT ![y] = r] /\ UNCHANGED <<reported, splits, applications>>
    BY <1>4 DEF FetchEvents, vars, outsideVars
  <2>2. r \in SyncStates /\ r.upserted = sync[y].upserted
    BY <1>0 DEF SyncStates
  <2> HIDE DEF r
  <2>3. QED BY <1>2, <2>1, <2>2
<1>5. ASSUME NEW y \in Syncs, NEW e \in SplitNews, UpsertEvent(y, e)
      PROVE  SplitsInv' /\ RecordedSplitsStayStep
  BY <1>5, UpsertKeepsSplits
<1>6. ASSUME NEW y \in Syncs, ResolveScopes(y)
      PROVE  SplitsInv' /\ RecordedSplitsStayStep
  <2> DEFINE r == [sync[y] EXCEPT !.phase = "replay",
                                  !.scopes = AffectedScopes(sync[y].upserted)]
  <2>1. sync' = [sync EXCEPT ![y] = r] /\ UNCHANGED <<reported, splits, applications>>
    BY <1>6 DEF ResolveScopes, vars, outsideVars
  <2>2. r \in SyncStates /\ r.upserted = sync[y].upserted
    BY <1>0 DEF SyncStates, AffectedScopes
  <2> HIDE DEF r
  <2>3. QED BY <1>2, <2>1, <2>2
<1>7. ASSUME NEW y \in Syncs, NEW s \in Scopes, ReplayScope(y, s)
      PROVE  SplitsInv' /\ RecordedSplitsStayStep
  <2> DEFINE r == [sync[y] EXCEPT !.scopes = @ \ {s}]
  <2>1. /\ sync' = [sync EXCEPT ![y] = r] /\ UNCHANGED <<reported, splits>>
        /\ applications' = applications \cup
              {<<k, s[1]>> : k \in {u \in sync[y].upserted : u[1] = s[2]}}
    BY <1>7 DEF ReplayScope, outsideVars
  <2>2. r \in SyncStates /\ r.upserted = sync[y].upserted
    BY <1>0 DEF SyncStates
  <2>3. \A p \in applications' \ applications : p[1] \in sync[y].upserted
    BY <2>1
  <2>4. \A p \in applications' \ applications : Recorded(p[1])
    BY <2>3 DEF SplitsInv
  <2> HIDE DEF r
  <2>5. sync' \in [Syncs -> SyncStates]
        /\ \A z \in Syncs : sync'[z].upserted \subseteq sync[z].upserted
    BY <1>0, <2>1, <2>2
  <2>6. QED BY <1>0, <2>1, <2>4, <2>5, SplitsUntouched
<1>8. ASSUME NEW y \in Syncs,
             EndSync(y) \/ SyncFails(y) \/ \E s \in Scopes : ReplayFails(y, s)
      PROVE  SplitsInv' /\ RecordedSplitsStayStep
  BY <1>0, <1>2, <1>8 DEF EndSync, SyncFails, ReplayFails, vars, outsideVars
<1>9. ASSUME NEW e \in SplitNews, Report(e)
      PROVE  SplitsInv' /\ RecordedSplitsStayStep
  BY <1>0, <1>1, <1>9 DEF Report, vars
<1>10. CASE EditBook
  BY <1>0, <1>1, <1>10, EditKeepsSplits DEF EditBook
<1>11. CASE UNCHANGED allVars
  BY <1>0, <1>1, <1>11 DEF allVars, vars, syncVars
<1>12. QED BY <1>3, <1>4, <1>5, <1>6, <1>7, <1>8, <1>9, <1>10, <1>11
  DEF SyncNext, SyncOrReport, SyncStep

(***************************************************************************)
(* A split that is recorded stays, with one row, and what is recorded as   *)
(* applied is recorded, however syncs overlap, fail and start again        *)
(* (corp-action.service.ts: the upsert by the unique key of the event).    *)
(***************************************************************************)
THEOREM SplitsStay == SyncSpec => RecordedSplitsStay
<1>1. SplitsInv /\ [SyncNext]_allVars => SplitsInv' /\ [RecordedSplitsStayStep]_allVars
  BY SplitsStep
<1>2. QED BY InitSplits, <1>1, PTL DEF SyncSpec, RecordedSplitsStay

-----------------------------------------------------------------------------
(***************************************************************************)
(* The rows of the book.  An event has the day of its key, and there is    *)
(* one event a day, so that the recorded splits can always be applied.     *)
(***************************************************************************)
LEMMA UpsertKeepsBook ==
  ASSUME BookInv, SplitsInv, splits \subseteq SplitNews,
         NEW y \in Syncs, NEW e \in SplitNews, UpsertEvent(y, e)
  PROVE  BookInv' /\ splits' \subseteq SplitNews
<1>1. /\ splits' = {a \in splits : ActionKey(a) # ActionKey(e)} \cup {e}
      /\ UNCHANGED bookVars
  BY DEF UpsertEvent
<1>2. OneRowOfEachKey'
  BY UpsertKeepsSplits DEF SplitsInv
<1>3. splits' \subseteq SplitNews
  BY <1>1
<1>4. IsFiniteSet(splits')
  <2>1. IsFiniteSet({a \in splits : ActionKey(a) # ActionKey(e)})
    BY FS_Subset DEF BookInv, SplitsFit, AreSplits
  <2>2. QED BY <1>1, <2>1, FS_AddElement
<1>5. ASSUME NEW a \in splits', NEW b \in splits',
             a.asset = b.asset, a.exDate = b.exDate
      PROVE  a = b
  <2>1. a.type = b.type
    BY <1>3, <1>5, NewsIsOneADay
  <2>2. ActionKey(a) = ActionKey(b)
    BY <1>5, <2>1 DEF ActionKey
  <2>3. QED BY <1>2, <2>2 DEF OneRowOfEachKey, ActionKey
<1>6. SplitsFit'
  BY <1>3, <1>4, <1>5, NewsHasRatios DEF SplitsFit, AreSplits, HasRatio
<1>7. BookInv'
  BY <1>1, <1>6, UntouchedBook DEF bookVars
<1>8. QED BY <1>3, <1>7

(***************************************************************************)
(* Replaying a scope writes no row, and so keeps the other scopes.         *)
(***************************************************************************)
LEMMA ReplayScopeKeepsBook ==
  ASSUME BookInv, NEW y \in Syncs, NEW s \in Scopes, ReplayScope(y, s)
  PROVE  BookInv'
<1>1. UNCHANGED <<tx, splits>> /\ RebuildScopes({s})
  BY DEF ReplayScope
<1>2. RowChanges({s})
  BY <1>1 DEF RowChanges, BookInv
<1>3. {s} \in SUBSET Scopes /\ IsFiniteSet({s})
  BY FS_Singleton
<1>4. QED BY <1>1, <1>2, <1>3, RebuildKeepsBook

(***************************************************************************)
(* Whatever syncs do between the operations of users, the book stays in    *)
(* order, and so its rows resolve and each position agrees with its open   *)
(* lots.                                                                   *)
(***************************************************************************)
THEOREM SyncKeepsBookInv == SyncSpec => []BookInv
<1> DEFINE SyncInv == BookInv /\ SplitsInv /\ splits \subseteq SplitNews
<1>1. SyncInit => SyncInv
  BY InitBook, InitSplits DEF SyncInit, Init
<1>2. SyncInv /\ [SyncNext]_allVars => SyncInv'
  <2> SUFFICES ASSUME BookInv, SplitsInv, splits \subseteq SplitNews,
                      [SyncNext]_allVars
               PROVE  BookInv' /\ SplitsInv' /\ splits' \subseteq SplitNews
    OBVIOUS
  <2>1. SplitsInv'
    BY SplitsStep
  <2>2. CASE UNCHANGED vars
    BY <2>1, <2>2, UntouchedBook DEF vars, BookInv, SplitsFit
  <2>3. CASE EditBook
    <3>1. UNCHANGED splits
      BY <2>3, EditKeepsSplits
    <3>2. QED BY <2>1, <2>3, <3>1, NextKeepsBook DEF EditBook
  <2>4. ASSUME NEW y \in Syncs, NEW e \in SplitNews, UpsertEvent(y, e)
        PROVE  BookInv' /\ splits' \subseteq SplitNews
    BY <2>4, UpsertKeepsBook
  <2>5. ASSUME NEW y \in Syncs, NEW s \in Scopes, ReplayScope(y, s)
        PROVE  BookInv' /\ splits' \subseteq SplitNews
    BY <2>5, ReplayScopeKeepsBook DEF ReplayScope
  <2>6. ASSUME NEW y \in Syncs,
               \/ StartSync(y) \/ ResolveScopes(y) \/ EndSync(y)
               \/ SyncFails(y)
               \/ \E x \in Assets : FetchEvents(y, x)
               \/ \E s \in Scopes : ReplayFails(y, s)
        PROVE  UNCHANGED vars
    BY <2>6 DEF StartSync, ResolveScopes, EndSync, SyncFails, FetchEvents, ReplayFails
  <2>7. ASSUME NEW e \in SplitNews, Report(e)
        PROVE  UNCHANGED vars
    BY <2>7 DEF Report
  <2>8. CASE UNCHANGED allVars
    BY <2>2, <2>8 DEF allVars
  <2>9. UNCHANGED vars => splits' \subseteq SplitNews
    BY DEF vars
  <2>10. CASE SyncNext
    <3>1. CASE EditBook
      BY <2>1, <2>3, <3>1, EditKeepsSplits
    <3>2. CASE SyncOrReport
      BY <2>1, <2>2, <2>4, <2>5, <2>6, <2>7, <2>9, <3>2 DEF SyncOrReport, SyncStep
    <3>3. QED BY <2>10, <3>1, <3>2 DEF SyncNext
  <2>11. QED BY <2>1, <2>8, <2>9, <2>10 DEF allVars
<1>3. SyncInv => BookInv
  OBVIOUS
<1> HIDE DEF SyncInv
<1>4. QED BY <1>1, <1>2, <1>3, PTL DEF SyncSpec

(***************************************************************************)
(* Splits that are stored, replayed scope by scope and stored again leave  *)
(* no lot without its buy, no match without its sell, and no position that *)
(* differs from its open lots (corp-action.service.ts: replayAffectedScopes*)
(* rebuilds a scope in one database transaction).                          *)
(***************************************************************************)
THEOREM SyncKeepsBook == SyncSpec => [](LedgerRowsResolve /\ PositionMatchesOpenLots)
<1>1. BookInv => LedgerRowsResolve /\ PositionMatchesOpenLots
  BY DEF BookInv
<1>2. QED BY <1>1, SyncKeepsBookInv, PTL

-----------------------------------------------------------------------------
(***************************************************************************)
(* Which position is the latest one of a scope.                            *)
(***************************************************************************)
\* A position was opened when a trade was that is still live: an open one no
\* later than a live trade of its scope, a closed one before a live sell.
Dated(table, p) ==
  /\ p.scope \in Scopes /\ p.openedAt \in Nat /\ p.open \in BOOLEAN
  /\ p.open => \E t \in LiveTrades(table, p.scope) : p.openedAt <= table[t].time
  /\ ~p.open => \E t \in LiveSells(table, p.scope) : p.openedAt < table[t].time

\* Closed positions were opened before the open one of their scope.
ClosedFirst(rows) ==
  \A p, q \in rows :
    p.scope = q.scope /\ p.open /\ ~q.open => q.openedAt < p.openedAt

\* With BookInv, the inductive invariant behind the position that is shown.
DatesInv ==
  /\ BookInv
  /\ IsFiniteSet(positions)
  /\ \A p \in positions : Dated(tx, p)
  /\ ClosedFirst(positions)

\* A time of a trade, or that of a position that was never opened.
TimeOfTrade(time, trades) == time = 0 \/ \E x \in trades : x.time = time

\* A replay opens its position when a trade of the scope was.
LEMMA ReplayOpensAtTrade ==
  ASSUME NEW trades, AreTrades(trades), NEW actions, AreActions(actions)
  PROVE  TimeOfTrade(ReplayScopeLedger(trades, actions).openedAt, trades)
<1> DEFINE seq == BuildTimeline(trades, actions)
           n == Len(seq)
           L == ReplayScopeLedger(trades, actions)
<1>1. n \in Nat /\ \A i \in 1..n : seq[i] \in Events(trades, actions)
  BY TimelineIsComplete
<1>2. PICK r \in [0..n -> ReplayStates(trades)] : ReplayRun(r, trades, actions)
  BY ReplayRuns
<1>3. /\ r[0] = EmptyReplay(trades)
      /\ \A i \in 1..n : r[i] = ReplayEvent(r[i - 1], seq[i])
      /\ L = r[n]
  BY <1>2 DEF ReplayRun
<1> DEFINE A == {i \in 0..n : TimeOfTrade(r[i].openedAt, trades)}
<1> HIDE DEF seq, n, L
<1>4. 0 \in A
  BY <1>1, <1>3 DEF EmptyReplay, TimeOfTrade
<1>5. ASSUME NEW i \in 1..n, i - 1 \in A PROVE i \in A
  <2> DEFINE st == r[i - 1]
             e == seq[i]
  <2>1. i \in 0..n /\ i - 1 \in 0..n /\ st \in ReplayStates(trades)
        /\ TimeOfTrade(st.openedAt, trades) /\ e \in Events(trades, actions)
    BY <1>1, <1>5
  <2>2. r[i] = ReplayEvent(st, e)
    BY <1>3
  <2> HIDE DEF st, e
  <2>3. e.kind \in {"split", "buy", "sell"}
    BY <2>1, EventTypes
  <2>4. CASE e.kind = "buy"
    <3>1. \E x \in trades : x.time = e.time
      BY <2>1, <2>4 DEF Events, SplitEvents, TradeEvents
    <3>2. r[i].openedAt \in {e.time, st.openedAt}
      BY <2>1, <2>2, <2>4 DEF ReplayEvent, ReplayBuy, ReplayStates
    <3>3. QED BY <2>1, <3>1, <3>2 DEF TimeOfTrade
  <2>5. CASE e.kind = "sell"
    <3>1. r[i].openedAt = st.openedAt
      BY <2>1, <2>2, <2>5 DEF ReplayEvent, ReplaySell, ReplayStates
    <3>2. QED BY <2>1, <3>1
  <2>6. CASE e.kind = "split"
    <3>1. r[i].openedAt = st.openedAt
      BY <2>1, <2>2, <2>6 DEF ReplayEvent, ReplaySplit, ReplayStates
    <3>2. QED BY <2>1, <3>1
  <2>7. QED BY <2>3, <2>4, <2>5, <2>6
<1>6. n \in 0..n /\ n \in A
  <2> HIDE DEF A
  <2>1. 0..n \subseteq A
    BY <1>1, <1>4, <1>5, PlaceByPlace
  <2>2. QED BY <1>1, <2>1
<1>7. QED BY <1>3, <1>6 DEF L

\* The position that a replay stores is open, and as old as a live trade.
LEMMA ReplayedPositionIsDated ==
  ASSUME NEW table, TableFits(table), SplitsFit, NEW s \in Scopes,
         NEW p \in ReplayedPositions(table, s)
  PROVE  Dated(table, p) /\ p.open /\ p.scope = s
<1> DEFINE trades == ReplayTransactions(table, s)
           L == Replay(table, s)
<1>1. AreTrades(trades) /\ AreActions(CorporateActions(s))
  BY ScopeTrades, ScopeActions
<1>2. TimeOfTrade(L.openedAt, trades)
  <2> HIDE DEF trades
  <2>1. QED BY <1>1, ReplayOpensAtTrade DEF Replay, trades
<1>3. L \in ReplayStates(trades)
  <2> HIDE DEF trades
  <2>1. ReplayResult(L, trades)
    BY <1>1, ReplayIsComplete DEF Replay, trades
  <2>2. QED BY <2>1 DEF ReplayResult
<1>4. ScopeReplayed(L, table, s)
  BY ReplayFits
<1> HIDE DEF L
<1>5. /\ SumOpenQuantity(L.lots) # 0
      /\ p = PositionRow(s, SumOpenQuantity(L.lots), SumOpenCost(L.lots),
                         L.openedAt, TRUE)
  BY DEF ReplayedPositions, L
<1>6. p.scope = s /\ p.openedAt = L.openedAt /\ p.open = TRUE
  BY <1>5 DEF PositionRow
<1>7. L.openedAt \in Nat
  BY <1>3 DEF ReplayStates
<1>8. \E t \in LiveTrades(table, s) : L.openedAt <= table[t].time
  <2>1. CASE L.openedAt = 0
    <3>1. DOMAIN L.lots # {}
      <4>1. ASSUME DOMAIN L.lots = {} PROVE FALSE
        <5> DEFINE f == [i \in DOMAIN L.lots |-> L.lots[i].rem]
        <5>1. DOMAIN f = {} /\ f \in [{} -> Int]
          BY <4>1
        <5>2. SumOpenQuantity(L.lots) = SumFunction(f)
          BY DEF SumOpenQuantity
        <5> HIDE DEF f
        <5>3. QED BY <1>5, <5>1, <5>2, SumOfNone
      <4>2. QED BY <4>1
    <3>2. PICK k \in DOMAIN L.lots : L.lots[k].src \in LiveTrades(table, s)
      BY <1>4, <3>1 DEF ScopeReplayed
    <3>3. table[L.lots[k].src].time \in Nat
      BY <3>2 DEF TableFits, TxRow, LiveTrades, ScopedIds
    <3>4. QED BY <2>1, <3>2, <3>3
  <2>2. CASE L.openedAt # 0
    <3>1. PICK x \in trades : x.time = L.openedAt
      BY <1>2, <2>2 DEF TimeOfTrade
    <3>2. PICK t \in LiveTrades(table, s) : x.time = table[t].time
      BY <3>1 DEF ReplayTransactions
    <3>3. QED BY <1>7, <3>1, <3>2
  <2>3. QED BY <2>1, <2>2
<1>9. QED BY <1>6, <1>7, <1>8 DEF Dated

\* A position is dated as long as the live trades of its scope are.
Stays(p, table, after) ==
  /\ \A t \in LiveTrades(table, p.scope) :
       t \in LiveTrades(after, p.scope) /\ after[t].time = table[t].time
  /\ \A t \in LiveSells(table, p.scope) :
       t \in LiveSells(after, p.scope) /\ after[t].time = table[t].time

\* A date that is right stays right with them.
LEMMA DatedStays ==
  ASSUME NEW table, NEW after, NEW p, Dated(table, p), Stays(p, table, after)
  PROVE  Dated(after, p)
BY DEF Dated, Stays

\* The open positions of a scope have one date.
LEMMA OneOpenPosition ==
  ASSUME BookInv, NEW s \in Scopes, NEW p \in OpenPositions(s), NEW q \in OpenPositions(s)
  PROVE  p = q
BY DEF BookInv, PositionMatchesOpenLots, PositionFits

\* A replay keeps finitely many positions.
LEMMA FewPositions ==
  ASSUME IsFiniteSet(positions), NEW S \in SUBSET Scopes, IsFiniteSet(S), RebuildScopes(S)
  PROVE  IsFiniteSet(positions')
<1> DEFINE made == UNION {ReplayedPositions(tx', s) : s \in S}
           one == [s \in S |-> ReplayedPositions(tx', s)]
           kept == {p \in positions : p.scope \notin S}
<1>1. \A s \in S : IsFiniteSet(ReplayedPositions(tx', s))
  <2> SUFFICES ASSUME NEW s \in S PROVE IsFiniteSet(ReplayedPositions(tx', s))
    OBVIOUS
  <2>1. CASE ReplayedPositions(tx', s) = {}
    BY <2>1, FS_EmptySet
  <2>2. ASSUME NEW p, ReplayedPositions(tx', s) = {p}
        PROVE  IsFiniteSet(ReplayedPositions(tx', s))
    <3>1. IsFiniteSet({p})
      BY FS_Singleton
    <3>2. QED BY <2>2, <3>1
  <2>3. ReplayedPositions(tx', s) = {} \/ \E p : ReplayedPositions(tx', s) = {p}
    BY DEF ReplayedPositions
  <2>4. QED BY <2>1, <2>2, <2>3
<1>2. IsFiniteSet({one[s] : s \in S})
  <2>1. DOMAIN one = S /\ one = [s \in S |-> one[s]]
    OBVIOUS
  <2> HIDE DEF one
  <2>2. QED BY <2>1, FewValues
<1>3. IsFiniteSet(UNION {one[s] : s \in S})
  <2>1. \A T \in {one[s] : s \in S} : IsFiniteSet(T)
    BY <1>1
  <2> HIDE DEF one
  <2>2. QED BY <1>2, <2>1, FS_UNION
<1>4. made = UNION {one[s] : s \in S}
  OBVIOUS
<1>5. IsFiniteSet(kept)
  BY FS_Subset
<1>6. positions' = kept \cup made
  BY DEF RebuildScopes
<1> HIDE DEF made, kept, one
<1>7. QED BY <1>3, <1>4, <1>5, <1>6, FS_Union

\* A replay of the scopes of the rows that change keeps positions dated.
LEMMA RebuildKeepsDates ==
  ASSUME DatesInv, BookInv', NEW S \in SUBSET Scopes, IsFiniteSet(S),
         RowChanges(S), UNCHANGED splits, RebuildScopes(S)
  PROVE  DatesInv'
<1>1. IsFiniteSet(positions')
  BY FewPositions DEF DatesInv
<1>2. TableFits(tx') /\ SplitsFit
  BY DEF RowChanges, DatesInv, BookInv
<1>3. ASSUME NEW p \in positions'
      PROVE  \/ p \in positions /\ p.scope \in Scopes \ S
             \/ p.scope \in S /\ p.open /\ Dated(tx', p)
  <2>1. CASE \E s \in S : p \in ReplayedPositions(tx', s)
    <3>1. PICK s \in S : p \in ReplayedPositions(tx', s)
      BY <2>1
    <3>2. QED BY <1>2, <3>1, ReplayedPositionIsDated
  <2>2. CASE p \in positions /\ p.scope \notin S
    BY <2>2 DEF DatesInv, Dated
  <2>3. QED BY <2>1, <2>2 DEF RebuildScopes
<1>4. ASSUME NEW p \in positions' PROVE Dated(tx', p)
  <2>1. CASE p \in positions /\ p.scope \in Scopes \ S
    <3>1. Stays(p, tx, tx')
      <4> DEFINE s == p.scope
      <4>1. s \in Scopes \ S
        BY <2>1
      <4> HIDE DEF s
      <4>2. /\ LiveTrades(tx', s) = LiveTrades(tx, s)
            /\ LiveSells(tx', s) = LiveSells(tx, s)
            /\ \A u \in LiveTrades(tx, s) : tx'[u] = tx[u]
        BY <4>1, OtherScopesAreKept
      <4>3. \A u \in LiveSells(tx, s) : u \in LiveTrades(tx, s)
        BY DEF LiveSells
      <4>4. QED BY <4>2, <4>3 DEF Stays, s
    <3>2. Dated(tx, p)
      BY <2>1 DEF DatesInv
    <3>3. QED BY <3>1, <3>2, DatedStays
  <2>2. QED BY <1>3, <2>1
<1>5. ClosedFirst(positions')
  <2> SUFFICES ASSUME NEW p \in positions', NEW q \in positions',
                      p.scope = q.scope, p.open, ~q.open
               PROVE  q.openedAt < p.openedAt
    BY DEF ClosedFirst
  <2>1. q \in positions /\ q.scope \in Scopes \ S
    BY <1>3
  <2>2. p \in positions
    BY <1>3, <2>1
  <2>3. QED BY <2>1, <2>2 DEF DatesInv, ClosedFirst
<1>6. QED BY <1>1, <1>4, <1>5 DEF DatesInv

\* A new row leaves the live trades as they are.
LEMMA NewRowStays ==
  ASSUME NEW t \in TxIds, NEW r, RowIsNew(t, r), NEW p, p.scope \in Scopes
  PROVE  Stays(p, tx, tx')
<1> DEFINE s == p.scope
<1>1. s \in Scopes
  OBVIOUS
<1> HIDE DEF s
<1>2. \A u \in LiveTrades(tx, s) : u \in LiveTrades(tx', s) /\ tx'[u] = tx[u]
  BY <1>1 DEF RowIsNew
<1>3. \A u \in LiveSells(tx, s) : u \in LiveSells(tx', s) /\ tx'[u] = tx[u]
  BY <1>1, NewRowInSells
<1>4. QED BY <1>2, <1>3 DEF Stays, s

\* A deposit, dividend or fee leaves the positions alone.
LEMMA NewCashKeepsDates ==
  ASSUME DatesInv, BookInv', NEW t \in TxIds, NEW r \in NewRows, CreateCashMovement(t, r)
  PROVE  DatesInv'
<1>1. RowIsNew(t, r) /\ positions' = positions
  BY InsertAddsRow DEF DatesInv, BookInv, CreateCashMovement
<1>2. ASSUME NEW p \in positions PROVE Dated(tx', p)
  <2>1. Dated(tx, p) /\ p.scope \in Scopes
    BY DEF DatesInv, Dated
  <2>2. QED BY <1>1, <2>1, NewRowStays, DatedStays
<1>3. QED BY <1>1, <1>2 DEF DatesInv

\* A buy after all sells of its scope adds to the open position, or opens one
\* later than those that the sells closed.
LEMMA NewBuyKeepsDates ==
  ASSUME DatesInv, BookInv', NEW t \in TxIds, NEW r \in NewRows,
         CreateBuyIncrementally(t, r)
  PROVE  DatesInv'
<1>1. RowIsNew(t, r) /\ r.type = "buy"
  BY InsertAddsRow DEF DatesInv, BookInv, CreateBuyIncrementally
<1>2. PICK s \in ScopesOf(r) : ~NeedsFullScopeReplayOnCreate(r, s) /\ SyncPosition(s, r)
  BY DEF CreateBuyIncrementally
<1>3. s \in Scopes /\ r.time \in Nat /\ t \in LiveTrades(tx', s) /\ tx'[t] = r
  BY <1>1, <1>2 DEF RowIsNew, ScopesOf, TxRow
<1>4. \A u \in LiveSells(tx, s) : ~(tx[u].time >= r.time)
  BY <1>1, <1>2 DEF NeedsFullScopeReplayOnCreate, HasFutureSell
<1>5. \A u \in LiveSells(tx, s) : tx[u].time \in Nat
  BY DEF LiveSells, LiveTrades, ScopedIds, DatesInv, BookInv, TableFits, TxRow
<1>6. ASSUME NEW p \in positions PROVE Dated(tx', p)
  <2>1. Dated(tx, p) /\ p.scope \in Scopes
    BY DEF DatesInv, Dated
  <2>2. QED BY <1>1, <2>1, NewRowStays, DatedStays
<1>7. \A q \in positions : q.scope = s /\ ~q.open => q.openedAt < r.time
  <2> SUFFICES ASSUME NEW q \in positions, q.scope = s, ~q.open
               PROVE  q.openedAt < r.time
    OBVIOUS
  <2>1. q.openedAt \in Nat /\ \E u \in LiveSells(tx, s) : q.openedAt < tx[u].time
    BY DEF DatesInv, Dated
  <2>2. QED BY <1>3, <1>4, <1>5, <2>1
<1>8. CASE OpenPositions(s) = {}
  <2> DEFINE n == PositionRow(s, r.qty, r.amount, r.time, TRUE)
  <2>1. positions' = positions \cup {n}
    BY <1>2, <1>8 DEF SyncPosition, IsActivePosition
  <2>2. n.scope = s /\ n.openedAt = r.time /\ n.open = TRUE
    BY DEF PositionRow
  <2> HIDE DEF n
  <2>3. Dated(tx', n)
    <3>1. \E u \in LiveTrades(tx', s) : n.openedAt <= tx'[u].time
      BY <1>3, <2>2
    <3>2. n.scope \in Scopes /\ n.openedAt \in Nat /\ n.open \in BOOLEAN /\ n.open
      BY <1>3, <2>2
    <3>3. QED BY <2>2, <3>1, <3>2 DEF Dated
  <2>4. ClosedFirst(positions')
    <3>1. \A p \in positions : p.scope = s => ~p.open
      BY <1>8 DEF OpenPositions
    <3>2. ClosedFirst(positions)
      BY DEF DatesInv
    <3>3. QED BY <1>7, <2>1, <2>2, <3>1, <3>2 DEF ClosedFirst
  <2>5. IsFiniteSet(positions')
    BY <2>1, FS_AddElement DEF DatesInv
  <2>6. QED BY <1>6, <2>1, <2>3, <2>4, <2>5 DEF DatesInv
<1>9. CASE OpenPositions(s) # {}
  <2>1. PICK p \in positions :
          /\ IsActivePosition(p, s)
          /\ positions' = (positions \ {p})
               \cup {PositionRow(s, p.qty + r.qty, p.cost + r.amount, p.openedAt, TRUE)}
    BY <1>2, <1>9 DEF SyncPosition
  <2> DEFINE n == PositionRow(s, p.qty + r.qty, p.cost + r.amount, p.openedAt, TRUE)
  <2>2. n.scope = s /\ n.openedAt = p.openedAt /\ n.open = TRUE
    BY DEF PositionRow
  <2>3. positions' = (positions \ {p}) \cup {n} /\ p.scope = s /\ p.open
    BY <2>1 DEF IsActivePosition, OpenPositions
  <2> HIDE DEF n
  <2>4. Dated(tx', n)
    <3>1. Dated(tx', p)
      BY <1>6
    <3>2. QED BY <1>3, <2>2, <2>3, <3>1 DEF Dated
  <2>5. ClosedFirst(positions')
    BY <2>2, <2>3 DEF DatesInv, ClosedFirst
  <2>6. IsFiniteSet(positions')
    <3>1. IsFiniteSet(positions \ {p})
      BY FS_RemoveElement DEF DatesInv
    <3>2. QED BY <2>3, <3>1, FS_AddElement
  <2>7. QED BY <1>6, <2>3, <2>4, <2>5, <2>6 DEF DatesInv
<1>10. QED BY <1>8, <1>9

\* A sell after all trades of its scope is later than the position it closes.
LEMMA NewSellKeepsDates ==
  ASSUME DatesInv, BookInv', NEW t \in TxIds, NEW r \in NewRows,
         CreateSellIncrementally(t, r)
  PROVE  DatesInv'
<1>1. RowIsNew(t, r) /\ r.type = "sell"
  BY InsertAddsRow DEF DatesInv, BookInv, CreateSellIncrementally
<1>2. PICK s \in ScopesOf(r) :
        /\ ~NeedsFullScopeReplayOnCreate(r, s)
        /\ \E p \in positions : \E order \in FifoOrders(s) :
             IsActivePosition(p, s) /\ ConsumeOpenLots(s, p, t, r, order)
  BY DEF CreateSellIncrementally
<1>3. PICK p \in positions, order \in FifoOrders(s) :
        IsActivePosition(p, s) /\ ConsumeOpenLots(s, p, t, r, order)
  BY <1>2
<1>4. /\ s \in Scopes /\ r.time \in Nat /\ tx'[t] = r
      /\ t \in LiveTrades(tx', s) /\ t \in LiveSells(tx', s)
  BY <1>1, <1>2, NewRowInSells DEF RowIsNew, ScopesOf, TxRow
<1>5. \A u \in LiveTrades(tx, s) : ~(tx[u].time >= r.time) /\ tx[u].time \in Nat
  BY <1>1, <1>2 DEF NeedsFullScopeReplayOnCreate, HasLaterScopedActivity,
     LiveTrades, ScopedIds, DatesInv, BookInv, TableFits, TxRow
<1>6. ASSUME NEW q \in positions PROVE Dated(tx', q)
  <2>1. Dated(tx, q) /\ q.scope \in Scopes
    BY DEF DatesInv, Dated
  <2>2. QED BY <1>1, <2>1, NewRowStays, DatedStays
<1> DEFINE C == Consume(order, r.qty).lots
           open == SumOpenQuantity(C)
           n == PositionRow(s, open, SumOpenCost(C), p.openedAt, open > 0)
<1>7. positions' = (positions \ {p}) \cup {n} /\ p \in OpenPositions(s)
  BY <1>3 DEF ConsumeOpenLots, IsActivePosition
<1>8. n.scope = s /\ n.openedAt = p.openedAt /\ n.open = (open > 0)
  BY DEF PositionRow
<1>9. p.scope = s /\ p.open
  BY <1>7 DEF OpenPositions
<1>10. n.open \in BOOLEAN
  <2>1. r.qty \in Nat /\ BookInv /\ C = Consume(order, r.qty).lots
        /\ Consume(order, r.qty).toSell = 0
    BY <1>1, <1>3 DEF RowIsNew, TxRow, DatesInv, ConsumeOpenLots
  <2> HIDE DEF C
  <2>2. C \in Seq(LotRows) /\ SourcesDiffer(C)
    BY <1>3, <1>4, <2>1, ConsumedOrder DEF Sold
  <2>3. SumOpenQuantity(C) \in Nat
    BY <2>2, LotRowTypes, LotsOfSequence
  <2>4. (open > 0) \in BOOLEAN
    BY <2>3
  <2> HIDE DEF open
  <2>5. QED BY <1>8, <2>4
<1> HIDE DEF n, C, open
<1>11. p.openedAt \in Nat /\ \E u \in LiveTrades(tx, s) : p.openedAt <= tx[u].time
  BY <1>9 DEF DatesInv, Dated
<1>12. p.openedAt < r.time
  BY <1>4, <1>5, <1>11
<1>13. Dated(tx', n)
  <2>1. \E u \in LiveTrades(tx', s) : n.openedAt <= tx'[u].time
    BY <1>4, <1>8, <1>11, <1>12
  <2>2. \E u \in LiveSells(tx', s) : n.openedAt < tx'[u].time
    BY <1>4, <1>8, <1>12
  <2>3. n.openedAt \in Nat /\ n.scope \in Scopes
    BY <1>4, <1>8, <1>11
  <2>4. QED BY <1>8, <1>10, <2>1, <2>2, <2>3 DEF Dated
<1>14. ClosedFirst(positions')
  <2>1. \A q \in positions \ {p} : q.scope = s => ~q.open
    <3> SUFFICES ASSUME NEW q \in positions \ {p}, q.scope = s, q.open PROVE FALSE
      OBVIOUS
    <3>1. q \in OpenPositions(s) /\ BookInv
      BY DEF OpenPositions, DatesInv
    <3>2. QED BY <1>4, <1>7, <3>1, OneOpenPosition
  <2>2. \A q \in positions \ {p} : q.scope = s => q.openedAt < p.openedAt
    BY <1>9, <2>1 DEF DatesInv, ClosedFirst
  <2>3. ClosedFirst(positions)
    BY DEF DatesInv
  <2> SUFFICES ASSUME NEW a \in positions', NEW b \in positions',
                      a.scope = b.scope, a.open, ~b.open
               PROVE  b.openedAt < a.openedAt
    BY DEF ClosedFirst
  <2>4. CASE a = n
    BY <1>7, <1>8, <2>2, <2>4
  <2>5. CASE a # n /\ b # n
    BY <1>7, <2>3, <2>5 DEF ClosedFirst
  <2>6. CASE a # n /\ b = n
    BY <1>7, <1>8, <2>1, <2>6
  <2>7. QED BY <2>4, <2>5, <2>6
<1>15. IsFiniteSet(positions')
  <2>1. IsFiniteSet(positions \ {p})
    BY FS_RemoveElement DEF DatesInv
  <2>2. QED BY <1>7, <2>1, FS_AddElement
<1>16. QED BY <1>6, <1>7, <1>13, <1>14, <1>15 DEF DatesInv
\* create keeps the dates, on its incremental paths and with a replay.
LEMMA CreateKeepsDates ==
  ASSUME DatesInv, NEW t \in TxIds, NEW r \in NewRows, HasExactPrice(r), Create(t, r)
  PROVE  DatesInv'
<1>0. BookInv /\ BookInv'
  BY CreateKeepsBook DEF DatesInv
<1>1. CASE CreateCashMovement(t, r)
  BY <1>0, <1>1, NewCashKeepsDates
<1>2. CASE CreateBuyIncrementally(t, r)
  BY <1>0, <1>2, NewBuyKeepsDates
<1>3. CASE CreateSellIncrementally(t, r)
  BY <1>0, <1>3, NewSellKeepsDates
<1>4. CASE CreateWithReplay(t, r)
  <2>1. PICK s \in ScopesOf(r) : RebuildScopes({s})
    BY <1>4 DEF CreateWithReplay
  <2>2. RowIsNew(t, r) /\ UNCHANGED splits
    BY <1>0, <1>4, InsertAddsRow DEF BookInv, CreateWithReplay, Insert
  <2>3. {s} \in SUBSET Scopes /\ ScopesOf(r) \subseteq {s}
    BY OneScope
  <2>4. RowChanges({s})
    BY <2>2, <2>3 DEF RowIsNew, RowChanges
  <2>5. IsFiniteSet({s})
    BY FS_Singleton
  <2>6. QED BY <1>0, <2>1, <2>2, <2>3, <2>4, <2>5, RebuildKeepsDates
<1>5. QED BY <1>1, <1>2, <1>3, <1>4 DEF Create

\* An edit replays the scopes that the row leaves and enters.
LEMMA UpdateKeepsDates ==
  ASSUME DatesInv, NEW t \in TxIds, NEW r \in NewRows, Update(t, r)
  PROVE  DatesInv'
<1> DEFINE S == UpdateScopes(tx[t], r)
           new == [r EXCEPT !.deleted = tx[t].deleted]
<1>0. BookInv /\ BookInv'
  BY UpdateKeepsBook DEF DatesInv
<1>1. /\ tx[t] # NoTx /\ tx' = [tx EXCEPT ![t] = new]
      /\ UNCHANGED splits /\ RebuildScopes(S)
  BY DEF Update, Exists
<1>2. ScopesOf(new) = ScopesOf(r)
  BY DEF NewRows, TxRow, ScopesOf
<1>3. S = ScopesOf(tx[t]) \cup ScopesOf(r)
  BY DEF UpdateScopes
<1> HIDE DEF new, S
<1>4. S \in SUBSET Scopes /\ IsFiniteSet(S)
  BY <1>3, FewScopes, FS_Union
<1>5. RowChanges(S)
  BY <1>0, <1>1, <1>2, <1>3 DEF RowChanges, BookInv, TableFits
<1>6. QED BY <1>0, <1>1, <1>4, <1>5, RebuildKeepsDates

\* A soft or hard delete replays the scope of the row.
LEMMA DeleteKeepsDates ==
  ASSUME DatesInv, NEW t \in TxIds, SoftDelete(t) \/ HardDelete(t)
  PROVE  DatesInv'
<1> DEFINE S == ScopesOf(tx[t])
<1>0. BookInv /\ BookInv'
  BY DeleteKeepsBook DEF DatesInv
<1>1. S \in SUBSET Scopes /\ IsFiniteSet(S)
  BY FewScopes
<1>2. tx[t] # NoTx /\ UNCHANGED splits /\ RebuildScopes(S)
  BY DEF SoftDelete, HardDelete, Exists
<1>3. tx[t] \in TxRow
  BY <1>0, <1>2 DEF BookInv, TableFits
<1>4. RowChanges(S)
  <2>1. CASE SoftDelete(t)
    <3>1. tx' = [tx EXCEPT ![t] = [tx[t] EXCEPT !.deleted = TRUE]]
      BY <2>1 DEF SoftDelete
    <3>2. ScopesOf([tx[t] EXCEPT !.deleted = TRUE]) = S
      BY <1>3 DEF TxRow, ScopesOf
    <3> HIDE DEF S
    <3>3. ScopesOf(tx[t]) = S
      BY DEF S
    <3>4. QED BY <1>0, <3>1, <3>2, <3>3 DEF RowChanges, BookInv, TableFits
  <2>2. CASE HardDelete(t)
    <3>1. tx' = [tx EXCEPT ![t] = NoTx]
      BY <2>2 DEF HardDelete
    <3>2. QED BY <1>0, <3>1 DEF RowChanges, BookInv, TableFits
  <2>3. QED BY <2>1, <2>2
<1>5. QED BY <1>0, <1>1, <1>2, <1>4, RebuildKeepsDates

(***************************************************************************)
(* The inductive invariant behind the position that the MCP tool shows: a  *)
(* closed position is older than a live sell of its scope, so that a buy   *)
(* that is booked incrementally, after all sells, opens a later one.       *)
(***************************************************************************)
THEOREM DatesInvariant == Spec => []DatesInv
<1>1. Init => DatesInv
  BY InitBook, FS_EmptySet DEF Init, DatesInv, ClosedFirst
<1>2. ASSUME DatesInv, [Next]_vars PROVE DatesInv'
  <2>1. CASE Next
    BY <1>2, <2>1, CreateKeepsDates, UpdateKeepsDates, DeleteKeepsDates, InputsAreRows,
       PricesAreExact DEF Next, UpdateOwn
  <2>2. CASE UNCHANGED vars
    <3>1. BookInv'
      BY <1>2, <2>2, UntouchedBook DEF vars, DatesInv, BookInv, SplitsFit
    <3>2. QED BY <1>2, <2>2, <3>1 DEF vars, DatesInv
  <2>3. QED BY <1>2, <2>1, <2>2
<1>3. QED BY <1>1, <1>2, PTL DEF Spec

(***************************************************************************)
(* getPositionDetail asks for the latest opened position, closed or not,   *)
(* and gets the open one when there is one.                                *)
(***************************************************************************)
THEOREM ShownPositionIsOpen == Spec => []OpenPositionIsShown
<1>1. ASSUME DatesInv PROVE OpenPositionIsShown
  <2> SUFFICES ASSUME NEW s \in Scopes, NEW o \in OpenPositions(s)
               PROVE  ShownPositions(s) = OpenPositions(s)
    BY DEF OpenPositionIsShown
  <2>0. BookInv
    BY <1>1 DEF DatesInv
  <2>1. o \in positions /\ o.scope = s /\ o.open /\ o.openedAt \in Nat
    BY <1>1 DEF OpenPositions, DatesInv, Dated
  <2>2. \A q \in positions : q.scope = s /\ q.open => q = o
    BY <2>0, OneOpenPosition DEF OpenPositions
  <2>3. \A q \in positions : q.scope = s /\ q # o =>
          q.openedAt < o.openedAt /\ q.openedAt \in Nat
    BY <1>1, <2>1, <2>2 DEF DatesInv, ClosedFirst, Dated
  <2>4. OpenPositions(s) = {o}
    BY <2>1, <2>2 DEF OpenPositions
  <2>5. ShownPositions(s) = {o}
    <3>1. \A q \in positions : q.scope = s => q.openedAt <= o.openedAt
      BY <2>1, <2>3
    <3>2. \A q \in ShownPositions(s) : q = o
      BY <2>1, <2>3 DEF ShownPositions
    <3>3. o \in ShownPositions(s)
      BY <2>1, <3>1 DEF ShownPositions
    <3>4. QED BY <3>2, <3>3
  <2>6. QED BY <2>4, <2>5
<1>2. QED BY <1>1, DatesInvariant, PTL

-----------------------------------------------------------------------------
(***************************************************************************)
(* The dashboard: sums over the entries of a journal that has one entry    *)
(* for each live transaction, and none other.                              *)
(***************************************************************************)
\* g is c times f.
TimesOf(g, f, c, D) == \A x \in D : g[x] = c * f[x]

\* A factor of all summands is one of the sum.
LEMMA SumOfMultiples ==
  ASSUME NEW D, IsFiniteSet(D), NEW f, IntegerOn(f, D), NEW g, IntegerOn(g, D),
         NEW c \in Int, TimesOf(g, f, c, D)
  PROVE  SumFunction(g) = c * SumFunction(f)
<1> DEFINE A == {s \in SUBSET D : PartSum(g, s) = c * PartSum(f, s)}
<1>1. ASSUME NEW s \in SUBSET D, \A r \in SUBSET s : r # s => r \in A
      PROVE  s \in A
  <2>1. CASE s = {}
    <3>1. PartSum(g, {}) = 0 /\ PartSum(f, {}) = 0
      BY PartSplits
    <3>2. c * 0 = 0
      OBVIOUS
    <3>3. QED BY <2>1, <3>1, <3>2
  <2>2. ASSUME NEW x \in s PROVE s \in A
    <3> DEFINE r == s \ {x}
    <3>1. r \in A
      BY <1>1
    <3>2. r \in SUBSET D /\ x \in D
      OBVIOUS
    <3>3. PartSum(g, s) = g[x] + PartSum(g, r) /\ PartSum(f, s) = f[x] + PartSum(f, r)
      BY PartSplits
    <3>4. PartSum(g, r) = c * PartSum(f, r) /\ g[x] = c * f[x]
      BY <3>1, <3>2 DEF TimesOf
    <3> HIDE DEF r
    <3>5. PartSum(f, r) \in Int /\ f[x] \in Int
      BY <3>2, PartSplits DEF IntegerOn
    <3> DEFINE y == PartSum(f, r)
               z == f[x]
    <3>6. PartSum(g, s) = c * z + c * y /\ PartSum(f, s) = z + y
      BY <3>3, <3>4
    <3>7. z \in Int /\ y \in Int
      BY <3>5
    <3> HIDE DEF y, z
    <3>8. c * z + c * y = c * (z + y)
      BY <3>7
    <3>9. QED BY <3>6, <3>8
  <2>3. QED BY <2>1, <2>2
<1>2. D \in A
  <2> HIDE DEF A
  <2>1. Grows(A, D)
    BY <1>1 DEF Grows
  <2>2. QED BY <2>1, SubsetBySubset
<1>3. [x \in D |-> f[x]] = f /\ [x \in D |-> g[x]] = g
  BY DEF IntegerOn
<1>4. QED BY <1>2, <1>3 DEF PartSum

\* What an entry carries on the cash account.
LEMMA CashLine ==
  ASSUME NEW row, row.type \in TxTypes, NEW cost
  PROVE  PostingLines(row, cost)["cash"]
           = IF row.type \in {"sell", "deposit", "dividend"} THEN row.amount
             ELSE -row.amount
<1>1. SellLines(row, cost)["cash"] = row.amount
  BY DEF SellLines, NoLines, GlPurposes
<1>2. \A a : /\ CashLines(a, "equity")["cash"] = a /\ CashLines(a, "invest")["cash"] = a
             /\ CashLines(a, "dividend")["cash"] = a /\ CashLines(a, "fee")["cash"] = a
  BY DEF CashLines, NoLines, GlPurposes
<1>3. CASE row.type = "sell"
  BY <1>1, <1>3 DEF PostingLines
<1>4. CASE row.type = "deposit"
  BY <1>2, <1>4 DEF PostingLines
<1>5. CASE row.type = "withdraw"
  BY <1>2, <1>5 DEF PostingLines
<1>6. CASE row.type = "buy"
  BY <1>2, <1>6 DEF PostingLines
<1>7. CASE row.type = "dividend"
  BY <1>2, <1>7 DEF PostingLines
<1>8. CASE row.type = "fee"
  BY <1>2, <1>8 DEF PostingLines
<1>9. QED BY <1>3, <1>4, <1>5, <1>6, <1>7, <1>8 DEF TxTypes

\* The entries of the live transactions A.
PostedFor(A) == {PostedEntry(t, tx, matches) : t \in A}

LiveIds == {t \in TxIds : Live(t)}

\* An entry tells its transaction, so each of A has one of its own.
LEMMA PostedOnce ==
  ASSUME NEW A \in SUBSET LiveIds
  PROVE  OneToOne([t \in A |-> PostedEntry(t, tx, matches)], A, PostedFor(A))
<1> DEFINE p == [t \in A |-> PostedEntry(t, tx, matches)]
<1>1. \A t \in A : p[t].ref = t
  BY DEF PostedEntry
<1>2. p \in [A -> PostedFor(A)] /\ \A e \in PostedFor(A) : \E t \in A : p[t] = e
  BY DEF PostedFor
<1> HIDE DEF p
<1>3. QED BY <1>1, <1>2 DEF OneToOne, Bijection, Injection, Surjection, IsInjective, p

\* A row of a live transaction is one that the service lets in.
LEMMA LiveRows ==
  ASSUME BookInv
  PROVE  /\ IsFiniteSet(LiveIds)
         /\ \A t \in LiveIds :
              /\ t \in TxIds /\ Live(t) /\ tx[t] \in TxRow /\ ValidRow(tx[t], NoAsset)
              /\ tx[t].type \in TxTypes /\ tx[t].amount \in Nat /\ tx[t].charges \in Nat
              /\ tx[t].account \in Accounts
<1>1. LiveIds \subseteq {t \in TxIds : tx[t] # NoTx}
  BY DEF LiveIds, Live, Exists
<1>2. IsFiniteSet(LiveIds)
  BY <1>1, FS_Subset DEF BookInv, TableFits
<1>3. QED BY <1>1, <1>2 DEF LiveIds, BookInv, TableFits, TxRow

\* The cost basis of a live sell.
LEMMA CostOfLiveSell ==
  ASSUME CostInv, NEW t \in LiveIds, tx[t].type = "sell"
  PROVE  HistoricalCost(t, matches) \in Nat
<1> DEFINE s == <<tx[t].account, tx[t].asset>>
<1>1. tx[t] \in TxRow /\ ValidRow(tx[t], NoAsset) /\ t \in TxIds /\ Live(t)
  BY LiveRows DEF CostInv
<1>2. s \in Scopes
  BY <1>1 DEF TxRow, ValidRow, Scopes
<1>3. t \in LiveSells(tx, s)
  BY <1>1, <1>2 DEF LiveSells, LiveTrades, ScopedIds, ScopesOf, Live, Exists
<1>4. QED BY <1>2, <1>3 DEF CostInv

\* No entry of a deleted transaction is left.
AllLive == \A e \in gl : Live(e.ref)

\* Then the entries of a user are those of the user's live transactions.
LEMMA EntriesOfUser ==
  ASSUME JournalInv, AllLive, NEW u
  PROVE  {e \in gl : e.user = u} = PostedFor({t \in LiveIds : Owner[tx[t].account] = u})
<1>1. \A e \in gl : e.ref \in LiveIds /\ e = PostedEntry(e.ref, tx, matches)
  BY DEF JournalInv, TypeOK, AllLive, LiveIds, LiveEntriesCurrent, EntriesOf
<1>2. \A t \in LiveIds : PostedEntry(t, tx, matches) \in gl
  BY DEF JournalInv, LiveIds, LiveEntriesCurrent, EntriesOf
<1>3. \A t \in LiveIds : PostedEntry(t, tx, matches).user = Owner[tx[t].account]
  BY DEF PostedEntry
<1>4. QED BY <1>1, <1>2, <1>3 DEF PostedFor

\* And those of an account.
LEMMA EntriesOfAccount ==
  ASSUME JournalInv, AllLive, NEW a
  PROVE  {e \in gl : e.account = a} = PostedFor({t \in LiveIds : tx[t].account = a})
<1>1. \A e \in gl : e.ref \in LiveIds /\ e = PostedEntry(e.ref, tx, matches)
  BY DEF JournalInv, TypeOK, AllLive, LiveIds, LiveEntriesCurrent, EntriesOf
<1>2. \A t \in LiveIds : PostedEntry(t, tx, matches) \in gl
  BY DEF JournalInv, LiveIds, LiveEntriesCurrent, EntriesOf
<1>3. \A t \in LiveIds : PostedEntry(t, tx, matches).account = tx[t].account
  BY DEF PostedEntry
<1>4. QED BY <1>1, <1>2, <1>3 DEF PostedFor

\* h is what w is of the entries' transactions.
OfEntries(h, w, A) == \A t \in A : w[t] = h[PostedEntry(t, tx, matches)]

\* A sum over entries is one over their transactions.
LEMMA SumOverEntries ==
  ASSUME NEW A \in SUBSET LiveIds, IsFiniteSet(A), NEW X, X = PostedFor(A),
         NEW h, NEW w, IntegerOn(w, A), OfEntries(h, w, A), DOMAIN h = X,
         h = [e \in X |-> h[e]]
  PROVE  SumFunction(h) = SumFunction(w)
<1> DEFINE p == [t \in A |-> PostedEntry(t, tx, matches)]
<1>1. OneToOne(p, A, X)
  BY PostedOnce
<1>2. IntegerOn(h, X)
  <2>1. \A e \in X : h[e] \in Int
    BY DEF PostedFor, OfEntries, IntegerOn
  <2>2. QED BY <2>1 DEF IntegerOn
<1>3. Renamed(w, h, p, A)
  BY DEF Renamed, OfEntries
<1> HIDE DEF p
<1>4. QED BY <1>1, <1>2, <1>3, SumRenamedTo

\* What the live transactions of an account moved.
MovedOn(a) == SumOver({t \in TxIds : Live(t) /\ tx[t].account = a}, CashMoved)

\* The cash of an account is what its transactions moved.
LEMMA CashIsMoved ==
  ASSUME JournalInv, BookInv, AllLive, NEW a \in Accounts
  PROVE  CashBalance(a) = MovedOn(a)
<1> DEFINE A == {t \in LiveIds : tx[t].account = a}
           X == {e \in gl : e.account = a}
           h == [e \in X |-> e.lines["cash"]]
           w == [t \in A |-> CashMoved(t)]
<1>1. A \in SUBSET LiveIds /\ IsFiniteSet(A)
  BY LiveRows, FS_Subset
<1>2. X = PostedFor(A)
  BY EntriesOfAccount
<1>3. \A t \in A : /\ tx[t].type \in TxTypes /\ tx[t].amount \in Nat
                   /\ PostedEntry(t, tx, matches) \in X
  BY <1>1, <1>2, LiveRows DEF PostedFor
<1>4. IntegerOn(w, A)
  <2>1. \A t \in A : CashMoved(t) \in Int
    BY <1>3 DEF CashMoved
  <2>2. QED BY <2>1 DEF IntegerOn
<1>5. OfEntries(h, w, A)
  <2> SUFFICES ASSUME NEW t \in A PROVE w[t] = h[PostedEntry(t, tx, matches)]
    BY DEF OfEntries
  <2>1. PostedEntry(t, tx, matches).lines
          = PostingLines(tx[t], HistoricalCost(t, matches))
    BY DEF PostedEntry
  <2>2. h[PostedEntry(t, tx, matches)] = PostedEntry(t, tx, matches).lines["cash"]
    BY <1>3
  <2>3. PostingLines(tx[t], HistoricalCost(t, matches))["cash"]
          = IF tx[t].type \in {"sell", "deposit", "dividend"} THEN tx[t].amount
            ELSE -tx[t].amount
    BY <1>3, CashLine
  <2>4. w[t] = CashMoved(t)
    OBVIOUS
  <2> HIDE DEF w, h
  <2>5. QED BY <2>1, <2>2, <2>3, <2>4 DEF CashMoved
<1>6. DOMAIN h = X /\ h = [e \in X |-> h[e]]
  OBVIOUS
<1>7. {t \in TxIds : Live(t) /\ tx[t].account = a} = A
  BY DEF LiveIds
<1>8. CashBalance(a) = SumFunction(h)
  BY DEF CashBalance, SumOver
<1>9. MovedOn(a) = SumFunction(w)
  BY <1>7 DEF MovedOn, SumOver
<1> HIDE DEF A, X, h, w
<1>10. QED BY <1>1, <1>2, <1>4, <1>5, <1>6, <1>8, <1>9, SumOverEntries

\* What a live transaction adds to the cash and investment accounts.
Moved(t) ==
  CASE tx[t].type = "deposit"  -> tx[t].amount
    [] tx[t].type = "withdraw" -> -tx[t].amount
    [] tx[t].type = "buy"      -> 0
    [] tx[t].type = "sell"     -> RealizedPnl(t) - tx[t].charges
    [] tx[t].type = "dividend" -> tx[t].amount
    [] tx[t].type = "fee"      -> -tx[t].amount

\* It is what its entry has on these accounts.
LEMMA EntryMoves ==
  ASSUME CostInv, NEW t \in LiveIds
  PROVE  /\ Moved(t) \in Int
         /\ PostedEntry(t, tx, matches).lines["cash"]
              + PostedEntry(t, tx, matches).lines["invest"] = Moved(t)
<1> DEFINE row == tx[t]
           cost == HistoricalCost(t, matches)
           cash == PostingLines(row, cost)["cash"]
           invest == PostingLines(row, cost)["invest"]
<1>1. row.type \in TxTypes /\ row.amount \in Nat /\ row.charges \in Nat
  BY LiveRows DEF CostInv
<1>2. PostedEntry(t, tx, matches).lines = PostingLines(row, cost)
  BY DEF PostedEntry
<1>3. /\ cash = IF row.type \in {"sell", "deposit", "dividend"} THEN row.amount ELSE -row.amount
      /\ invest = IF row.type = "buy" THEN row.amount
                  ELSE IF row.type = "sell" THEN -cost ELSE 0
  <2> HIDE DEF row, cost
  <2>1. row.amount \in Int
    BY <1>1
  <2>2. QED BY <1>1, <2>1, CashLine, InvestLine
<1>4. row.type = "sell" => cost \in Nat
  BY CostOfLiveSell
<1>5. RealizedPnl(t) = row.amount + row.charges - cost
  BY DEF RealizedPnl
<1>6. Moved(t) = CASE row.type = "deposit"  -> row.amount
                   [] row.type = "withdraw" -> -row.amount
                   [] row.type = "buy"      -> 0
                   [] row.type = "sell"     -> RealizedPnl(t) - row.charges
                   [] row.type = "dividend" -> row.amount
                   [] row.type = "fee"      -> -row.amount
  BY DEF Moved
<1>7. /\ PostedEntry(t, tx, matches).lines["cash"] = cash
      /\ PostedEntry(t, tx, matches).lines["invest"] = invest
  BY <1>2
<1> HIDE DEF row, cost, cash, invest
<1>8. Moved(t) \in Int /\ cash + invest = Moved(t)
  <2>1. CASE row.type = "sell"
    <3>1. cost \in Nat /\ cash = row.amount /\ invest = -cost
          /\ Moved(t) = RealizedPnl(t) - row.charges
      BY <1>3, <1>4, <1>6, <2>1
    <3>2. QED BY <1>1, <1>5, <3>1
  <2>2. CASE row.type = "buy"
    <3>1. cash = -row.amount /\ invest = row.amount /\ Moved(t) = 0
      BY <1>3, <1>6, <2>2
    <3>2. QED BY <1>1, <3>1
  <2>3. CASE row.type = "deposit"
    BY <1>1, <1>3, <1>6, <2>3
  <2>4. CASE row.type = "withdraw"
    BY <1>1, <1>3, <1>6, <2>4
  <2>5. CASE row.type = "dividend"
    BY <1>1, <1>3, <1>6, <2>5
  <2>6. CASE row.type = "fee"
    BY <1>1, <1>3, <1>6, <2>6
  <2>7. QED BY <1>1, <2>1, <2>2, <2>3, <2>4, <2>5, <2>6 DEF TxTypes
<1>9. QED BY <1>7, <1>8

\* The assets of a user are what the user's live transactions moved.
LEMMA AssetsAreMoved ==
  ASSUME JournalInv, CostInv, AllLive, NEW u, NEW A, A = OfType(u, TxTypes),
         NEW w, w = [t \in A |-> Moved(t)]
  PROVE  /\ A \in SUBSET LiveIds /\ IsFiniteSet(A) /\ IntegerOn(w, A)
         /\ TotalInvestmentAssets(u) = SumFunction(w)
<1> DEFINE X == {e \in gl : e.user = u}
           h == [e \in X |-> e.lines["cash"] + e.lines["invest"]]
<1>0. BookInv
  BY DEF CostInv
<1>1. A = {t \in LiveIds : Owner[tx[t].account] = u}
  BY <1>0, LiveRows DEF OfType, LiveIds
<1>2. A \in SUBSET LiveIds /\ IsFiniteSet(A)
  BY <1>0, <1>1, LiveRows, FS_Subset
<1>3. X = PostedFor(A)
  BY <1>1, EntriesOfUser
<1>4. IntegerOn(w, A)
  <2>1. \A t \in A : Moved(t) \in Int
    BY <1>2, EntryMoves
  <2>2. QED BY <2>1 DEF IntegerOn
<1>5. OfEntries(h, w, A)
  <2> SUFFICES ASSUME NEW t \in A PROVE w[t] = h[PostedEntry(t, tx, matches)]
    BY DEF OfEntries
  <2>1. PostedEntry(t, tx, matches) \in X
    BY <1>3 DEF PostedFor
  <2>2. h[PostedEntry(t, tx, matches)] = PostedEntry(t, tx, matches).lines["cash"]
                                          + PostedEntry(t, tx, matches).lines["invest"]
    BY <2>1
  <2>3. w[t] = Moved(t)
    OBVIOUS
  <2> HIDE DEF h, X
  <2>4. QED BY <1>2, <2>2, <2>3, EntryMoves
<1>6. DOMAIN h = X /\ h = [e \in X |-> h[e]]
  OBVIOUS
<1>7. TotalInvestmentAssets(u) = SumFunction(h)
  BY DEF TotalInvestmentAssets, SumOver
<1> HIDE DEF X, h
<1>8. QED BY <1>2, <1>3, <1>4, <1>5, <1>6, <1>7, SumOverEntries

\* The sum over the transactions of a type is c times another.
IsTypeSum(w, T, f, c) ==
  \A t \in T : f[t] \in Int /\ w[t] = c * f[t]

\* The part of a type is that multiple of the other sum.
LEMMA SumOfType ==
  ASSUME NEW A, IsFiniteSet(A), NEW w, IntegerOn(w, A), NEW T \in SUBSET A,
         NEW f, DOMAIN f = T, f = [t \in T |-> f[t]], NEW c \in Int, IsTypeSum(w, T, f, c)
  PROVE  PartSum(w, T) = c * SumFunction(f) /\ SumFunction(f) \in Int
<1> DEFINE g == [t \in T |-> w[t]]
<1>1. IsFiniteSet(T) /\ IntegerOn(f, T) /\ IntegerOn(g, T) /\ TimesOf(g, f, c, T)
  BY FS_Subset DEF IntegerOn, TimesOf, IsTypeSum
<1>2. PartSum(w, T) = SumFunction(g)
  BY DEF PartSum
<1> HIDE DEF g
<1>3. SumFunction(g) = c * SumFunction(f)
  BY <1>1, SumOfMultiples
<1>4. SumFunction(f) \in Int
  BY <1>1, SumInt DEF IntegerOn
<1>5. QED BY <1>2, <1>3, <1>4

\* The sums over the types add up to the sum over all.
LEMMA SumOfTypes ==
  ASSUME NEW A, IsFiniteSet(A), NEW w, IntegerOn(w, A), NEW u, A = OfType(u, TxTypes)
  PROVE  SumFunction(w) = PartSum(w, OfType(u, {"deposit"})) + PartSum(w, OfType(u, {"withdraw"}))
                            + PartSum(w, OfType(u, {"buy"})) + PartSum(w, OfType(u, {"sell"}))
                            + PartSum(w, OfType(u, {"dividend"})) + PartSum(w, OfType(u, {"fee"}))
<1> DEFINE P1 == OfType(u, {"deposit"})
           P2 == OfType(u, {"withdraw"})
           P3 == OfType(u, {"buy"})
           P4 == OfType(u, {"sell"})
           P5 == OfType(u, {"dividend"})
           P6 == OfType(u, {"fee"})
           Q2 == P1 \cup P2
           Q3 == Q2 \cup P3
           Q4 == Q3 \cup P4
           Q5 == Q4 \cup P5
<1>1. /\ P1 \in SUBSET A /\ P2 \in SUBSET A /\ P3 \in SUBSET A
      /\ P4 \in SUBSET A /\ P5 \in SUBSET A /\ P6 \in SUBSET A
  BY DEF OfType, TxTypes
<1>2. /\ P1 \cap P2 = {} /\ Q2 \cap P3 = {} /\ Q3 \cap P4 = {}
      /\ Q4 \cap P5 = {} /\ Q5 \cap P6 = {}
  BY DEF OfType
<1>3. A = Q5 \cup P6
  BY DEF OfType, TxTypes
<1>4. SumFunction(w) = PartSum(w, A)
  BY DEF PartSum, IntegerOn
<1> HIDE DEF P1, P2, P3, P4, P5, P6
<1>5. Q2 \in SUBSET A /\ Q3 \in SUBSET A /\ Q4 \in SUBSET A /\ Q5 \in SUBSET A
  BY <1>1
<1>6. PartSum(w, Q2) = PartSum(w, P1) + PartSum(w, P2)
  BY <1>1, <1>2, PartUnion
<1> HIDE DEF Q2
<1>7. PartSum(w, Q3) = PartSum(w, Q2) + PartSum(w, P3)
  BY <1>1, <1>2, <1>5, PartUnion
<1> HIDE DEF Q3
<1>8. PartSum(w, Q4) = PartSum(w, Q3) + PartSum(w, P4)
  BY <1>1, <1>2, <1>5, PartUnion
<1> HIDE DEF Q4
<1>9. PartSum(w, Q5) = PartSum(w, Q4) + PartSum(w, P5)
  BY <1>1, <1>2, <1>5, PartUnion
<1> HIDE DEF Q5
<1>10. PartSum(w, Q5 \cup P6) = PartSum(w, Q5) + PartSum(w, P6)
  BY <1>1, <1>2, <1>5, PartUnion
<1>11. SumFunction(w) = PartSum(w, Q5 \cup P6)
  BY <1>3, <1>4
<1>12. SumFunction(w) = PartSum(w, P1) + PartSum(w, P2) + PartSum(w, P3) + PartSum(w, P4)
                          + PartSum(w, P5) + PartSum(w, P6)
  BY <1>6, <1>7, <1>8, <1>9, <1>10, <1>11
<1>13. QED BY <1>12 DEF P1, P2, P3, P4, P5, P6

\* The amounts of the live transactions of a type, and what the sells
\* realized after their charges.
AmountOf(u, T) == SumFunction([t \in OfType(u, T) |-> tx[t].amount])

RealizedBy(u) ==
  SumFunction([t \in OfType(u, {"sell"}) |-> RealizedPnl(t) - tx[t].charges])

\* The return of a user is what sells realized and dividends, less charges and fees.
LEMMA ReturnIsRealized ==
  ASSUME JournalInv, CostInv, AllLive, NEW u
  PROVE  TotalReturn(u) = RealizedBy(u) + AmountOf(u, {"dividend"}) - AmountOf(u, {"fee"})
<1> DEFINE A == OfType(u, TxTypes)
           w == [t \in A |-> Moved(t)]
           amounts(T) == [t \in OfType(u, T) |-> tx[t].amount]
           pnl == [t \in OfType(u, {"sell"}) |-> RealizedPnl(t) - tx[t].charges]
<1>1. /\ A \in SUBSET LiveIds /\ IsFiniteSet(A) /\ IntegerOn(w, A)
      /\ TotalInvestmentAssets(u) = SumFunction(w)
  BY AssetsAreMoved
<1>2. \A t \in A : tx[t].amount \in Nat /\ Moved(t) \in Int /\ w[t] = Moved(t)
  BY <1>1, LiveRows, EntryMoves DEF CostInv
<1>3. ASSUME NEW T \in SUBSET TxTypes
      PROVE  OfType(u, T) \in SUBSET A /\ \A t \in OfType(u, T) : tx[t].type \in T
  BY DEF OfType
<1> HIDE DEF A, w
<1>4. ASSUME NEW y \in TxTypes, NEW c \in {-1, 0, 1},
             \A t \in A : tx[t].type = y => Moved(t) = c * tx[t].amount
      PROVE  /\ PartSum(w, OfType(u, {y})) = c * SumFunction(amounts({y}))
             /\ SumFunction(amounts({y})) \in Int
  <2> DEFINE T == OfType(u, {y})
             f == amounts({y})
  <2>1. T \in SUBSET A /\ \A t \in T : tx[t].type = y
    BY <1>3
  <2>2. DOMAIN f = T /\ f = [t \in T |-> f[t]] /\ \A t \in T : f[t] = tx[t].amount
    OBVIOUS
  <2> HIDE DEF T, f
  <2>3. IsTypeSum(w, T, f, c)
    BY <1>2, <1>4, <2>1, <2>2 DEF IsTypeSum
  <2>4. c \in Int
    OBVIOUS
  <2>5. PartSum(w, T) = c * SumFunction(f) /\ SumFunction(f) \in Int
    BY <1>1, <2>1, <2>2, <2>3, <2>4, SumOfType
  <2>6. QED BY <2>5 DEF T, f
<1>5. /\ PartSum(w, OfType(u, {"sell"})) = SumFunction(pnl) /\ SumFunction(pnl) \in Int
  <2> DEFINE T == OfType(u, {"sell"})
  <2>1. T \in SUBSET A /\ \A t \in T : tx[t].type = "sell"
    BY <1>3 DEF TxTypes
  <2>2. \A t \in T : Moved(t) = RealizedPnl(t) - tx[t].charges
    BY <2>1 DEF Moved
  <2>3. DOMAIN pnl = T /\ pnl = [t \in T |-> pnl[t]]
        /\ \A t \in T : pnl[t] = RealizedPnl(t) - tx[t].charges
    OBVIOUS
  <2> HIDE DEF T, pnl
  <2>4. \A t \in T : pnl[t] \in Int /\ w[t] = pnl[t]
    BY <1>2, <2>1, <2>2, <2>3
  <2>5. PartSum(w, T) = SumFunction(pnl) /\ SumFunction(pnl) \in Int
    <3>1. \A c \in Int : c = 1 => IsTypeSum(w, T, pnl, c)
      BY <2>4 DEF IsTypeSum
    <3>2. ASSUME NEW c \in Int, c = 1
          PROVE  PartSum(w, T) = c * SumFunction(pnl) /\ SumFunction(pnl) \in Int
      <4>1. IsTypeSum(w, T, pnl, c)
        BY <3>1, <3>2
      <4> HIDE <3>2
      <4>2. QED BY <1>1, <2>1, <2>3, <4>1, SumOfType
    <3>3. PartSum(w, T) = 1 * SumFunction(pnl) /\ SumFunction(pnl) \in Int
      BY <3>2
    <3>4. QED BY <3>3
  <2>6. QED BY <2>5 DEF T
<1>6. /\ \A t \in A : tx[t].type = "deposit" => Moved(t) = 1 * tx[t].amount
      /\ \A t \in A : tx[t].type = "withdraw" => Moved(t) = (-1) * tx[t].amount
      /\ \A t \in A : tx[t].type = "buy" => Moved(t) = 0 * tx[t].amount
      /\ \A t \in A : tx[t].type = "dividend" => Moved(t) = 1 * tx[t].amount
      /\ \A t \in A : tx[t].type = "fee" => Moved(t) = (-1) * tx[t].amount
  BY <1>2 DEF Moved
<1> DEFINE dep == SumFunction(amounts({"deposit"}))
           out == SumFunction(amounts({"withdraw"}))
           got == SumFunction(amounts({"buy"}))
           div == SumFunction(amounts({"dividend"}))
           fee == SumFunction(amounts({"fee"}))
           real == SumFunction(pnl)
<1>7. /\ TotalReturn(u) = TotalInvestmentAssets(u) - (dep - out)
      /\ RealizedBy(u) = real
      /\ AmountOf(u, {"dividend"}) = div
      /\ AmountOf(u, {"fee"}) = fee
  BY DEF TotalReturn, NetContribution, SumOver, RealizedBy, AmountOf
<1> HIDE DEF amounts, pnl
<1>8. /\ PartSum(w, OfType(u, {"deposit"})) = 1 * dep /\ dep \in Int
      /\ PartSum(w, OfType(u, {"withdraw"})) = (-1) * out /\ out \in Int
      /\ PartSum(w, OfType(u, {"buy"})) = 0 * got /\ got \in Int
      /\ PartSum(w, OfType(u, {"dividend"})) = 1 * div /\ div \in Int
      /\ PartSum(w, OfType(u, {"fee"})) = (-1) * fee /\ fee \in Int
  BY <1>4, <1>6 DEF TxTypes
<1>9. SumFunction(w) = PartSum(w, OfType(u, {"deposit"})) + PartSum(w, OfType(u, {"withdraw"}))
                         + PartSum(w, OfType(u, {"buy"})) + PartSum(w, OfType(u, {"sell"}))
                         + PartSum(w, OfType(u, {"dividend"})) + PartSum(w, OfType(u, {"fee"}))
  BY <1>1, SumOfTypes DEF A
<1>10. PartSum(w, OfType(u, {"sell"})) = real /\ real \in Int
  BY <1>5
<1> HIDE DEF dep, out, got, div, fee, real
<1>11. TotalReturn(u) = real + div - fee
  BY <1>1, <1>7, <1>8, <1>9, <1>10
<1>12. QED BY <1>7, <1>11

(***************************************************************************)
(* What getSummary shows as the return, from the journal, is what sells    *)
(* realized over their FIFO matches and dividends, less charges and fees,  *)
(* and the cash that getActivity shows of an account is what its           *)
(* transactions moved, wherever no entry of a deleted transaction is left. *)
(***************************************************************************)
THEOREM DashboardFits == Spec => []DashboardFitsTheBook
<1>1. ASSUME CostInv, JournalInv PROVE DashboardFitsTheBook
  <2> SUFFICES ASSUME AllLive
               PROVE  /\ \A u \in Users :
                           TotalReturn(u) =
                             RealizedBy(u) + AmountOf(u, {"dividend"}) - AmountOf(u, {"fee"})
                      /\ \A a \in Accounts : CashBalance(a) = MovedOn(a)
    BY DEF DashboardFitsTheBook, AllLive, RealizedBy, AmountOf, MovedOn, SumOver
  <2>1. \A u \in Users :
          TotalReturn(u) = RealizedBy(u) + AmountOf(u, {"dividend"}) - AmountOf(u, {"fee"})
    BY <1>1, ReturnIsRealized
  <2>2. \A a \in Accounts : CashBalance(a) = MovedOn(a)
    BY <1>1, CashIsMoved DEF CostInv
  <2>3. QED BY <2>1, <2>2
<1>2. QED BY <1>1, CostInvariant, JournalInvariant, PTL

-----------------------------------------------------------------------------
(***************************************************************************)
(* The rebalance: the suggestions for a class share out the amount that    *)
(* makes it the target part of the new total.                              *)
(***************************************************************************)
\* What is divided out of a multiple.
LEMMA MultipleDivides ==
  ASSUME NEW n \in Int, NEW d \in Nat \ {0}
  PROVE  (n * d) \div d = n
<1>1. n * d \in Int /\ d \in Int /\ d > 0
  OBVIOUS
<1>2. QED BY <1>1

\* The last of some days.
LEMMA LastOfDays ==
  ASSUME NEW S, IsFiniteSet(S), S # {}, \A p \in S : p.day \in Nat
  PROVE  \E p \in S : \A q \in S : q.day <= p.day
<1> DEFINE HasLast(s) == \E p \in s : \A q \in s : q.day <= p.day
           A == {s \in SUBSET S : s # {} => HasLast(s)}
<1>1. ASSUME NEW s \in SUBSET S, \A r \in SUBSET s : r # s => r \in A
      PROVE  s \in A
  <2>1. CASE s = {}
    BY <2>1
  <2>2. ASSUME NEW x \in s PROVE s \in A
    <3> DEFINE r == s \ {x}
    <3>1. r \in A /\ r \in SUBSET S
      BY <1>1
    <3>2. \A q \in s : q \in r \/ q = x
      OBVIOUS
    <3>3. x \in S /\ x.day \in Nat /\ r \subseteq s
      BY <1>1
    <3>4. CASE r = {}
      BY <3>2, <3>3, <3>4
    <3>5. CASE r # {}
      <4>1. PICK p \in r : \A q \in r : q.day <= p.day
        BY <3>1, <3>5
      <4> HIDE DEF r
      <4>2. p \in s /\ p.day \in Nat /\ \A q \in r : q.day \in Nat
        BY <3>1, <3>3
      <4>3. CASE x.day <= p.day
        <5>1. \A q \in s : q.day <= p.day
          BY <3>2, <4>1, <4>3
        <5>2. QED BY <4>2, <5>1
      <4>4. CASE ~(x.day <= p.day)
        <5>1. \A q \in s : q.day <= x.day
          BY <3>2, <3>3, <4>1, <4>2, <4>4
        <5>2. QED BY <5>1
      <4>5. QED BY <4>3, <4>4
    <3>6. QED BY <3>4, <3>5
  <2>3. QED BY <2>1, <2>2
<1>2. S \in A
  <2> HIDE DEF A
  <2>1. Grows(A, S)
    BY <1>1 DEF Grows
  <2>2. QED BY <2>1, SubsetBySubset
<1>3. QED BY <1>2

\* The latest price is a number.
LEMMA LatestPriceIsNumber ==
  ASSUME NEW x
  PROVE  LatestPrice(x) \in Int
<1> DEFINE S == PricesOf(x)
           last == CHOOSE p \in S : \A q \in S : q.day <= p.day
<1>1. S \subseteq StoredPrices
  BY DEF PricesOf
<1>2. IsFiniteSet(S) /\ \A p \in S : p.day \in Nat /\ p.price \in Int
  BY <1>1, PricesAreNumbers, FS_Subset
<1>3. LatestPrice(x) = IF S = {} THEN 0 ELSE last.price
  BY DEF LatestPrice
<1> HIDE DEF S
<1>4. S # {} => last \in S
  BY <1>2, LastOfDays
<1> HIDE DEF last
<1>5. QED BY <1>2, <1>3, <1>4

\* A held position has a scope, and counts as its open lots do.
LEMMA HeldPositionTypes ==
  ASSUME DatesInv, NEW u
  PROVE  /\ IsFiniteSet(HeldPositions(u))
         /\ \A p \in HeldPositions(u) :
              /\ p.scope \in Scopes /\ p.scope[1] \in Accounts /\ p.scope[2] \in Assets
              /\ p.qty \in Nat /\ p.cost \in Nat
<1>1. HeldPositions(u) \subseteq positions /\ \A p \in HeldPositions(u) : p.open
  BY DEF HeldPositions
<1>2. IsFiniteSet(HeldPositions(u))
  BY <1>1, FS_Subset DEF DatesInv
<1>3. ASSUME NEW p \in HeldPositions(u)
      PROVE  /\ p.scope \in Scopes /\ p.scope[1] \in Accounts /\ p.scope[2] \in Assets
             /\ p.qty \in Nat /\ p.cost \in Nat
  <2> DEFINE s == p.scope
  <2>1. s \in Scopes
    BY <1>1 DEF DatesInv, Dated
  <2>2. s[1] \in Accounts /\ s[2] \in Assets
    BY <2>1 DEF Scopes
  <2>3. p \in OpenPositions(s)
    BY <1>1 DEF OpenPositions
  <2>4. /\ OpenLots(s) \in SUBSET LotRows /\ IsFiniteSet(OpenLots(s))
        /\ PositionFits(OpenPositions(s), OpenLots(s))
    BY <2>1, OpenLotTypes DEF DatesInv
  <2>5. SharesIn(OpenLots(s)) \in Nat /\ CostIn(OpenLots(s)) \in Nat
    BY <2>4, SumsOfLots
  <2>6. p.qty = SharesIn(OpenLots(s)) /\ p.cost = CostIn(OpenLots(s))
    BY <2>3, <2>4 DEF PositionFits
  <2>7. QED BY <2>1, <2>2, <2>5, <2>6
<1>4. QED BY <1>2, <1>3

\* A holding is worth a whole number.
LEMMA HoldingIsWorth ==
  ASSUME DatesInv, NEW u, NEW x \in Assets
  PROVE  Holding(u, x).asset = x /\ Holding(u, x).market \in Int
<1> DEFINE D == {p \in HeldPositions(u) : p.scope[2] = x}
           q == [p \in D |-> p.qty]
           c == [p \in D |-> p.cost * AccountRate[p.scope[1]]]
           qty == SumFunction(q)
           invested == SumFunction(c)
<1>1. Holding(u, x) = [asset |-> x, qty |-> qty, invested |-> invested,
                       market |-> MarketValue(x, qty, invested, LatestPrice(x))]
  BY DEF Holding, SumOver
<1>2. D \subseteq HeldPositions(u) /\ IsFiniteSet(D)
  BY HeldPositionTypes, FS_Subset
<1>3. q \in [D -> Int] /\ c \in [D -> Int]
  <2>1. \A p \in D : p.qty \in Nat /\ p.cost \in Nat /\ AccountRate[p.scope[1]] \in Int
    BY <1>2, HeldPositionTypes, RatesAreNumbers
  <2> HIDE DEF D
  <2>2. \A p \in D : p.cost * AccountRate[p.scope[1]] \in Int
    BY <2>1
  <2>3. QED BY <2>1, <2>2
<1> HIDE DEF D, q, c
<1>4. qty \in Int /\ invested \in Int
  BY <1>2, <1>3, SumInt
<1>5. LatestPrice(x) \in Int /\ AssetRate[x] \in Int
  BY LatestPriceIsNumber, RatesAreNumbers
<1> HIDE DEF qty, invested
<1>6. MarketValue(x, qty, invested, LatestPrice(x)) \in Int
  <2> DEFINE price == LatestPrice(x)
             rate == AssetRate[x]
  <2>1. MarketValue(x, qty, invested, price) = IF price = 0 THEN invested ELSE qty * price * rate
    BY DEF MarketValue
  <2> HIDE DEF price, rate
  <2>2. price \in Int /\ rate \in Int
    BY <1>5 DEF price, rate
  <2>3. qty * price \in Int
    BY <1>4, <2>2
  <2>4. qty * price * rate \in Int
    BY <2>2, <2>3
  <2>5. QED BY <1>4, <2>1, <2>4 DEF price
<1>7. QED BY <1>1, <1>6

\* The holdings of a class.
HoldingsIn(u, class) == {h \in Holdings(u) : Class[h.asset] = class}

\* Its value is the sum over them, and each has an asset of its own.
LEMMA HoldingsOfClass ==
  ASSUME DatesInv, NEW u, NEW class, NEW G, G = HoldingsIn(u, class),
         NEW m, m = [h \in G |-> h.market]
  PROVE  /\ IsFiniteSet(G) /\ IntegerOn(m, G)
         /\ \A h \in G : m[h] = h.market /\ h.market \in Int
         /\ \A h, k \in G : h.asset = k.asset => h = k
         /\ AllocatedTo(u, class) = SumFunction(m) /\ AllocatedTo(u, class) \in Int
<1> DEFINE X == {p.scope[2] : p \in HeldPositions(u)}
           a == [p \in HeldPositions(u) |-> p.scope[2]]
           b == [x \in X |-> Holding(u, x)]
<1>1. IsFiniteSet(X)
  <2>1. X = {a[p] : p \in HeldPositions(u)}
    OBVIOUS
  <2>2. DOMAIN a = HeldPositions(u) /\ a = [p \in HeldPositions(u) |-> a[p]]
    OBVIOUS
  <2> HIDE DEF a, X
  <2>3. QED BY <2>1, <2>2, FewValues, HeldPositionTypes
<1>2. \A x \in X : x \in Assets
  BY HeldPositionTypes
<1>3. Holdings(u) = {b[x] : x \in X} /\ DOMAIN b = X /\ b = [x \in X |-> b[x]]
  BY DEF Holdings
<1>4. \A x \in X : b[x].asset = x /\ b[x].market \in Int
  BY <1>2, HoldingIsWorth
<1> HIDE DEF X, a, b
<1>5. IsFiniteSet(Holdings(u))
  BY <1>1, <1>3, FewValues
<1>6. \A h \in Holdings(u) : /\ h.market \in Int
                             /\ \A k \in Holdings(u) : h.asset = k.asset => h = k
  BY <1>3, <1>4
<1>7. G \subseteq Holdings(u)
  BY DEF HoldingsIn
<1>8. IsFiniteSet(G)
  BY <1>5, <1>7, FS_Subset
<1>9. m \in [G -> Int] /\ IntegerOn(m, G)
  BY <1>6, <1>7 DEF IntegerOn
<1>10. AllocatedTo(u, class) = SumFunction(m)
  BY DEF AllocatedTo, HoldingsIn, SumOver
<1>11. SumFunction(m) \in Int
  BY <1>8, <1>9, SumInt
<1>12. QED BY <1>6, <1>7, <1>8, <1>9, <1>10, <1>11

\* What is bought, over a common denominator.
BoughtOver(B, den) == SumFunction([b \in B |-> (b.amount[1] * den) \div b.amount[2]])

\* f takes from each p[h] c times what m takes from h.
Spreads(f, p, m, c, G) == \A h \in G : f[p[h]] = c * m[h]

\* What all of them take is c times what m sums.
LEMMA SumOfSpread ==
  ASSUME NEW G, IsFiniteSet(G), NEW m, IntegerOn(m, G), NEW c \in Int,
         NEW B, NEW p, OneToOne(p, G, B), NEW f, DOMAIN f = B, f = [b \in B |-> f[b]],
         Spreads(f, p, m, c, G)
  PROVE  SumFunction(f) = c * SumFunction(m)
<1> DEFINE g == [h \in G |-> f[p[h]]]
<1>1. \A h \in G : p[h] \in B /\ g[h] = f[p[h]] /\ g[h] = c * m[h] /\ m[h] \in Int
  BY DEF OneToOne, Bijection, Injection, Spreads, IntegerOn
<1>2. \A b \in B : \E h \in G : p[h] = b
  BY DEF OneToOne, Bijection, Surjection
<1>3. DOMAIN g = G /\ g = [h \in G |-> g[h]]
  OBVIOUS
<1> HIDE DEF g
<1>4. \A h \in G : g[h] \in Int
  BY <1>1
<1>5. \A b \in B : f[b] \in Int
  BY <1>1, <1>2, <1>4
<1>6. IntegerOn(g, G) /\ IntegerOn(f, B)
  BY <1>3, <1>4, <1>5 DEF IntegerOn
<1>7. Renamed(g, f, p, G) /\ TimesOf(g, m, c, G)
  BY <1>1 DEF Renamed, TimesOf
<1>8. SumFunction(f) = SumFunction(g)
  BY <1>6, <1>7, SumRenamedTo
<1>9. SumFunction(g) = c * SumFunction(m)
  BY <1>6, <1>7, SumOfMultiples
<1>10. QED BY <1>8, <1>9

\* The suggestions of a class share out c over its value.
SharedOut(G, c, den) == {[asset |-> h.asset, amount |-> <<c * h.market, den>>] : h \in G}

\* The shares are c together, times that value.
LEMMA AllIsBought ==
  ASSUME NEW G, IsFiniteSet(G), NEW m, IntegerOn(m, G), m = [h \in G |-> h.market],
         \A h, k \in G : h.asset = k.asset => h = k,
         NEW c \in Int, NEW den \in Nat \ {0}, NEW B, B = SharedOut(G, c, den)
  PROVE  BoughtOver(B, den) = c * SumFunction(m)
<1> DEFINE p == [h \in G |-> [asset |-> h.asset, amount |-> <<c * h.market, den>>]]
           f == [b \in B |-> (b.amount[1] * den) \div b.amount[2]]
<1>1. /\ \A h \in G : p[h] \in B /\ p[h].asset = h.asset
      /\ \A b \in B : \E h \in G : p[h] = b
      /\ p \in [G -> B]
  BY DEF SharedOut
<1>2. OneToOne(p, G, B)
  <2> HIDE DEF p
  <2>1. \A h, k \in G : p[h] = p[k] => h = k
    BY <1>1
  <2>2. QED BY <1>1, <2>1 DEF OneToOne, Bijection, Injection, Surjection, IsInjective
<1>3. ASSUME NEW h \in G PROVE f[p[h]] = c * m[h]
  <2>1. p[h].amount[1] = c * m[h] /\ p[h].amount[2] = den /\ m[h] \in Int
    BY DEF IntegerOn
  <2>2. f[p[h]] = (p[h].amount[1] * den) \div p[h].amount[2]
    BY <1>1
  <2> DEFINE n == c * m[h]
  <2>3. f[p[h]] = (n * den) \div den
    BY <2>1, <2>2
  <2>4. n \in Int
    BY <2>1
  <2> HIDE DEF n, f, p
  <2>5. (n * den) \div den = n
    BY <2>4, MultipleDivides
  <2>6. QED BY <2>3, <2>5 DEF n
<1>4. DOMAIN f = B /\ f = [b \in B |-> f[b]]
  OBVIOUS
<1>5. BoughtOver(B, den) = SumFunction(f)
  BY DEF BoughtOver
<1>6. Spreads(f, p, m, c, G)
  BY <1>3 DEF Spreads
<1> HIDE DEF p, f
<1>7. QED BY <1>2, <1>4, <1>5, <1>6, SumOfSpread

\* c over 10 - target is what has to be added.
ReachesBy(target, value, total, c, den) ==
  c = target * total - 10 * value /\ den = (10 - target) * value

\* With what is bought, the value is the target part of the total.
Reached(target, value, total, bought, den) ==
  10 * (value * den + bought) = target * (total * den + bought)

\* What makes a value the target part of a total that grows with it.
LEMMA TargetIsReached ==
  ASSUME NEW target \in Int, NEW value \in Int, NEW total \in Int, NEW c \in Int,
         NEW den \in Int, ReachesBy(target, value, total, c, den)
  PROVE  Reached(target, value, total, c * value, den)
BY DEF ReachesBy, Reached

\* Suggestions for a class reach the target.
LEMMA SuggestionsReachTarget ==
  ASSUME DatesInv, NEW u, NEW target \in 0..10, NEW class, NEW value, NEW B, NEW den,
         value = AllocatedTo(u, class), B = Suggestions(u, class, target),
         den = (10 - target) * value, B # {}
  PROVE  Reached(target, value, Tracked(u), BoughtOver(B, den), den)
<1> DEFINE G == HoldingsIn(u, class)
           m == [h \in G |-> h.market]
           buy == RecommendedBuyOf(u, class, target)
           c == buy[1]
           total == Tracked(u)
<1>1. /\ IsFiniteSet(G) /\ IntegerOn(m, G) /\ \A h, k \in G : h.asset = k.asset => h = k
      /\ value = SumFunction(m) /\ value \in Int
  BY HoldingsOfClass
<1>2. total \in Int
  <2>1. AllocatedTo(u, "equity") \in Int /\ AllocatedTo(u, "bond") \in Int
    BY HoldingsOfClass
  <2>2. QED BY <2>1 DEF Tracked
<1>3. buy = IF total = 0 \/ value * 10 >= target * total \/ target >= 10 THEN <<0, 1>>
            ELSE <<target * total - 10 * value, 10 - target>>
  BY DEF RecommendedBuyOf, RecommendedBuy
<1>4. c > 0 /\ value > 0 /\ B = SharedOut(G, c, buy[2] * value)
  BY DEF Suggestions, SharedOut, HoldingsIn
<1>5. m = [h \in G |-> h.market]
  OBVIOUS
<1> HIDE DEF G, m, buy, total
<1>6. c = target * total - 10 * value /\ buy[2] = 10 - target /\ ~(target >= 10)
  BY <1>3, <1>4
<1>7. den \in Nat \ {0}
  <2>1. 10 - target \in Nat \ {0} /\ value \in Nat \ {0}
    BY <1>1, <1>4, <1>6
  <2> DEFINE k == 10 - target
  <2>2. k \in Nat \ {0} /\ den = k * value
    BY <2>1
  <2> HIDE DEF k
  <2>3. QED BY <2>1, <2>2
<1>8. c \in Int
  BY <1>1, <1>2, <1>6
<1>9. B = SharedOut(G, c, den)
  BY <1>4, <1>6
<1> HIDE DEF c
<1>10. BoughtOver(B, den) = c * value
  <2>1. BoughtOver(B, den) = c * SumFunction(m)
    BY <1>1, <1>5, <1>7, <1>8, <1>9, AllIsBought
  <2>2. QED BY <1>1, <2>1
<1>11. Reached(target, value, total, c * value, den)
  <2>1. ReachesBy(target, value, total, c, den)
    BY <1>6 DEF ReachesBy
  <2>2. target \in Int /\ value \in Int /\ total \in Int /\ den \in Int
    BY <1>1, <1>2, <1>7
  <2>3. QED BY <1>8, <2>1, <2>2, TargetIsReached
<1>12. QED BY <1>10, <1>11 DEF total

(***************************************************************************)
(* Whoever buys what the rebalance suggests reaches the target, whatever   *)
(* the book, the prices and the rates: the amounts that buildSuggestions   *)
(* spreads over the holdings of a class make it exactly its part of the    *)
(* total that they add to.                                                 *)
(***************************************************************************)
THEOREM RebalanceReaches == Spec => []RebalanceReachesTarget
<1>1. ASSUME DatesInv PROVE RebalanceReachesTarget
  <2> SUFFICES ASSUME NEW u \in Users, NEW equity \in 0..10, NEW class \in {"equity", "bond"},
                      Suggestions(u, class, Targets(equity)[class]) # {}
               PROVE  LET target == Targets(equity)[class]
                          value  == AllocatedTo(u, class)
                          buys   == Suggestions(u, class, target)
                          den    == (10 - target) * value
                          bought == BoughtOver(buys, den) IN
                      Reached(target, value, Tracked(u), bought, den)
    BY DEF RebalanceReachesTarget, Reached, BoughtOver, SumOver
  <2>1. Targets(equity)[class] \in 0..10
    BY DEF Targets
  <2>2. QED BY SMTT(60), <1>1, <2>1, SuggestionsReachTarget
<1>2. QED BY <1>1, DatesInvariant, PTL
=============================================================================
