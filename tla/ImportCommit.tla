---------------------------- MODULE ImportCommit ----------------------------
(***************************************************************************)
(* Committing a broker file: TransactionImportService next to the          *)
(* investment book.  A request first evaluates the rows and plans the      *)
(* sells, outside any transaction, and then writes the ready rows in the   *)
(* planned order in one database transaction, which is rolled back when a  *)
(* row fails.  Users edit the book and other requests run in between.      *)
(* (A preview is the evaluation alone: it writes nothing, and the commit   *)
(* evaluates again.)                                                       *)
(*                                                                         *)
(* The writing transaction takes one step per row; as everywhere in        *)
(* Ledger, database transactions are serial, so nothing else touches the   *)
(* book before it ends.  What the broker file gives as a calendar day is   *)
(* stored as the midnight of the day.                                      *)
(***************************************************************************)
EXTENDS Ledger, ImportPlanner

CONSTANTS
  Requests,    \* the commits that are made
  Files,       \* the broker files there are
  NoFile,
  OrderNos,    \* Transaction.brokerOrderNo
  NoOrder,     \* a transaction without one
  SplitBooks,  \* the sets of splits recorded from the start
  MaxEdits     \* bound on user operations

Faults == {"none", "fields", "mapping"}

FileRows == [order : OrderNos, fault : Faults, row : NewRows]

ASSUME FilesHoldTrades ==
  \A file \in Files :
    /\ file.rows \in Seq(FileRows)
    /\ \A n \in DOMAIN file.rows :
         LET row == file.rows[n].row IN
         /\ row.account = file.account
         /\ row.type \in {"buy", "sell"} /\ HasExactPrice(row)

ASSUME EditsAreBounded == MaxEdits \in Nat

ASSUME SplitBooksHoldSplits == \A book \in SplitBooks : AreSplits(book)

VARIABLES
  orders,      \* the brokerOrderNo of each transaction
  request,     \* the progress of each commit
  saved,       \* what a rollback of the open batch returns to
  edits

importVars == <<orders, request, saved, edits>>
allVars == <<vars, importVars>>

(***************************************************************************)
(* A file is for one account and has rows: the broker's order number, the  *)
(* fault of the row ("fields" when a field does not parse, "mapping" when  *)
(* the currency or the asset name does not resolve, or "none") and the     *)
(* transaction it stands for.  The row number is the place in the file.    *)
(***************************************************************************)
Idle ==
  [phase |-> "idle", file |-> NoFile, status |-> <<>>, queue |-> <<>>]

\* Three instants tell the trades of a day apart: midnight and two more.
Midnight(day) == 3 * day

\* formatBrokerTradeCalendarDate
DayOf(time) == time \div 3

TheAccount(q) == request[q].file.account

TheRow(q, n) == request[q].file.rows[n]

(***************************************************************************)
(* findExistingInAccount: soft-deleted transactions count.                 *)
(***************************************************************************)
\* Mutant: in any account.
ImportedSomewhere(account, order) ==
  \E t \in TxIds : Exists(t) /\ orders[t] = order

Imported(account, order) ==
  \E t \in TxIds : Exists(t) /\ tx[t].account = account /\ orders[t] = order

\* The unique key (accountId, brokerOrderNo).
UniqueOrders ==
  \A t, u \in TxIds :
    t # u /\ Exists(t) /\ Exists(u) /\ tx[t].account = tx[u].account
      => orders[t] = NoOrder \/ orders[t] # orders[u]

-----------------------------------------------------------------------------
(***************************************************************************)
(* The other users of the book.  A transaction entered by hand may carry   *)
(* an order number too.                                                    *)
(***************************************************************************)
NoBatchOpen == \A q \in Requests : request[q].phase # "writing"

ManualCreate(t, r, order) ==
  /\ Create(t, r)
  /\ orders' = [orders EXCEPT ![t] = order]
  /\ UniqueOrders'

ManualUpdate(t, r) ==
  /\ UpdateOwn(t, r)
  /\ UNCHANGED orders
  /\ UniqueOrders'

ManualDelete(t) ==
  \/ SoftDelete(t) /\ UNCHANGED orders
  \/ HardDelete(t) /\ orders' = [orders EXCEPT ![t] = NoOrder]

EditBook ==
  /\ NoBatchOpen
  /\ edits < MaxEdits
  /\ \E t \in TxIds :
       \/ \E r \in Inputs, order \in OrderNos \cup {NoOrder} :
            ManualCreate(t, r, order)
       \/ \E r \in Inputs : ManualUpdate(t, r)
       \/ ManualDelete(t)
  /\ edits' = edits + 1
  /\ UNCHANGED <<request, saved>>

-----------------------------------------------------------------------------
(***************************************************************************)
(* evaluateParsedImportRow for row n of a file, in the order of its        *)
(* checks: a row already imported is skipped whatever its currency and     *)
(* asset name are.  The reads of the rows of one file are taken as one     *)
(* step.  (An evaluation while a batch is open reads the book the batch    *)
(* began with: it is one that comes before the batch.)                     *)
(***************************************************************************)
SeenInFile(rows, n) ==
  \E m \in 1..(n - 1) :
    rows[m].fault # "fields" /\ rows[m].order = rows[n].order

RowStatus(file, n) ==
  LET row == file.rows[n] IN
  IF row.fault = "fields" THEN "error"
  ELSE IF SeenInFile(file.rows, n) THEN "duplicate"
  ELSE IF Imported(file.account, row.order) THEN "skipped"
  ELSE IF row.fault = "mapping" THEN "error"
  ELSE "ready"

EvaluateRows(q, file) ==
  /\ NoBatchOpen
  /\ request[q].phase = "idle"
  /\ request' = [request EXCEPT
       ![q] = [Idle EXCEPT !.phase  = "evaluated",
                           !.file   = file,
                           !.status = [n \in DOMAIN file.rows |->
                                         RowStatus(file, n)]]]
  /\ UNCHANGED <<vars, orders, saved, edits>>

-----------------------------------------------------------------------------
(***************************************************************************)
(* applySellReadinessPlan: the ready rows are planned, asset by asset,     *)
(* together with the live trades that the account has now.                 *)
(***************************************************************************)
WithStatus(q, status) == {n \in DOMAIN request[q].status :
                            request[q].status[n] = status}

Candidates(q, x) ==
  {[kind |-> "import", number |-> n, type |-> TheRow(q, n).row.type,
    day |-> DayOf(TheRow(q, n).row.time), qty |-> TheRow(q, n).row.qty] :
     n \in {m \in WithStatus(q, "ready") : TheRow(q, m).row.asset = x}}

History(account, x) ==
  {[kind |-> "history", number |-> t, type |-> tx[t].type,
    day |-> DayOf(tx[t].time), qty |-> tx[t].qty] :
     t \in LiveTrades(tx, <<account, x>>)}

Trades(q, x) == History(TheAccount(q), x) \cup Candidates(q, x)

PlannedAssets(q) == {TheRow(q, n).row.asset : n \in WithStatus(q, "ready")}

BlockedRows(q) ==
  UNION {{b.number : b \in BlockedSells(Trades(q, x))} : x \in PlannedAssets(q)}

\* computeImportCanCommit: a sell that is blocked does not block the others.
CanCommit(status) ==
  LET Some(s) == \E n \in DOMAIN status : status[n] = s IN
  /\ ~Some("duplicate")
  /\ Some("ready") \/ (Some("skipped") /\ ~Some("error"))

PlanSells(q) ==
  LET blocked == BlockedRows(q)
      status  == [n \in DOMAIN request[q].status |->
                    IF n \in blocked THEN "error" ELSE request[q].status[n]] IN
  /\ NoBatchOpen
  /\ request[q].phase = "evaluated"
  /\ \E assets \in SetToSeqs(PlannedAssets(q)) :
       request' = [request EXCEPT
         ![q].phase  = IF CanCommit(status) THEN "planned" ELSE "rejected",
         ![q].status = status,
         ![q].queue  = FlattenSeq([i \in DOMAIN assets |->
                                     WriteOrder(Trades(q, assets[i]))])]
  /\ UNCHANGED <<vars, orders, saved, edits>>

-----------------------------------------------------------------------------
(***************************************************************************)
(* The batch: writeReadyImportRow for each row of the queue in one         *)
(* database transaction.                                                   *)
(***************************************************************************)
Book ==
  [tx |-> tx, lots |-> lots, matches |-> matches, positions |-> positions,
   gl |-> gl, orders |-> orders]

\* There is nothing to return to.
NoBook == <<>>

BeginBatch(q) ==
  /\ NoBatchOpen
  /\ request[q].phase = "planned"
  /\ request' = [request EXCEPT ![q].phase = "writing"]
  /\ saved' = Book
  /\ UNCHANGED <<vars, orders, edits>>

InBatch(q) == request[q].phase = "writing"

\* A row that the file does not have is a bad request.
HasRow(q) == Head(request[q].queue) \in DOMAIN request[q].file.rows

NextRow(q) == TheRow(q, Head(request[q].queue))

RowDone(q) == request' = [request EXCEPT ![q].queue = Tail(@)]

WriteRow(q, t) ==
  /\ InBatch(q) /\ request[q].queue # <<>> /\ HasRow(q)
  /\ ~Imported(TheAccount(q), NextRow(q).order)
  /\ Create(t, NextRow(q).row)
  /\ orders' = [orders EXCEPT ![t] = NextRow(q).order]
  /\ RowDone(q)
  /\ UNCHANGED <<saved, edits>>

\* Imported by another request since the rows were evaluated.
SkipRow(q) ==
  /\ InBatch(q) /\ request[q].queue # <<>> /\ HasRow(q)
  /\ Imported(TheAccount(q), NextRow(q).order)
  /\ RowDone(q)
  /\ UNCHANGED <<vars, orders, saved, edits>>

\* The book refuses to create r as transaction t: the open lots do not fund
\* the sell, or the scope cannot be replayed.
Refused(t, r) ==
  \E s \in ScopesOf(r) :
    IF NeedsFullScopeReplayOnCreate(r, s)
      THEN ~Replay([tx EXCEPT ![t] = r], s).ok
      ELSE /\ r.type = "sell"
           /\ \/ OpenPositions(s) = {}
              \/ MapThenSumSet(LAMBDA l : l.rem, OpenLots(s)) < r.qty

\* Mutant: the journal is written outside the transaction.
RollBackWithoutJournal(q, phase) ==
  /\ tx' = saved.tx /\ lots' = saved.lots /\ matches' = saved.matches
  /\ positions' = saved.positions /\ orders' = saved.orders
  /\ UNCHANGED <<gl, splits, edits>>
  /\ request' = [request EXCEPT ![q].phase = phase, ![q].queue = <<>>]
  /\ saved' = NoBook

RollBack(q, phase) ==
  /\ tx' = saved.tx /\ lots' = saved.lots /\ matches' = saved.matches
  /\ positions' = saved.positions /\ gl' = saved.gl /\ orders' = saved.orders
  /\ UNCHANGED <<splits, edits>>
  /\ request' = [request EXCEPT ![q].phase = phase, ![q].queue = <<>>]
  /\ saved' = NoBook

RefuseRow(q, t) ==
  /\ InBatch(q) /\ request[q].queue # <<>>
  /\ HasRow(q) =>
       /\ ~Imported(TheAccount(q), NextRow(q).order)
       /\ ~Exists(t)
       /\ Refused(t, NextRow(q).row)
  /\ RollBack(q, "refused")

\* The database fails, or the process ends, while the batch is open.
AbortBatch(q) == InBatch(q) /\ RollBack(q, "aborted")

FinishBatch(q) ==
  /\ InBatch(q) /\ request[q].queue = <<>>
  /\ request' = [request EXCEPT ![q].phase = "done"]
  /\ saved' = NoBook
  /\ UNCHANGED <<vars, orders, edits>>

-----------------------------------------------------------------------------
ImportInit ==
  /\ tx = [t \in TxIds |-> NoTx]
  /\ lots = {} /\ matches = {} /\ positions = {} /\ gl = {}
  /\ splits \in SplitBooks
  /\ orders = [t \in TxIds |-> NoOrder]
  /\ request = [q \in Requests |-> Idle]
  /\ saved = NoBook
  /\ edits = 0

Continue(q) ==
  \/ PlanSells(q)
  \/ BeginBatch(q)
  \/ \E t \in TxIds : WriteRow(q, t) \/ RefuseRow(q, t)
  \/ SkipRow(q)
  \/ AbortBatch(q)
  \/ FinishBatch(q)

Evaluate == \E q \in Requests, file \in Files : EvaluateRows(q, file)

ImportNext == EditBook \/ Evaluate \/ \E q \in Requests : Continue(q)

ImportSpec == ImportInit /\ [][ImportNext]_allVars
=============================================================================
