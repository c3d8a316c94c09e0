--------------------------- MODULE MCImportPlanner ---------------------------
(***************************************************************************)
(* The planner on every small scope: the trades are gathered one by one,   *)
(* those of the book and those of the file, and every set of them is       *)
(* planned.  The ready rows are then played into the book in the order in  *)
(* which they are written, by the replay of the book itself.               *)
(***************************************************************************)
EXTENDS ImportPlanner, FifoReplay

CONSTANTS Days, Quantities, MaxHistory, MaxRows

VARIABLES trades, blocked

vars == <<trades, blocked>>

NotPlanned == {[number |-> 0, reason |-> "not_planned"]}

OfKind(kind) == {e \in trades : e.kind = kind}

Init == trades = {} /\ blocked = NotPlanned

\* The trades of the book are numbered day by day, which loses nothing: the
\* number decides only between trades of a day.
NumberedByDay(kind, day) == kind = "history" => \A e \in OfKind(kind) : e.day <= day

AddTrade(kind, bound) ==
  /\ blocked = NotPlanned
  /\ Cardinality(OfKind(kind)) < bound
  /\ kind = "history" => OfKind("import") = {}
  /\ \E type \in {"buy", "sell"}, day \in Days, qty \in Quantities :
       /\ NumberedByDay(kind, day)
       /\ trades' = trades \cup
         {[kind |-> kind, number |-> Cardinality(OfKind(kind)) + 1,
           type |-> type, day |-> day, qty |-> qty]}
  /\ UNCHANGED blocked

PlanFile ==
  /\ blocked = NotPlanned
  /\ blocked' = BlockedSells(trades)
  /\ UNCHANGED trades

Next == AddTrade("history", MaxHistory) \/ AddTrade("import", MaxRows) \/ PlanFile

Spec == Init /\ [][Next]_vars

-----------------------------------------------------------------------------
(***************************************************************************)
(* The reference: a set of trades plays when, on no day, the sells up to   *)
(* and including the day exceed the buys before it.                        *)
(***************************************************************************)
Through(S, type, last) ==
  QuantityOf({e \in S : e.type = type /\ e.day <= last})

Plays(S) == \A day \in Days : Through(S, "sell", day) <= Through(S, "buy", day - 1)

Planned == blocked # NotPlanned

History == OfKind("history")

ReadyTrades == {e \in OfKind("import") : e.number \notin {b.number : b \in blocked}}

BlockedTrades == OfKind("import") \ ReadyTrades

(***************************************************************************)
(* A book that plays still plays with the ready rows of the file in it,    *)
(* even where the file puts sells before sells of the book and the planner *)
(* has to unwind them (import-sell-readiness.planner.ts: a sell takes only *)
(* what earlier days have left, and an imported sell must not leave a      *)
(* later sell of the book without lots).                                   *)
(***************************************************************************)
ReadyRowsPlay == Planned /\ Plays(History) => Plays(History \cup ReadyTrades)

(***************************************************************************)
(* No sell is blocked needlessly: putting a blocked sell back among the    *)
(* ready rows would overdraw some day.                                     *)
(***************************************************************************)
BlockedSellsAreNeeded ==
  Planned /\ Plays(History) =>
    \A e \in BlockedTrades : ~Plays(History \cup ReadyTrades \cup {e})

\* The file has no sell dated before a sell of the book.
FileComesLast ==
  \A e \in OfKind("import"), h \in History :
    e.type = "sell" /\ h.type = "sell" => h.day <= e.day

(***************************************************************************)
(* The same where the file has no sell dated before a sell of the book, so *)
(* that nothing has to be unwound: going through the sells in order then   *)
(* blocks only what cannot stay.                                           *)
(***************************************************************************)
NoNeedlessBlockAtTheEnd == FileComesLast => BlockedSellsAreNeeded

(***************************************************************************)
(* Shares of the same day are what a sell called ambiguous lacks, and a    *)
(* sell that lacks its history has none: the reason tells what the trader  *)
(* has to check.  Buys before the day, less the sells that stay up to the  *)
(* day, are what a blocked sell at the end of the book could have had.     *)
(***************************************************************************)
ReasonsFit ==
  Planned /\ Plays(History) /\ FileComesLast =>
    \A b \in blocked : \A e \in {x \in BlockedTrades : x.number = b.number} :
      LET others == History \cup {x \in ReadyTrades : PlannedBefore(x, e)}
          left   == Through(others, "buy", e.day - 1)
                      - Through(others, "sell", e.day)
          today  == QuantityOf(SideOn(trades, "buy", e.day)) IN
      /\ b.reason = "same_day_ambiguous" <=> today > 0 /\ left + today >= e.qty
      /\ b.reason = "history_required" <=> left = 0 /\ today = 0

-----------------------------------------------------------------------------
(***************************************************************************)
(* The book after the first n ready rows are written: a replay over the    *)
(* trades of the book, each at its time of day, and those rows, each at    *)
(* the midnight of its day (ledger time), identified after the book's.     *)
(***************************************************************************)
Playable(e) ==
  [id     |-> IF e.kind = "history" THEN e.number ELSE MaxHistory + e.number,
   type   |-> e.type, qty |-> e.qty, amount |-> e.qty,
   time   |-> IF e.kind = "history" THEN 2 * e.day + 1 ELSE 2 * e.day]

BookAfter(order, n) ==
  LET written == {e \in ReadyTrades : \E i \in 1..n : order[i] = e.number} IN
  ReplayScopeLedger({Playable(e) : e \in History \cup written}, {})

HistoryComesFirst ==
  \A e \in OfKind("import"), h \in History : h.day < e.day

(***************************************************************************)
(* The usual import succeeds: when the trades of the file all come after   *)
(* those of the book, every ready row can be written after the rows that   *)
(* are written before it (transaction-import.service.ts writes them one by *)
(* one, and a row that the book refuses rolls back the whole file).        *)
(***************************************************************************)
UsualImportSucceeds ==
  Planned /\ Plays(History) /\ HistoryComesFirst =>
    LET order == WriteOrder(trades) IN
    \A n \in DOMAIN order : BookAfter(order, n).ok

(***************************************************************************)
(* A buy never funds a sell of its calendar day                            *)
(* (import-sell-readiness.planner.ts:48, since a broker file has no        *)
(* times): the planner counts shares by day, the book matches lots first   *)
(* in, first out, and they agree.  For a book without day trades, which    *)
(* the planner does not consume.                                           *)
(***************************************************************************)
FundedOnTheDay(book, e) ==
  \E fill \in book.fills[Playable(e).id] :
    \E b \in trades : Playable(b).id = fill.src /\ b.day >= e.day

NoSameDayFunding ==
  Planned /\ Plays(History) =>
    LET order == WriteOrder(trades)
        book  == BookAfter(order, Len(order)) IN
    book.ok =>
      \A e \in ReadyTrades : e.type = "sell" => ~FundedOnTheDay(book, e)
=============================================================================
