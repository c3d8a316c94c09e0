---------------------------- MODULE ImportPlanner ----------------------------
(***************************************************************************)
(* Which rows of a broker file may be written, and in which order:         *)
(* import-sell-readiness.planner.ts.  A pure algorithm over the trades of  *)
(* one scope, those the book has (kind "history") and those of the file    *)
(* (kind "import"), each with a number (transaction id or row number), a   *)
(* type, a calendar day and a quantity.  Corporate actions do not enter.   *)
(*                                                                         *)
(* The planner keeps lots, but a sell takes from any lot opened on an      *)
(* earlier day, days only advance, and what an unwound sell gives back     *)
(* carries an earlier day too; so only the sum of the lots opened before   *)
(* the day matters, and the model keeps that sum.  Quantities are          *)
(* integers: QTY_EPS is not modelled.                                      *)
(***************************************************************************)
EXTENDS Ordering, Sequences, SequencesExt, FiniteSetsExt

QuantityOf(trades) == SumFunction([e \in trades |-> e.qty])

SideOn(trades, type, day) == {e \in trades : e.type = type /\ e.day = day}

(***************************************************************************)
(* The order in which the planner goes through the trades: day by day, the *)
(* sells of a day before its buys, history before the file, then by        *)
(* number.                                                                 *)
(***************************************************************************)
SellsRank(e) == IF e.type = "sell" THEN 0 ELSE 1

HistoryRank(e) == IF e.kind = "history" THEN 0 ELSE 1

\* Mutant: the buys of a day come first and fund its sells.
BuysOfTheDayFirst(e, f) ==
  LET Key(x) == <<x.day, 1 - SellsRank(x), HistoryRank(x), x.number>> IN
  \E i \in 1..4 : /\ Key(e)[i] < Key(f)[i]
                  /\ \A j \in 1..(i - 1) : Key(e)[j] = Key(f)[j]

PlannedBefore(e, f) ==
  LET Key(x) == <<x.day, SellsRank(x), HistoryRank(x), x.number>> IN
  \E i \in 1..4 : /\ Key(e)[i] < Key(f)[i]
                  /\ \A j \in 1..(i - 1) : Key(e)[j] = Key(f)[j]

(***************************************************************************)
(* The planning state: the shares held from the days gone by, the sells of *)
(* the file that took theirs, and the blocked sells.  The code keeps the   *)
(* former in the order in which they took them, which is PlannedBefore.    *)
(***************************************************************************)
NothingPlanned == [held |-> 0, consumed |-> {}, blocked |-> {}]

Blocked(e, reason) == [number |-> e.number, reason |-> reason]

\* Mutant: the shares already held are forgotten.
ReasonForgetsHeld(e, held, sameDayBuys) ==
  IF sameDayBuys > 0 /\ sameDayBuys >= e.qty THEN "same_day_ambiguous"
  ELSE IF held = 0 /\ sameDayBuys = 0 THEN "history_required"
  ELSE "insufficient_lots"

\* classifyBlockedSell: would the buys of the day have funded the sell?
BlockReason(e, held, sameDayBuys) ==
  IF sameDayBuys > 0 /\ held + sameDayBuys >= e.qty THEN "same_day_ambiguous"
  ELSE IF held = 0 /\ sameDayBuys = 0 THEN "history_required"
  ELSE "insufficient_lots"

(***************************************************************************)
(* unwindImportSellsForHistoryShortfall: sells of the file of earlier days *)
(* give their shares back, the last one first, until a sell of the book    *)
(* has what it needs.                                                      *)
(***************************************************************************)
\* Mutant: no sell of the file makes room for a sell of the book.
UnwoundNone(consumed, day, shortfall) == {}

Unwound(consumed, day, shortfall) ==
  LET earlier  == {e \in consumed : e.day < day}
      After(e) == QuantityOf({f \in earlier : PlannedBefore(e, f)}) IN
  {e \in earlier : After(e) < shortfall}

Unwind(st, day, shortfall) ==
  LET freed == Unwound(st.consumed, day, shortfall) IN
  [held     |-> st.held + QuantityOf(freed),
   consumed |-> st.consumed \ freed,
   blocked  |-> st.blocked \cup {Blocked(e, "insufficient_lots") : e \in freed}]

(***************************************************************************)
(* One sell.  A sell of the book that stays short is left out: the planner *)
(* takes it for an inconsistency the book already had.                     *)
(***************************************************************************)
TakeHeld(st, e) ==
  [st EXCEPT !.held = @ - e.qty,
             !.consumed = IF e.kind = "import" THEN @ \cup {e} ELSE @]

PlanHistorySell(st, e) ==
  LET roomy == IF e.qty > st.held THEN Unwind(st, e.day, e.qty - st.held) ELSE st
  IN IF e.qty <= roomy.held THEN TakeHeld(roomy, e) ELSE roomy

\* Mutant: a sell of everything held is blocked.
PlanImportSellStrictly(st, e, sameDayBuys) ==
  IF e.qty < st.held THEN TakeHeld(st, e)
  ELSE [st EXCEPT !.blocked =
          @ \cup {Blocked(e, BlockReason(e, st.held, sameDayBuys))}]

PlanImportSell(st, e, sameDayBuys) ==
  IF e.qty <= st.held THEN TakeHeld(st, e)
  ELSE [st EXCEPT !.blocked =
          @ \cup {Blocked(e, BlockReason(e, st.held, sameDayBuys))}]

PlanTrade(st, e, trades) ==
  IF e.type = "buy" THEN [st EXCEPT !.held = @ + e.qty]
  ELSE IF e.kind = "history" THEN PlanHistorySell(st, e)
  ELSE PlanImportSell(st, e, QuantityOf(SideOn(trades, "buy", e.day)))

\* planSingleScope: the blocked sells of the file, with the reasons.
BlockedSells(trades) ==
  FoldLeft(LAMBDA st, e : PlanTrade(st, e, trades), NothingPlanned,
           InOrder(trades, PlannedBefore)).blocked

(***************************************************************************)
(* compareScopeEntriesForWrite: the ready rows by day, the buys of a day   *)
(* before its sells, then by row number.                                   *)
(***************************************************************************)
\* Mutant: in the order of the file.
WrittenInFileOrder(e, f) == e.number < f.number

WrittenBefore(e, f) ==
  LET Key(x) == <<x.day, 1 - SellsRank(x), x.number>> IN
  \E i \in 1..3 : /\ Key(e)[i] < Key(f)[i]
                  /\ \A j \in 1..(i - 1) : Key(e)[j] = Key(f)[j]

\* Mutant: the blocked sells are written too.
EveryRow(trades) == {e \in trades : e.kind = "import"}

ReadyRows(trades) ==
  {e \in trades : e.kind = "import"
                  /\ e.number \notin {b.number : b \in BlockedSells(trades)}}

WriteOrder(trades) ==
  LET order == InOrder(ReadyRows(trades), WrittenBefore) IN
  [i \in DOMAIN order |-> order[i].number]
=============================================================================
