----------------------------- MODULE FifoReplay -----------------------------
(***************************************************************************)
(* The chronological replay of one position scope, an (account, asset)     *)
(* pair: position-replay.engine.ts.  A pure algorithm: the trades and the  *)
(* splits of the scope go in, and lots, sell-lot matches and the position  *)
(* come out, or the replay fails.                                          *)
(*                                                                         *)
(* Times are natural numbers, and transaction identifiers are natural      *)
(* numbers so that "ORDER BY tradeTime, id" can be stated.  Quantities and *)
(* money are integers; a model chooses amounts for which every division of *)
(* the code is exact, except the rounding of Taiwan shares, which is kept. *)
(***************************************************************************)
EXTENDS Ordering, Sequences, SequencesExt, FiniteSetsExt

(***************************************************************************)
(* Math.round of the non-negative rational n / d (halves go up).           *)
(***************************************************************************)
RoundTwShareQuantity(n, d) == (2 * n + d) \div (2 * d)

\* Scaling a share quantity by a split ratio [num, den]: only the Taiwan
\* market trades whole shares.
SplitQuantity(q, ratio, market) ==
  IF market = "tw" THEN RoundTwShareQuantity(q * ratio.num, ratio.den)
                   ELSE (q * ratio.num) \div ratio.den

SumOpenQuantity(seq) == SumFunction([i \in DOMAIN seq |-> seq[i].rem])

\* Mutant: the cost of what was bought instead of what is left.
SumOriginalCost(seq) ==
  SumFunction([i \in DOMAIN seq |-> seq[i].orig * seq[i].unit])

SumOpenCost(seq) == SumFunction([i \in DOMAIN seq |-> seq[i].rem * seq[i].unit])

(***************************************************************************)
(* FIFO consumption of q shares from a sequence of lots, oldest first: a   *)
(* lot gives what the lots before it could not, up to what it still holds. *)
(* The result has the lots with what they hold afterwards, one fill for    *)
(* each lot that gave something, and what could not be consumed.           *)
(***************************************************************************)
ConsumeLot(st, lot) ==
  LET taken == Min({lot.rem, st.toSell}) IN
  [toSell |-> st.toSell - taken,
   lots   |-> Append(st.lots, [lot EXCEPT !.rem = @ - taken]),
   fills  |-> IF taken = 0 THEN st.fills
              ELSE st.fills \cup
                     {[src |-> lot.src, qty |-> taken, unit |-> lot.unit]}]

Consume(seq, q) ==
  FoldLeft(ConsumeLot, [toSell |-> q, lots |-> <<>>, fills |-> {}], seq)

-----------------------------------------------------------------------------
(***************************************************************************)
(* The timeline: by time, then splits before trades, then by identifier    *)
(* (the trades come from the database ordered by tradeTime and id, and the *)
(* sort is stable).                                                        *)
(***************************************************************************)
SplitEvents(actions) ==
  {[kind |-> "split", time |-> a.exDate, priority |-> 0, id |-> 0,
    ratio |-> a.ratio, market |-> a.market] : a \in actions}

TradeEvents(trades) ==
  {[kind |-> r.type, time |-> r.time, priority |-> 1, id |-> r.id,
    qty |-> r.qty, amount |-> r.amount] : r \in trades}

Earlier(e, f) ==
  \/ e.time < f.time
  \/ e.time = f.time /\ e.priority < f.priority
  \/ e.time = f.time /\ e.priority = f.priority /\ e.id < f.id

BuildTimeline(trades, actions) ==
  InOrder(SplitEvents(actions) \cup TradeEvents(trades), Earlier)

-----------------------------------------------------------------------------
(***************************************************************************)
(* The replay state: the lots in the order they were opened, the fills of  *)
(* each sell, the time the current position was opened, and whether the    *)
(* replay is still feasible ("sell quantity exceeds open lots").           *)
(***************************************************************************)
EmptyReplay(trades) ==
  [lots     |-> <<>>,
   fills    |-> [s \in {r.id : r \in {x \in trades : x.type = "sell"}} |-> {}],
   openedAt |-> 0,
   ok       |-> TRUE]

SplitLot(lot, e) ==
  IF lot.rem = 0
    THEN lot
    ELSE [lot EXCEPT !.rem  = SplitQuantity(@, e.ratio, e.market),
                     !.orig = SplitQuantity(@, e.ratio, e.market),
                     !.unit = (@ * e.ratio.den) \div e.ratio.num]

ReplaySplit(st, e) ==
  [st EXCEPT !.lots = [i \in DOMAIN st.lots |-> SplitLot(st.lots[i], e)]]

ReplayBuy(st, e) ==
  [st EXCEPT
     !.lots = Append(@, [src |-> e.id, orig |-> e.qty, rem |-> e.qty,
                         unit |-> e.amount \div e.qty, openedAt |-> e.time]),
     !.openedAt = IF SumOpenQuantity(st.lots) = 0 THEN e.time ELSE @]

ReplaySell(st, e) ==
  LET consumed == Consume(st.lots, e.qty) IN
  [st EXCEPT !.lots = consumed.lots,
             !.fills[e.id] = consumed.fills,
             !.ok = @ /\ consumed.toSell = 0]

ReplayEvent(st, e) ==
  CASE e.kind = "split" -> ReplaySplit(st, e)
    [] e.kind = "buy"   -> ReplayBuy(st, e)
    [] e.kind = "sell"  -> ReplaySell(st, e)

ReplayScopeLedger(trades, actions) ==
  FoldLeft(ReplayEvent, EmptyReplay(trades), BuildTimeline(trades, actions))
=============================================================================
