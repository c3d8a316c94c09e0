-------------------------- MODULE ConcurrentTrades --------------------------
(***************************************************************************)
(* Creates of trades that run at the same time.  The database transaction  *)
(* of a create runs at the default isolation, read committed: it first     *)
(* reads the open position and the open lots of its scope, as others have  *)
(* committed them by then, and what it then writes to them are the values  *)
(* computed from what it read.  Row locks only delay the writes of one     *)
(* transaction until another has ended.  (Elsewhere transactions are taken *)
(* as serial: Ledger.)                                                     *)
(*                                                                         *)
(* Only creates that are booked incrementally are modelled, and no splits. *)
(***************************************************************************)
EXTENDS LedgerProperties

CONSTANTS NoJob, NoPosition

VARIABLE
  job   \* what the running create of a transaction has read

jobVars == <<vars, job>>

Running(t) == job[t] # NoJob

\* Every row is entered once, which tells the positions they open apart.
TakenRows ==
  {tx[t] : t \in {u \in TxIds : Exists(u)}}
    \cup {job[t].row : t \in {u \in TxIds : Running(u)}}

(***************************************************************************)
(* prepareCreateSideEffects: the decision for the incremental bookkeeping, *)
(* and the plan of a sell.  The reads of a create are taken as one step;   *)
(* for a buy the read of its position is one of them.                      *)
(***************************************************************************)
MayStart(t, r, s) ==
  /\ ~Exists(t) /\ ~Running(t)
  /\ r \notin TakenRows
  /\ ValidRow(r, NoAsset)
  /\ s \in ScopesOf(r)
  /\ ~NeedsFullScopeReplayOnCreate(r, s)

ReadForBuy(t, r, s) ==
  /\ r.type = "buy"
  /\ MayStart(t, r, s)
  /\ \E p \in positions \cup {NoPosition} :
       /\ IF OpenPositions(s) = {} THEN p = NoPosition ELSE IsActivePosition(p, s)
       /\ job' = [job EXCEPT ![t] = [row |-> r, scope |-> s, position |-> p]]
  /\ UNCHANGED vars

ReadForSell(t, r, s) ==
  /\ r.type = "sell"
  /\ MayStart(t, r, s)
  /\ \E p \in positions, order \in FifoOrders(s) :
       /\ IsActivePosition(p, s)
       /\ Consume(order, r.qty).toSell = 0
       /\ job' = [job EXCEPT ![t] = [row |-> r, scope |-> s, position |-> p,
                                     plan |-> Consume(order, r.qty)]]
  /\ UNCHANGED vars

\* The row of a position that was read, as it is now.
SameRow(p) ==
  {q \in positions : q.scope = p.scope /\ q.openedAt = p.openedAt}

CommitCreate(t) ==
  /\ Running(t)
  /\ Insert(t, job[t].row)
  /\ job' = [job EXCEPT ![t] = NoJob]

CommitBuy(t) ==
  /\ CommitCreate(t)
  /\ job[t].row.type = "buy"
  /\ LET r == job[t].row  s == job[t].scope  p == job[t].position IN
       /\ lots' = lots \cup
            {LotRow(s, [src |-> t, orig |-> r.qty, rem |-> r.qty,
                        unit |-> r.amount \div r.qty, openedAt |-> r.time])}
       /\ positions' =
            IF p = NoPosition
              THEN positions \cup {PositionRow(s, r.qty, r.amount, r.time, TRUE)}
              ELSE (positions \ SameRow(p)) \cup
                     {PositionRow(s, p.qty + r.qty, p.cost + r.amount, p.openedAt,
                                  \E q \in SameRow(p) : q.open)}
  /\ UNCHANGED matches
  /\ PostTransactions({t}, {})

\* applySellLotConsumptionPlan: the lots of the plan get the quantities that
\* were computed when they were read.
CommitSell(t) ==
  /\ CommitCreate(t)
  /\ job[t].row.type = "sell"
  /\ LET s       == job[t].scope
         p       == job[t].position
         plan    == job[t].plan
         written == {plan.lots[i] : i \in
                       {n \in DOMAIN plan.lots :
                          \E fill \in plan.fills : fill.src = plan.lots[n].src}}
         open    == SumOpenQuantity(plan.lots) IN
       /\ lots' = {l \in lots : ~\E w \in written : w.scope = l.scope /\ w.src = l.src}
                    \cup written
       /\ matches' = matches \cup {MatchRow(s, t, fill) : fill \in plan.fills}
       /\ positions' = (positions \ SameRow(p)) \cup
            {PositionRow(s, open, SumOpenCost(plan.lots), p.openedAt, open > 0)}
  /\ PostTransactions({t}, {})

\* An error or a crash: nothing was committed.
CreateFails(t) ==
  /\ Running(t)
  /\ job' = [job EXCEPT ![t] = NoJob]
  /\ UNCHANGED vars

JobInit == Init /\ job = [t \in TxIds |-> NoJob]

JobNext ==
  \E t \in TxIds :
    \/ \E r \in Inputs, s \in Scopes : ReadForBuy(t, r, s) \/ ReadForSell(t, r, s)
    \/ CommitBuy(t) \/ CommitSell(t) \/ CreateFails(t)

JobSpec == JobInit /\ [][JobNext]_jobVars

-----------------------------------------------------------------------------
(***************************************************************************)
(* The lots and matches are those of a first-in-first-out book over the    *)
(* trades, and the position agrees with the lots (README.md:18), also when *)
(* trades are entered at the same time.                                    *)
(***************************************************************************)
BookFollowsTrades == ChronologicalFifo /\ PositionMatchesOpenLots
=============================================================================
