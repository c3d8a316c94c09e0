-------------------------- MODULE ImportCommitProofs --------------------------
(***************************************************************************)
(* Committing broker files.  The planner takes the trades of a scope in    *)
(* one order and its queue holds the rows it does not block, each once;    *)
(* the book stays consistent while files are committed and rolled back     *)
(* between the operations of users; and each commit is all or nothing.     *)
(***************************************************************************)
EXTENDS ImportCommitProperties, LedgerProofs

-----------------------------------------------------------------------------
(***************************************************************************)
(* The orders of the planner.  The trades of a scope, each with a kind and *)
(* a number of its own, have one order to be planned in, and the rows of   *)
(* the file one to be written in.                                          *)
(***************************************************************************)
AreScopeTrades(trades) ==
  /\ IsFiniteSet(trades)
  /\ \A e \in trades : /\ e.day \in Int /\ e.number \in Int /\ e.qty \in Int
                       /\ e.kind \in {"history", "import"}
                       /\ e.type \in {"buy", "sell"}
  /\ \A e, f \in trades : e.kind = f.kind /\ e.number = f.number => e = f

Imports(trades) == {e \in trades : e.kind = "import"}

\* PlannedBefore and WrittenBefore, spelled out.
LEMMA PlannedBeforeSays ==
  ASSUME NEW e, NEW f
  PROVE  PlannedBefore(e, f) <=>
           \/ e.day < f.day
           \/ e.day = f.day /\ SellsRank(e) < SellsRank(f)
           \/ e.day = f.day /\ SellsRank(e) = SellsRank(f)
                /\ HistoryRank(e) < HistoryRank(f)
           \/ e.day = f.day /\ SellsRank(e) = SellsRank(f)
                /\ HistoryRank(e) = HistoryRank(f) /\ e.number < f.number
<1> DEFINE k == <<e.day, SellsRank(e), HistoryRank(e), e.number>>
           m == <<f.day, SellsRank(f), HistoryRank(f), f.number>>
           At(i) == k[i] < m[i] /\ \A j \in 1..(i - 1) : k[j] = m[j]
<1>1. PlannedBefore(e, f) <=> \E i \in 1..4 : At(i)
  BY DEF PlannedBefore
<1>2. /\ At(1) <=> k[1] < m[1]
      /\ At(2) <=> k[2] < m[2] /\ k[1] = m[1]
      /\ At(3) <=> k[3] < m[3] /\ k[1] = m[1] /\ k[2] = m[2]
      /\ At(4) <=> k[4] < m[4] /\ k[1] = m[1] /\ k[2] = m[2] /\ k[3] = m[3]
  <2>1. 1..(1 - 1) = {} /\ 1..(2 - 1) = {1} /\ 1..(3 - 1) = {1, 2}
        /\ 1..(4 - 1) = {1, 2, 3}
    OBVIOUS
  <2> HIDE DEF k, m
  <2>2. QED BY <2>1
<1>3. (\E i \in 1..4 : At(i)) <=> At(1) \/ At(2) \/ At(3) \/ At(4)
  <2> HIDE DEF At
  <2>1. 1..4 = {1, 2, 3, 4}
    OBVIOUS
  <2>2. QED BY <2>1
<1>4. /\ k[1] = e.day /\ k[2] = SellsRank(e) /\ k[3] = HistoryRank(e)
      /\ k[4] = e.number
      /\ m[1] = f.day /\ m[2] = SellsRank(f) /\ m[3] = HistoryRank(f)
      /\ m[4] = f.number
  OBVIOUS
<1> HIDE DEF k, m, At
<1>5. QED BY <1>1, <1>2, <1>3, <1>4, Zenon

\* Likewise for the order of writing.
LEMMA WrittenBeforeSays ==
  ASSUME NEW e, NEW f
  PROVE  WrittenBefore(e, f) <=>
           \/ e.day < f.day
           \/ e.day = f.day /\ 1 - SellsRank(e) < 1 - SellsRank(f)
           \/ e.day = f.day /\ 1 - SellsRank(e) = 1 - SellsRank(f)
                /\ e.number < f.number
<1> DEFINE k == <<e.day, 1 - SellsRank(e), e.number>>
           m == <<f.day, 1 - SellsRank(f), f.number>>
           At(i) == k[i] < m[i] /\ \A j \in 1..(i - 1) : k[j] = m[j]
<1>1. WrittenBefore(e, f) <=> \E i \in 1..3 : At(i)
  BY DEF WrittenBefore
<1>2. /\ At(1) <=> k[1] < m[1]
      /\ At(2) <=> k[2] < m[2] /\ k[1] = m[1]
      /\ At(3) <=> k[3] < m[3] /\ k[1] = m[1] /\ k[2] = m[2]
  <2>1. 1..(1 - 1) = {} /\ 1..(2 - 1) = {1} /\ 1..(3 - 1) = {1, 2}
    OBVIOUS
  <2> HIDE DEF k, m
  <2>2. QED BY <2>1
<1>3. (\E i \in 1..3 : At(i)) <=> At(1) \/ At(2) \/ At(3)
  <2> HIDE DEF At
  <2>1. 1..3 = {1, 2, 3}
    OBVIOUS
  <2>2. QED BY <2>1
<1>4. /\ k[1] = e.day /\ k[2] = 1 - SellsRank(e) /\ k[3] = e.number
      /\ m[1] = f.day /\ m[2] = 1 - SellsRank(f) /\ m[3] = f.number
  OBVIOUS
<1> HIDE DEF k, m, At
<1>5. QED BY <1>1, <1>2, <1>3, <1>4, Zenon

\* The sequence in which the trades are planned.
LEMMA PlanOrder ==
  ASSUME NEW trades, AreScopeTrades(trades)
  PROVE  InOrder(trades, PlannedBefore) \in Seq(trades)
<1> DEFINE below == [e \in trades |-> {f \in trades : PlannedBefore(f, e)}]
           seq == InOrder(trades, PlannedBefore)
           n == Cardinality(trades)
<1>1. IsFiniteSet(trades)
  BY DEF AreScopeTrades
<1>2. IsOrder(below, trades)
  <2>1. \A e \in trades : /\ e.day \in Int /\ e.number \in Int
                          /\ SellsRank(e) \in {0, 1} /\ HistoryRank(e) \in {0, 1}
    BY DEF AreScopeTrades, SellsRank, HistoryRank
  <2>2. \A e, f \in trades : HistoryRank(e) = HistoryRank(f) /\ e.number = f.number
                                => e = f
    BY DEF AreScopeTrades, HistoryRank
  <2>3. \A e \in trades : ~ PlannedBefore(e, e)
    BY <2>1, PlannedBeforeSays
  <2>4. \A e, f \in trades : e # f => PlannedBefore(e, f) \/ PlannedBefore(f, e)
    BY <2>1, <2>2, PlannedBeforeSays
  <2>5. \A d, e, f \in trades :
          PlannedBefore(d, e) /\ PlannedBefore(e, f) => PlannedBefore(d, f)
    BY <2>1, PlannedBeforeSays
  <2>6. QED BY <2>3, <2>4, <2>5 DEF IsOrder
<1>3. HasPlaces(below, trades)
  BY <1>1, <1>2, PlacesAreTaken
<1>4. seq = [i \in 1..n |->
               CHOOSE e \in trades :
                 Cardinality({f \in trades : PlannedBefore(f, e)}) = i - 1]
  BY DEF InOrder
<1>5. ASSUME NEW i \in 1..n
      PROVE  seq[i] \in trades /\ Cardinality(below[seq[i]]) = i - 1
  <2>1. PICK e \in trades : Cardinality(below[e]) = i - 1
    BY <1>3 DEF HasPlaces
  <2>2. Cardinality({f \in trades : PlannedBefore(f, e)}) = i - 1
    BY <2>1
  <2>3. seq[i] = CHOOSE d \in trades :
                   Cardinality({f \in trades : PlannedBefore(f, d)}) = i - 1
    BY <1>4
  <2> HIDE DEF seq
  <2>4. /\ seq[i] \in trades
        /\ Cardinality({f \in trades : PlannedBefore(f, seq[i])}) = i - 1
    BY <2>2, <2>3
  <2>5. QED BY <2>4
<1> HIDE DEF below
<1>6. DOMAIN seq = 1..n /\ seq = [i \in DOMAIN seq |-> seq[i]]
  BY <1>4
<1> HIDE DEF seq, n
<1>7. ByPlaces(seq, below, trades)
  BY <1>5, <1>6 DEF ByPlaces, n
<1>8. seq \in Seq(trades)
  BY <1>1, <1>2, <1>7, EachHasOnePlace
<1>9. QED BY <1>8 DEF seq

\* The sequence in which rows of the file are written: each once.
LEMMA RowOrder ==
  ASSUME NEW rows, AreScopeTrades(rows), rows = Imports(rows)
  PROVE  /\ InOrder(rows, WrittenBefore) \in Seq(rows)
         /\ InOrder(rows, WrittenBefore)
              \in Bijection(1..Len(InOrder(rows, WrittenBefore)), rows)
<1> DEFINE below == [e \in rows |-> {f \in rows : WrittenBefore(f, e)}]
           seq == InOrder(rows, WrittenBefore)
           n == Cardinality(rows)
<1>1. IsFiniteSet(rows)
  BY DEF AreScopeTrades
<1>2. IsOrder(below, rows)
  <2>1. \A e \in rows : /\ e.day \in Int /\ e.number \in Int
                        /\ SellsRank(e) \in {0, 1}
    BY DEF AreScopeTrades, SellsRank
  <2>2. \A e, f \in rows : e.number = f.number => e = f
    BY DEF AreScopeTrades, Imports
  <2>3. \A e \in rows : ~ WrittenBefore(e, e)
    BY <2>1, WrittenBeforeSays
  <2>4. \A e, f \in rows : e # f => WrittenBefore(e, f) \/ WrittenBefore(f, e)
    BY <2>1, <2>2, WrittenBeforeSays
  <2>5. \A d, e, f \in rows :
          WrittenBefore(d, e) /\ WrittenBefore(e, f) => WrittenBefore(d, f)
    BY <2>1, WrittenBeforeSays
  <2>6. QED BY <2>3, <2>4, <2>5 DEF IsOrder
<1>3. HasPlaces(below, rows)
  BY <1>1, <1>2, PlacesAreTaken
<1>4. seq = [i \in 1..n |->
               CHOOSE e \in rows :
                 Cardinality({f \in rows : WrittenBefore(f, e)}) = i - 1]
  BY DEF InOrder
<1>5. ASSUME NEW i \in 1..n
      PROVE  seq[i] \in rows /\ Cardinality(below[seq[i]]) = i - 1
  <2>1. PICK e \in rows : Cardinality(below[e]) = i - 1
    BY <1>3 DEF HasPlaces
  <2>2. Cardinality({f \in rows : WrittenBefore(f, e)}) = i - 1
    BY <2>1
  <2>3. seq[i] = CHOOSE d \in rows :
                   Cardinality({f \in rows : WrittenBefore(f, d)}) = i - 1
    BY <1>4
  <2> HIDE DEF seq
  <2>4. /\ seq[i] \in rows
        /\ Cardinality({f \in rows : WrittenBefore(f, seq[i])}) = i - 1
    BY <2>2, <2>3
  <2>5. QED BY <2>4
<1> HIDE DEF below
<1>6. DOMAIN seq = 1..n /\ seq = [i \in DOMAIN seq |-> seq[i]]
  BY <1>4
<1> HIDE DEF seq, n
<1>7. ByPlaces(seq, below, rows)
  BY <1>5, <1>6 DEF ByPlaces, n
<1>8. seq \in Seq(rows) /\ seq \in Bijection(1..Len(seq), rows)
  BY <1>1, <1>2, <1>7, EachHasOnePlace
<1>9. QED BY <1>8 DEF seq

-----------------------------------------------------------------------------
(***************************************************************************)
(* The states of a plan, and what the planner has computed after each      *)
(* trade.                                                                  *)
(***************************************************************************)
Reasons == {"same_day_ambiguous", "history_required", "insufficient_lots"}

RowNumbers(trades) == {e.number : e \in Imports(trades)}

PlanStates(trades) ==
  [held : Int, consumed : SUBSET Imports(trades),
   blocked : SUBSET [number : RowNumbers(trades), reason : Reasons]]

PlanRun(r, trades) ==
  LET seq == InOrder(trades, PlannedBefore) IN
  /\ r[0] = NothingPlanned
  /\ \A i \in 1..Len(seq) : r[i] = PlanTrade(r[i - 1], seq[i], trades)
  /\ BlockedSells(trades) = r[Len(seq)].blocked

\* Trades have a quantity together.
LEMMA QuantityIsInt ==
  ASSUME NEW trades, AreScopeTrades(trades), NEW S \in SUBSET trades
  PROVE  IsFiniteSet(S) /\ QuantityOf(S) \in Int
<1> DEFINE f == [e \in S |-> e.qty]
<1>1. IsFiniteSet(S)
  BY FS_Subset DEF AreScopeTrades
<1>2. f \in [S -> Int]
  BY DEF AreScopeTrades
<1> HIDE DEF f
<1>3. SumFunction(f) \in Int
  BY <1>1, <1>2, SumInt
<1>4. QED BY <1>1, <1>3 DEF QuantityOf, f

\* A trade of the scope takes a state of the plan to a state of the plan.
LEMMA PlanTradeTypes ==
  ASSUME NEW trades, AreScopeTrades(trades), NEW e \in trades,
         NEW st \in PlanStates(trades)
  PROVE  PlanTrade(st, e, trades) \in PlanStates(trades)
<1>1. /\ st.held \in Int /\ st.consumed \in SUBSET Imports(trades)
      /\ st.blocked \in SUBSET [number : RowNumbers(trades), reason : Reasons]
      /\ st = [held |-> st.held, consumed |-> st.consumed, blocked |-> st.blocked]
  BY DEF PlanStates
<1>2. e.qty \in Int /\ e.type \in {"buy", "sell"} /\ e.kind \in {"history", "import"}
  BY DEF AreScopeTrades
<1>3. \A f \in Imports(trades), reason \in Reasons :
        Blocked(f, reason) \in [number : RowNumbers(trades), reason : Reasons]
  BY DEF Blocked, RowNumbers
<1>4. ASSUME NEW s \in PlanStates(trades) PROVE TakeHeld(s, e) \in PlanStates(trades)
  <2>1. /\ s.held \in Int /\ s.consumed \in SUBSET Imports(trades)
        /\ s.blocked \in SUBSET [number : RowNumbers(trades), reason : Reasons]
        /\ s = [held |-> s.held, consumed |-> s.consumed, blocked |-> s.blocked]
    BY <1>4 DEF PlanStates
  <2>2. TakeHeld(s, e) =
          [held |-> s.held - e.qty,
           consumed |-> IF e.kind = "import" THEN s.consumed \cup {e} ELSE s.consumed,
           blocked |-> s.blocked]
    <3> DEFINE a == [s EXCEPT !.held = s.held - e.qty]
               taken == IF e.kind = "import" THEN s.consumed \cup {e} ELSE s.consumed
    <3>1. a = [held |-> s.held - e.qty, consumed |-> s.consumed, blocked |-> s.blocked]
      BY <2>1
    <3>2. TakeHeld(s, e) = [a EXCEPT !.consumed = taken]
      BY <3>1 DEF TakeHeld
    <3> HIDE DEF a, taken
    <3>3. TakeHeld(s, e) =
            [held |-> s.held - e.qty, consumed |-> taken, blocked |-> s.blocked]
      BY <3>1, <3>2
    <3>4. QED BY <3>3 DEF taken
  <2>3. QED BY <1>2, <2>1, <2>2 DEF PlanStates, Imports
<1>5. CASE e.type = "buy"
  BY <1>1, <1>2, <1>5 DEF PlanTrade, PlanStates
<1>6. CASE e.type # "buy" /\ e.kind = "history"
  <2>1. ASSUME NEW k PROVE Unwind(st, e.day, k) \in PlanStates(trades)
    <3> DEFINE freed == Unwound(st.consumed, e.day, k)
    <3>1. freed \in SUBSET st.consumed
      BY DEF Unwound
    <3>2. freed \in SUBSET trades
      BY <1>1, <3>1 DEF Imports
    <3>3. QuantityOf(freed) \in Int
      BY <3>2, QuantityIsInt
    <3>4. \A f \in freed : Blocked(f, "insufficient_lots")
                             \in [number : RowNumbers(trades), reason : Reasons]
      BY <1>1, <1>3, <3>1 DEF Reasons
    <3>5. Unwind(st, e.day, k) =
            [held |-> st.held + QuantityOf(freed), consumed |-> st.consumed \ freed,
             blocked |-> st.blocked \cup {Blocked(f, "insufficient_lots") : f \in freed}]
      BY DEF Unwind
    <3> HIDE DEF freed
    <3>6. QED BY <1>1, <3>3, <3>4, <3>5 DEF PlanStates
  <2>2. PlanHistorySell(st, e) \in PlanStates(trades)
    BY <1>4, <2>1 DEF PlanHistorySell
  <2>3. QED BY <1>6, <2>2 DEF PlanTrade
<1>7. CASE e.type # "buy" /\ e.kind # "history"
  <2>1. e \in Imports(trades)
    BY <1>2, <1>7 DEF Imports
  <2>2. \A held, sameDay : BlockReason(e, held, sameDay) \in Reasons
    BY DEF BlockReason, Reasons
  <2>3. \A held, sameDay : Blocked(e, BlockReason(e, held, sameDay))
                             \in [number : RowNumbers(trades), reason : Reasons]
    BY <1>3, <2>1, <2>2
  <2>4. \A sameDay : PlanImportSell(st, e, sameDay) \in PlanStates(trades)
    BY <1>1, <1>4, <2>3 DEF PlanImportSell, PlanStates
  <2>5. QED BY <1>7, <2>4 DEF PlanTrade
<1>8. QED BY <1>5, <1>6, <1>7

\* The planner computes a state after each trade, and returns the last.
LEMMA PlanRuns ==
  ASSUME NEW trades, AreScopeTrades(trades)
  PROVE  \E r \in [0..Len(InOrder(trades, PlannedBefore)) -> PlanStates(trades)] :
           PlanRun(r, trades)
<1> DEFINE seq == InOrder(trades, PlannedBefore)
           n == Len(seq)
           T == PlanStates(trades)
           base == NothingPlanned
           step == [i \in 1..n |-> [st \in T |-> PlanTrade(st, seq[i], trades)]]
           IsFold(g) == g = [s \in SUBSET (DOMAIN seq) |->
                               IF s = {} THEN base
                               ELSE PlanTrade(g[s \ {Max(s)}], seq[Max(s)], trades)]
<1>1. n \in Nat /\ DOMAIN seq = 1..n /\ \A i \in 1..n : seq[i] \in trades
  <2>1. seq \in Seq(trades)
    BY PlanOrder
  <2> HIDE DEF seq
  <2>2. QED BY <2>1
<1>2. BlockedSells(trades) = ((CHOOSE g : IsFold(g))[DOMAIN seq]).blocked
  BY DEF BlockedSells, FoldLeft, MapThenFoldSet
<1> HIDE DEF seq
<1>3. base \in T
  BY DEF NothingPlanned, PlanStates
<1>4. step \in [1..n -> [T -> T]]
  <2>1. \A i \in 1..n, st \in T : PlanTrade(st, seq[i], trades) \in T
    BY <1>1, PlanTradeTypes
  <2> HIDE DEF T
  <2>2. QED BY <2>1
<1> HIDE DEF T, base
<1>5. \E g : IsFold(g)
  <2>1. PICK g \in [SUBSET (1..n) -> T] : Folds(g, n, base, step)
    <3> HIDE DEF step, n
    <3>1. QED BY <1>1, <1>3, <1>4, FoldExists
  <2>2. ASSUME NEW s \in SUBSET (1..n), s # {}
        PROVE  step[Max(s)][g[s \ {Max(s)}]] =
                 PlanTrade(g[s \ {Max(s)}], seq[Max(s)], trades)
    <3>1. Max(s) \in s
      <4> HIDE DEF n
      <4>1. QED BY <1>1, <2>2, GreatestNumber
    <3>2. Max(s) \in 1..n /\ g[s \ {Max(s)}] \in T
      BY <3>1
    <3>3. QED BY <3>2
  <2>3. IsFold(g)
    <3> HIDE DEF step
    <3>1. QED BY <1>1, <2>1, <2>2 DEF Folds
  <2> HIDE DEF IsFold
  <2>4. QED BY <2>3
<1>6. PICK g : g = (CHOOSE h : IsFold(h)) /\ IsFold(g)
  <2> HIDE DEF IsFold
  <2>1. QED BY <1>5
<1> DEFINE r == [i \in 0..n |-> g[1..i]]
<1>7. r[0] = base
  <2>1. 1..0 = {} /\ 0 \in 0..n
    BY <1>1
  <2>2. r[0] = g[{}]
    BY <2>1
  <2>3. g[{}] = base
    BY <1>6
  <2>4. QED BY <2>2, <2>3
<1>8. ASSUME NEW i \in 1..n PROVE r[i] = PlanTrade(r[i - 1], seq[i], trades)
  <2>1. i \in Nat \ {0} /\ i \in 0..n /\ i - 1 \in 0..n /\ 1..i \in SUBSET (1..n)
    BY <1>1
  <2>2. 1..i # {} /\ Max(1..i) = i /\ (1..i) \ {i} = 1..(i - 1)
    BY <2>1, LastPlace
  <2>3. \A s \in SUBSET (1..n) : s # {} =>
          g[s] = PlanTrade(g[s \ {Max(s)}], seq[Max(s)], trades)
    BY <1>1, <1>6
  <2>4. g[1..i] = PlanTrade(g[(1..i) \ {Max(1..i)}], seq[Max(1..i)], trades)
    BY <2>1, <2>2, <2>3
  <2>5. r[i] = g[1..i] /\ r[i - 1] = g[1..(i - 1)]
    BY <2>1
  <2> HIDE DEF r
  <2>6. QED BY <2>2, <2>4, <2>5, Zenon
<1>9. r \in [0..n -> T]
  <2> DEFINE A == {i \in 0..n : r[i] \in T}
  <2>1. 0 \in A
    BY <1>1, <1>3, <1>7
  <2>2. ASSUME NEW i \in 1..n, i - 1 \in A PROVE i \in A
    <3>1. r[i] = PlanTrade(r[i - 1], seq[i], trades) /\ r[i - 1] \in T
          /\ seq[i] \in trades /\ i \in 0..n
      BY SMTT(60), <1>1, <1>8, <2>2
    <3> HIDE DEF r
    <3>2. QED BY <3>1, PlanTradeTypes DEF T
  <2>3. 0..n \subseteq A
    <3> HIDE DEF A
    <3>1. QED BY <1>1, <2>1, <2>2, PlaceByPlace
  <2>4. QED BY <2>3
<1>10. BlockedSells(trades) = r[n].blocked
  BY <1>1, <1>2, <1>6
<1> HIDE DEF r
<1>11. PlanRun(r, trades)
  BY <1>7, <1>8, <1>10 DEF PlanRun, base, seq
<1>12. QED BY <1>9, <1>11 DEF T, seq

\* Only rows of the file are blocked.
LEMMA BlockedAreRows ==
  ASSUME NEW trades, AreScopeTrades(trades)
  PROVE  {b.number : b \in BlockedSells(trades)} \subseteq RowNumbers(trades)
<1> DEFINE n == Len(InOrder(trades, PlannedBefore))
<1>1. PICK r \in [0..n -> PlanStates(trades)] : PlanRun(r, trades)
  BY PlanRuns
<1>2. n \in 0..n
  <2>1. InOrder(trades, PlannedBefore) \in Seq(trades)
    BY PlanOrder
  <2>2. n \in Nat
    BY <2>1
  <2>3. QED BY <2>2
<1>3. BlockedSells(trades) = r[n].blocked
  BY <1>1 DEF PlanRun
<1> HIDE DEF n
<1>4. QED BY <1>2, <1>3 DEF PlanStates

(***************************************************************************)
(* The rows to write are those that are not blocked, each once.            *)
(***************************************************************************)
LEMMA WriteOrderIsComplete ==
  ASSUME NEW trades, AreScopeTrades(trades)
  PROVE  LET order == WriteOrder(trades) IN
         /\ order \in Seq(RowNumbers(trades))
         /\ \A i, j \in DOMAIN order : order[i] = order[j] => i = j
         /\ \A n : (\E i \in DOMAIN order : order[i] = n) <=>
              n \in RowNumbers(trades) \ {b.number : b \in BlockedSells(trades)}
<1> DEFINE rows == ReadyRows(trades)
           seq == InOrder(rows, WrittenBefore)
           order == WriteOrder(trades)
<1>1. rows \in SUBSET trades /\ rows = Imports(rows)
  BY DEF ReadyRows, Imports
<1>2. AreScopeTrades(rows)
  <2>1. IsFiniteSet(rows)
    BY <1>1, FS_Subset DEF AreScopeTrades
  <2>2. QED BY <1>1, <2>1 DEF AreScopeTrades
<1>3. seq \in Seq(rows) /\ seq \in Bijection(1..Len(seq), rows)
  BY <1>1, <1>2, RowOrder
<1>4. order = [i \in DOMAIN seq |-> seq[i].number]
  BY DEF WriteOrder
<1>5. \A n : (\E e \in rows : e.number = n) <=>
        n \in RowNumbers(trades) \ {b.number : b \in BlockedSells(trades)}
  BY DEF ReadyRows, RowNumbers, Imports
<1>6. \A e, f \in rows : e.number = f.number => e = f
  BY <1>1, <1>2 DEF AreScopeTrades, Imports
<1>7. rows \subseteq Imports(trades)
  BY DEF ReadyRows, Imports
<1> HIDE DEF rows, seq, order
<1>8. /\ Len(seq) \in Nat /\ DOMAIN seq = 1..Len(seq)
      /\ \A i \in DOMAIN seq : seq[i] \in rows
      /\ \A i, j \in DOMAIN seq : seq[i] = seq[j] => i = j
      /\ \A e \in rows : \E i \in DOMAIN seq : seq[i] = e
  BY <1>3 DEF Bijection, Injection, Surjection, IsInjective
<1>9. order \in Seq(RowNumbers(trades))
  <2>1. order \in [1..Len(seq) -> RowNumbers(trades)]
    BY <1>4, <1>7, <1>8 DEF RowNumbers
  <2>2. QED BY <1>8, <2>1
<1>10. \A i, j \in DOMAIN order : order[i] = order[j] => i = j
  BY <1>4, <1>6, <1>8
<1>11. \A n : (\E i \in DOMAIN order : order[i] = n) <=> \E e \in rows : e.number = n
  BY <1>4, <1>8
<1>12. QED BY <1>5, <1>9, <1>10, <1>11 DEF order

-----------------------------------------------------------------------------
(***************************************************************************)
(* Sequences put one after the other.                                      *)
(***************************************************************************)
Has(seq, x) == \E i \in DOMAIN seq : seq[i] = x

Once(seq) == \A i, j \in DOMAIN seq : seq[i] = seq[j] => i = j

\* Two of them.
LEMMA OneAfterTheOther ==
  ASSUME NEW S, NEW f \in Seq(S), NEW g \in Seq(S)
  PROVE  /\ f \o g \in Seq(S)
         /\ \A x : Has(f \o g, x) <=> Has(f, x) \/ Has(g, x)
         /\ Once(f) /\ Once(g) /\ (\A x : ~ (Has(f, x) /\ Has(g, x)))
              => Once(f \o g)
<1> DEFINE h == f \o g
           m == Len(f)
           n == Len(g)
<1>1. /\ m \in Nat /\ n \in Nat /\ DOMAIN f = 1..m /\ DOMAIN g = 1..n
      /\ h \in Seq(S) /\ DOMAIN h = 1..(m + n)
      /\ \A i \in 1..(m + n) : h[i] = IF i <= m THEN f[i] ELSE g[i - m]
  OBVIOUS
<1> HIDE DEF h, m, n
<1>2. \A x : Has(h, x) <=> Has(f, x) \/ Has(g, x)
  <2>1. ASSUME NEW x, Has(h, x) PROVE Has(f, x) \/ Has(g, x)
    <3>1. PICK i \in 1..(m + n) : h[i] = x
      BY <1>1, <2>1 DEF Has
    <3>2. CASE i <= m
      <4>1. i \in 1..m /\ f[i] = x
        BY <1>1, <3>1, <3>2
      <4>2. QED BY <1>1, <4>1 DEF Has
    <3>3. CASE ~ (i <= m)
      <4>1. i - m \in 1..n /\ g[i - m] = x
        BY <1>1, <3>1, <3>3
      <4>2. QED BY <1>1, <4>1 DEF Has
    <3>4. QED BY <3>2, <3>3
  <2>2. ASSUME NEW x, Has(f, x) PROVE Has(h, x)
    <3>1. PICK i \in 1..m : f[i] = x
      BY <1>1, <2>2 DEF Has
    <3>2. i \in 1..(m + n) /\ h[i] = x
      BY <1>1, <3>1
    <3>3. QED BY <1>1, <3>2 DEF Has
  <2>3. ASSUME NEW x, Has(g, x) PROVE Has(h, x)
    <3>1. PICK i \in 1..n : g[i] = x
      BY <1>1, <2>3 DEF Has
    <3>2. i + m \in 1..(m + n) /\ ~ (i + m <= m) /\ (i + m) - m = i
      BY <1>1, <3>1
    <3>3. h[i + m] = x
      BY <1>1, <3>1, <3>2
    <3>4. QED BY <1>1, <3>2, <3>3 DEF Has
  <2>4. QED BY <2>1, <2>2, <2>3
<1>3. ASSUME Once(f), Once(g), \A x : ~ (Has(f, x) /\ Has(g, x)) PROVE Once(h)
  <2> SUFFICES ASSUME NEW i \in 1..(m + n), NEW j \in 1..(m + n), h[i] = h[j], i <= j
               PROVE  i = j
    <3>1. \A i, j \in 1..(m + n) : i <= j \/ j <= i
      BY <1>1
    <3>2. QED BY <1>1, <3>1 DEF Once
  <2>1. CASE j <= m
    <3>1. i \in 1..m /\ j \in 1..m /\ f[i] = f[j]
      BY <1>1, <2>1
    <3>2. QED BY <1>1, <1>3, <3>1 DEF Once
  <2>2. CASE ~ (i <= m)
    <3>1. i - m \in 1..n /\ j - m \in 1..n /\ g[i - m] = g[j - m]
      BY <1>1, <2>2
    <3>2. i - m = j - m
      BY <1>1, <1>3, <3>1 DEF Once
    <3>3. QED BY <1>1, <3>2
  <2>3. CASE i <= m /\ ~ (j <= m)
    <3>1. i \in 1..m /\ j - m \in 1..n /\ f[i] = g[j - m]
      BY <1>1, <2>3
    <3>2. Has(f, f[i]) /\ Has(g, f[i])
      BY <1>1, <3>1 DEF Has
    <3>3. QED BY <1>3, <3>2
  <2>4. QED BY <2>1, <2>2, <2>3
<1>4. QED BY <1>1, <1>2, <1>3 DEF h

\* A run of steps that stay in a set T.
Runs(r, n, base, step) ==
  r[0] = base /\ \A i \in 1..n : r[i] = step[i][r[i - 1]]

\* There is one from any state of T.
LEMMA RunExists ==
  ASSUME NEW n \in Nat, NEW T, NEW base \in T, NEW step \in [1..n -> [T -> T]]
  PROVE  \E r \in [0..n -> T] : Runs(r, n, base, step)
<1>1. PICK g \in [SUBSET (1..n) -> T] : Folds(g, n, base, step)
  BY FoldExists
<1> DEFINE r == [i \in 0..n |-> g[1..i]]
<1>2. r \in [0..n -> T]
  <2>1. \A i \in 0..n : 1..i \in SUBSET (1..n)
    OBVIOUS
  <2>2. QED BY <2>1
<1>3. r[0] = base
  <2>1. 1..0 = {} /\ 0 \in 0..n
    OBVIOUS
  <2>2. g[{}] = base
    BY <1>1 DEF Folds
  <2>3. QED BY <2>1, <2>2
<1>4. ASSUME NEW i \in 1..n PROVE r[i] = step[i][r[i - 1]]
  <2>1. i \in Nat \ {0} /\ i \in 0..n /\ i - 1 \in 0..n /\ 1..i \in SUBSET (1..n)
    OBVIOUS
  <2>2. 1..i # {} /\ Max(1..i) = i /\ (1..i) \ {i} = 1..(i - 1)
    BY <2>1, LastPlace
  <2>3. g[1..i] = step[Max(1..i)][g[(1..i) \ {Max(1..i)}]]
    BY <1>1, <2>1, <2>2 DEF Folds
  <2>4. r[i] = g[1..i] /\ r[i - 1] = g[1..(i - 1)]
    BY <2>1
  <2> HIDE DEF r
  <2>5. QED BY <2>2, <2>3, <2>4, Zenon
<1> HIDE DEF r
<1>5. QED BY <1>2, <1>3, <1>4 DEF Runs

(***************************************************************************)
(* Any number of them: FlattenSeq has what they have, each element once    *)
(* when each of them has it once and no two have one in common.            *)
(***************************************************************************)
Apart(seqs, n) ==
  \A i, j \in 1..n : i # j => \A x : ~ (Has(seqs[i], x) /\ Has(seqs[j], x))

Flattened(f, seqs, i, S) ==
  /\ f \in Seq(S)
  /\ \A x : Has(f, x) <=> \E j \in 1..i : Has(seqs[j], x)
  /\ Once(f)

\* FlattenSeq of n sequences over S.
LEMMA FlattenIsComplete ==
  ASSUME NEW n \in Nat, NEW S, NEW seqs \in [1..n -> Seq(S)],
         \A i \in 1..n : Once(seqs[i]), Apart(seqs, n)
  PROVE  Flattened(FlattenSeq(seqs), seqs, n, S)
<1> DEFINE T == Seq(S)
           IsFlat(f) == f = [i \in 1..n |-> IF i = 1 THEN seqs[i]
                                            ELSE f[i - 1] \o seqs[i]]
<1>1. Len(seqs) = n
  OBVIOUS
<1>2. CASE n = 0
  <2>1. FlattenSeq(seqs) = seqs
    BY <1>1, <1>2 DEF FlattenSeq
  <2>2. DOMAIN seqs = {} /\ 1..n = {}
    BY <1>2
  <2>3. seqs \in [1..0 -> S]
    BY <1>2, <2>2
  <2>4. seqs \in Seq(S)
    BY <2>3
  <2>5. QED BY <2>1, <2>2, <2>4 DEF Flattened, Has, Once
<1>3. CASE n # 0
  <2>1. FlattenSeq(seqs) = (CHOOSE f : IsFlat(f))[n]
    BY <1>1, <1>3 DEF FlattenSeq
  <2>2. \E f : IsFlat(f)
    <3> DEFINE step == [i \in 1..n |-> [t \in T |-> t \o seqs[i]]]
               none == <<>>
    <3>1. step \in [1..n -> [T -> T]]
      <4>1. \A i \in 1..n, t \in T : t \o seqs[i] \in T
        OBVIOUS
      <4> HIDE DEF T
      <4>2. QED BY <4>1
    <3>2. none \in T
      OBVIOUS
    <3>3. PICK r \in [0..n -> T] : Runs(r, n, none, step)
      <4> HIDE DEF step, T, none
      <4>1. QED BY <3>1, <3>2, RunExists
    <3> DEFINE f == [i \in 1..n |-> r[i]]
    <3>4. ASSUME NEW i \in 1..n
          PROVE  f[i] = IF i = 1 THEN seqs[i] ELSE f[i - 1] \o seqs[i]
      <4>1. i \in 0..n /\ i - 1 \in 0..n /\ r[i - 1] \in T
        OBVIOUS
      <4>2. r[i] = r[i - 1] \o seqs[i]
        BY <3>3, <4>1 DEF Runs
      <4>3. CASE i = 1
        <5>1. r[i - 1] = <<>>
          BY <3>3, <4>3 DEF Runs
        <5>2. <<>> \o seqs[i] = seqs[i]
          OBVIOUS
        <5>3. QED BY <4>2, <4>3, <5>1, <5>2
      <4>4. CASE i # 1
        <5>1. i - 1 \in 1..n
          BY <4>4
        <5>2. QED BY <4>2, <4>4, <5>1
      <4>5. QED BY <4>3, <4>4
    <3>5. IsFlat(f)
      BY <3>4
    <3> HIDE DEF f, IsFlat
    <3>6. QED BY <3>5
  <2>3. PICK f : f = (CHOOSE g : IsFlat(g)) /\ IsFlat(f)
    <3> HIDE DEF IsFlat
    <3>1. QED BY <2>2
  <2>4. \A i \in 1..n : f[i] = IF i = 1 THEN seqs[i] ELSE f[i - 1] \o seqs[i]
    BY <2>3
  <2> DEFINE A == {0} \cup {i \in 1..n : Flattened(f[i], seqs, i, S)}
  <2>5. ASSUME NEW i \in 1..n, i - 1 \in A PROVE i \in A
    <3>1. CASE i = 1
      <4>1. f[i] = seqs[i]
        BY <2>4, <3>1
      <4>2. 1..i = {i}
        BY <3>1
      <4>3. seqs[i] \in Seq(S) /\ Once(seqs[i])
        OBVIOUS
      <4>4. Flattened(f[i], seqs, i, S)
        BY <4>1, <4>2, <4>3 DEF Flattened
      <4>5. QED BY <4>4
    <3>2. CASE i # 1
      <4>1. i - 1 \in 1..n /\ i - 1 # 0
        BY <3>2
      <4>2. Flattened(f[i - 1], seqs, i - 1, S)
        BY <2>5, <4>1
      <4>3. f[i] = f[i - 1] \o seqs[i]
        BY <2>4, <3>2
      <4>4. f[i - 1] \in Seq(S) /\ seqs[i] \in Seq(S) /\ Once(f[i - 1]) /\ Once(seqs[i])
        BY <4>2 DEF Flattened
      <4>5. 1..i = (1..(i - 1)) \cup {i} /\ i \notin 1..(i - 1)
            /\ 1..(i - 1) \subseteq 1..n
        BY <4>1
      <4>6. \A x : ~ (Has(f[i - 1], x) /\ Has(seqs[i], x))
        BY <4>2, <4>5 DEF Flattened, Apart
      <4>7. /\ f[i] \in Seq(S)
            /\ \A x : Has(f[i], x) <=> Has(f[i - 1], x) \/ Has(seqs[i], x)
            /\ Once(f[i])
        BY <4>3, <4>4, <4>6, OneAfterTheOther
      <4>8. \A x : Has(f[i], x) <=> \E j \in 1..i : Has(seqs[j], x)
        BY <4>2, <4>5, <4>7 DEF Flattened
      <4>9. Flattened(f[i], seqs, i, S)
        BY <4>7, <4>8 DEF Flattened
      <4>10. QED BY <4>9
    <3>3. QED BY <3>1, <3>2
  <2>6. 0..n \subseteq A
    <3>1. 0 \in A
      OBVIOUS
    <3> HIDE DEF A
    <3>2. QED BY <2>5, <3>1, PlaceByPlace
  <2>7. n \in 0..n
    OBVIOUS
  <2>8. Flattened(f[n], seqs, n, S)
    BY <1>3, <2>6, <2>7
  <2>9. QED BY <2>1, <2>3, <2>8
<1>4. QED BY <1>2, <1>3

-----------------------------------------------------------------------------
(***************************************************************************)
(* The inductive invariant.  A rollback replaces the book by a saved one,  *)
(* so the saved book must be in order too: JournalOf says JournalInv, and  *)
(* RowsFit says BookInv, of a book given as a record.  It was saved by the *)
(* only open batch.                                                        *)
(***************************************************************************)
TablesInOrder == JournalInv /\ BookInv

JournalOf(book) ==
  /\ book.tx \in [TxIds -> TxRow \cup {NoTx}]
  /\ \A l \in book.lots : l.scope \in Scopes
  /\ \A m \in book.matches : m.scope \in Scopes /\ m.sell \in TxIds
  /\ \A p \in book.positions : p.scope \in Scopes /\ p.open \in BOOLEAN
  /\ \A e \in book.gl : /\ e.ref \in TxIds
                        /\ e.account \in Accounts
                        /\ e.date \in Nat
  /\ \A m \in book.matches : /\ book.tx[m.sell] # NoTx
                             /\ m.scope \in ScopesOf(book.tx[m.sell])
  /\ \A e \in book.gl : /\ book.tx[e.ref] # NoTx
                        /\ e.user = Owner[book.tx[e.ref].account]
  /\ \A t \in TxIds :
       book.tx[t] # NoTx /\ ~book.tx[t].deleted =>
         {e \in book.gl : e.ref = t} = {PostedEntry(t, book.tx, book.matches)}

RowsFit(book) ==
  /\ TableFits(book.tx)
  /\ book.lots \subseteq LotRows /\ IsFiniteSet(book.lots)
  /\ \A l, k \in book.lots : l.scope = k.scope /\ l.src = k.src => l = k
  /\ \A l \in book.lots :
       l.src \in LiveTrades(book.tx, l.scope) /\ book.tx[l.src].type = "buy"
  /\ \A m \in book.matches :
       /\ m.sell \in LiveSells(book.tx, m.scope)
       /\ \E l \in book.lots : l.scope = m.scope /\ l.src = m.src
  /\ \A s \in Scopes : \A t \in LiveSells(book.tx, s) :
       SoldOf(MatchesOf(t, book.matches)) = book.tx[t].qty
  /\ \A s \in Scopes :
       PositionFits({p \in book.positions : p.scope = s /\ p.open},
                    {l \in book.lots : l.scope = s /\ l.rem > 0})

\* A request that has left the idle phase is for one of the files.
RequestsInv ==
  /\ DOMAIN request = Requests
  /\ \A q \in Requests :
       /\ DOMAIN request[q] = {"phase", "file", "status", "queue"}
       /\ request[q].phase # "idle" => request[q].file \in Files

OneBatch == \A p, q \in Requests : InBatch(p) /\ InBatch(q) => p = q

BatchInv ==
  \A q \in Requests : InBatch(q) => JournalOf(saved) /\ RowsFit(saved)

ImportInv == TablesInOrder /\ RequestsInv /\ OneBatch /\ BatchInv

-----------------------------------------------------------------------------
(***************************************************************************)
(* The tables are in order when the record that a batch saves of them is.  *)
(***************************************************************************)
LEMMA BookInOrder ==
  /\ JournalInv <=> JournalOf(Book)
  /\ BookInv <=> RowsFit(Book) /\ SplitsFit
<1>1. JournalInv <=> JournalOf(Book)
  BY DEF JournalInv, TypeOK, MatchesInScope, EntriesOwned, LiveEntriesCurrent,
         EntriesOf, Live, Exists, JournalOf, Book
<1>2. /\ Book.tx = tx /\ Book.lots = lots
      /\ Book.matches = matches /\ Book.positions = positions
  BY DEF Book
<1>3. \A s \in Scopes : /\ OpenPositions(s) = {p \in positions : p.scope = s /\ p.open}
                        /\ OpenLots(s) = {l \in lots : l.scope = s /\ l.rem > 0}
  BY DEF OpenPositions, OpenLots
<1>4. BookInv <=> RowsFit(Book) /\ SplitsFit
  BY <1>2, <1>3 DEF BookInv, LotsFit, LedgerRowsResolve, PositionMatchesOpenLots, RowsFit
<1>5. QED BY <1>1, <1>4

(***************************************************************************)
(* A rollback gives back a book in order.                                  *)
(***************************************************************************)
LEMMA RestoredBook ==
  ASSUME JournalOf(saved), RowsFit(saved), SplitsFit,
         NEW q, NEW phase, RollBack(q, phase)
  PROVE  TablesInOrder'
<1>1. /\ tx' = saved.tx /\ lots' = saved.lots /\ matches' = saved.matches
      /\ positions' = saved.positions /\ gl' = saved.gl /\ splits' = splits
  BY DEF RollBack
<1>2. JournalInv'
  BY <1>1 DEF JournalInv, TypeOK, MatchesInScope, EntriesOwned,
              LiveEntriesCurrent, EntriesOf, Live, Exists, JournalOf
<1>3. \A s \in Scopes :
        /\ OpenPositions(s)' = {p \in saved.positions : p.scope = s /\ p.open}
        /\ OpenLots(s)' = {l \in saved.lots : l.scope = s /\ l.rem > 0}
  BY <1>1 DEF OpenPositions, OpenLots
<1>4. PositionMatchesOpenLots'
  BY <1>3 DEF PositionMatchesOpenLots, RowsFit
<1>5. LotsFit' /\ LedgerRowsResolve'
  BY <1>1 DEF LotsFit, LedgerRowsResolve, RowsFit
<1>6. TableFits(tx') /\ SplitsFit'
  BY <1>1 DEF RowsFit, SplitsFit
<1>7. QED BY <1>2, <1>4, <1>5, <1>6 DEF TablesInOrder, BookInv

(***************************************************************************)
(* A step that leaves the book alone keeps it in order.                    *)
(***************************************************************************)
LEMMA BookKept ==
  ASSUME TablesInOrder, UNCHANGED vars
  PROVE  TablesInOrder'
<1>1. JournalInv'
  BY DEF TablesInOrder, vars, JournalInv, TypeOK, MatchesInScope, EntriesOwned,
         LiveEntriesCurrent, EntriesOf, Live, Exists
<1>2. BookInv'
  BY UntouchedBook DEF TablesInOrder, vars, BookInv, SplitsFit
<1>3. QED BY <1>1, <1>2 DEF TablesInOrder

-----------------------------------------------------------------------------
(***************************************************************************)
(* The requests.  Each step of a request keeps its shape and its file, and *)
(* a batch is opened only when none is.                                    *)
(***************************************************************************)
LEMMA EvaluateKeepsRequests ==
  ASSUME RequestsInv, NEW q \in Requests, NEW file \in Files,
         EvaluateRows(q, file)
  PROVE  RequestsInv' /\ NoBatchOpen'
<1> DEFINE status == [n \in DOMAIN file.rows |-> RowStatus(file, n)]
           new == [Idle EXCEPT !.phase = "evaluated", !.file = file,
                               !.status = status]
<1>1. request' = [request EXCEPT ![q] = new] /\ NoBatchOpen
  BY DEF EvaluateRows
<1> HIDE DEF status
<1>2. new.phase = "evaluated" /\ new.file = file
      /\ DOMAIN new = {"phase", "file", "status", "queue"}
  BY DEF Idle
<1> HIDE DEF new
<1>3. QED BY <1>1, <1>2 DEF RequestsInv, NoBatchOpen

\* Planning sets the phase, the statuses and the queue, whatever they are.
LEMMA PlanKeepsRequests ==
  ASSUME RequestsInv, NEW q \in Requests, PlanSells(q)
  PROVE  RequestsInv' /\ NoBatchOpen'
<1>1. ASSUME NEW phase \in {"planned", "rejected"}, NEW status, NEW queue,
             request' = [request EXCEPT ![q].phase  = phase,
                                        ![q].status = status,
                                        ![q].queue  = queue],
             NoBatchOpen, request[q].phase = "evaluated"
      PROVE  RequestsInv' /\ NoBatchOpen'
  BY SMTT(60), <1>1 DEF RequestsInv, NoBatchOpen
<1> DEFINE blocked == BlockedRows(q)
           status == [n \in DOMAIN request[q].status |->
                        IF n \in blocked THEN "error" ELSE request[q].status[n]]
           phase == IF CanCommit(status) THEN "planned" ELSE "rejected"
<1>2. PICK assets \in SetToSeqs(PlannedAssets(q)) :
        request' = [request EXCEPT
          ![q].phase  = phase,
          ![q].status = status,
          ![q].queue  = FlattenSeq([i \in DOMAIN assets |->
                                      WriteOrder(Trades(q, assets[i]))])]
  BY ZenonT(60) DEF PlanSells
<1>3. NoBatchOpen /\ request[q].phase = "evaluated"
  BY DEF PlanSells
<1>4. phase \in {"planned", "rejected"}
  OBVIOUS
<1> HIDE DEF phase, status
<1>5. QED BY <1>1, <1>2, <1>3, <1>4

\* A batch opens: it is the only one.
LEMMA BeginKeepsRequests ==
  ASSUME RequestsInv, NEW q \in Requests, BeginBatch(q)
  PROVE  RequestsInv' /\ OneBatch'
BY DEF RequestsInv, OneBatch, BeginBatch, NoBatchOpen, InBatch

\* A row is done: the phases and the files stay.
LEMMA RowKeepsRequests ==
  ASSUME RequestsInv, NEW q \in Requests, RowDone(q)
  PROVE  /\ RequestsInv'
         /\ \A p \in Requests : request'[p].phase = request[p].phase
BY DEF RequestsInv, RowDone

\* A batch ends, well or badly: no batch is open any more.
LEMMA EndKeepsRequests ==
  ASSUME RequestsInv, OneBatch, NEW q \in Requests, InBatch(q),
         \/ FinishBatch(q)
         \/ \E phase \in {"refused", "aborted"} : RollBack(q, phase)
  PROVE  RequestsInv' /\ NoBatchOpen'
<1>1. CASE FinishBatch(q)
  BY <1>1 DEF FinishBatch, RequestsInv, OneBatch, InBatch, NoBatchOpen
<1>2. ASSUME NEW phase \in {"refused", "aborted"}, RollBack(q, phase)
      PROVE  RequestsInv' /\ NoBatchOpen'
  BY <1>2 DEF RollBack, RequestsInv, OneBatch, InBatch, NoBatchOpen
<1>3. QED BY <1>1, <1>2

\* With no batch open there is nothing to say of the saved book.
LEMMA NoBatchKeepsBatchInv ==
  ASSUME NoBatchOpen'
  PROVE  OneBatch' /\ BatchInv'
BY DEF NoBatchOpen, OneBatch, BatchInv, InBatch

-----------------------------------------------------------------------------
(***************************************************************************)
(* The steps that write the book: an operation of a user, and a row of a   *)
(* file, which is created like a transaction entered by hand.              *)
(***************************************************************************)
LEMMA EditKeepsBook ==
  ASSUME TablesInOrder, EditBook
  PROVE  TablesInOrder'
<1>1. PICK t \in TxIds :
        \/ \E r \in Inputs : Create(t, r) \/ UpdateOwn(t, r)
        \/ SoftDelete(t) \/ HardDelete(t)
  BY DEF EditBook, ManualCreate, ManualUpdate, ManualDelete
<1>2. JournalInv'
  BY <1>1, CreateKeepsJournal, UpdateKeepsJournal, DeleteKeepsJournal,
     InputsAreRows DEF TablesInOrder
<1>3. BookInv'
  BY <1>1, CreateKeepsBook, UpdateKeepsBook, DeleteKeepsBook, InputsAreRows,
     PricesAreExact DEF TablesInOrder, UpdateOwn
<1>4. QED BY <1>2, <1>3 DEF TablesInOrder

\* Writing a row of the file is a create of the service.
LEMMA WriteKeepsBook ==
  ASSUME TablesInOrder, RequestsInv, NEW q \in Requests, NEW t \in TxIds,
         WriteRow(q, t)
  PROVE  TablesInOrder'
<1>1. request[q].file \in Files
      /\ Head(request[q].queue) \in DOMAIN request[q].file.rows
      /\ Create(t, NextRow(q).row)
  BY SMTT(60) DEF WriteRow, InBatch, HasRow, RequestsInv
<1>2. NextRow(q).row \in NewRows /\ HasExactPrice(NextRow(q).row)
  <2>1. request[q].file.rows \in Seq(FileRows)
    BY <1>1, FilesHoldTrades
  <2>2. NextRow(q) \in FileRows
    BY <1>1, <2>1 DEF NextRow, TheRow
  <2>3. QED BY <1>1, <2>2, FilesHoldTrades DEF NextRow, TheRow, FileRows
<1>3. JournalInv' /\ BookInv'
  BY <1>1, <1>2, CreateKeepsJournal, CreateKeepsBook DEF TablesInOrder
<1>4. QED BY <1>3 DEF TablesInOrder

-----------------------------------------------------------------------------
\* Initially the book is empty and no request has begun.
LEMMA InitImportInv == ImportInit => ImportInv
<1> SUFFICES ASSUME ImportInit PROVE ImportInv
  OBVIOUS
<1>1. JournalInv
  BY DEF ImportInit, JournalInv, TypeOK, MatchesInScope, EntriesOwned,
         LiveEntriesCurrent, Live, Exists
<1>2. BookInv
  BY EmptyBook, SplitBooksHoldSplits DEF ImportInit, SplitsFit
<1>3. RequestsInv /\ OneBatch /\ BatchInv
  BY DEF ImportInit, RequestsInv, OneBatch, BatchInv, InBatch, Idle
<1>4. QED BY <1>1, <1>2, <1>3 DEF ImportInv, TablesInOrder

\* Every step of a commit, one case for each action.
LEMMA ContinueKeepsImportInv ==
  ASSUME ImportInv, NEW q \in Requests, Continue(q)
  PROVE  ImportInv'
<1>0. TablesInOrder /\ RequestsInv /\ OneBatch /\ BatchInv
  BY DEF ImportInv
<1>1. CASE PlanSells(q)
  <2>1. TablesInOrder'
    BY <1>0, <1>1, BookKept DEF PlanSells
  <2>2. QED BY SMTT(60), <1>0, <1>1, <2>1, PlanKeepsRequests, NoBatchKeepsBatchInv
            DEF ImportInv
<1>2. CASE BeginBatch(q)
  <2>1. TablesInOrder'
    BY <1>0, <1>2, BookKept DEF BeginBatch
  <2>2. JournalOf(saved') /\ RowsFit(saved')
    BY <1>0, <1>2, BookInOrder DEF BeginBatch, TablesInOrder
  <2>3. BatchInv'
    BY <2>2 DEF BatchInv
  <2>4. QED BY <1>0, <1>2, <2>1, <2>3, BeginKeepsRequests DEF ImportInv
<1>3. ASSUME RowDone(q), saved' = saved, TablesInOrder'
      PROVE  ImportInv'
  <2>1. RequestsInv' /\ \A p \in Requests : request'[p].phase = request[p].phase
    BY <1>0, <1>3, RowKeepsRequests
  <2>2. OneBatch' /\ BatchInv'
    BY <1>0, <1>3, <2>1 DEF OneBatch, BatchInv, InBatch
  <2>3. QED BY <1>3, <2>1, <2>2 DEF ImportInv
<1>4. ASSUME NEW t \in TxIds, WriteRow(q, t)
      PROVE  ImportInv'
  <2>1. TablesInOrder'
    BY <1>0, <1>4, WriteKeepsBook
  <2>2. RowDone(q) /\ saved' = saved
    BY <1>4 DEF WriteRow
  <2>3. QED BY <1>3, <2>1, <2>2
<1>5. CASE SkipRow(q)
  <2>1. RowDone(q) /\ saved' = saved /\ UNCHANGED vars
    BY <1>5 DEF SkipRow
  <2>2. QED BY <1>0, <1>3, <2>1, BookKept
<1>6. ASSUME NEW phase \in {"refused", "aborted"}, InBatch(q),
             RollBack(q, phase)
      PROVE  ImportInv'
  <2>1. JournalOf(saved) /\ RowsFit(saved) /\ SplitsFit
    BY <1>0, <1>6 DEF BatchInv, TablesInOrder, BookInv
  <2>2. TablesInOrder'
    BY <1>6, <2>1, RestoredBook
  <2>3. RequestsInv' /\ NoBatchOpen'
    BY <1>0, <1>6, EndKeepsRequests
  <2>4. QED BY <2>2, <2>3, NoBatchKeepsBatchInv DEF ImportInv
<1>7. CASE AbortBatch(q) \/ \E t \in TxIds : RefuseRow(q, t)
  BY <1>6, <1>7 DEF AbortBatch, RefuseRow
<1>8. CASE FinishBatch(q)
  <2>1. TablesInOrder' /\ InBatch(q)
    BY <1>0, <1>8, BookKept DEF FinishBatch
  <2>2. RequestsInv' /\ NoBatchOpen'
    BY <1>0, <1>8, <2>1, EndKeepsRequests
  <2>3. QED BY <2>1, <2>2, NoBatchKeepsBatchInv DEF ImportInv
<1>9. QED BY <1>1, <1>2, <1>4, <1>5, <1>7, <1>8 DEF Continue

(***************************************************************************)
(* However many files are committed, refused and rolled back, row by row   *)
(* and between the operations of users, the book is in order.              *)
(***************************************************************************)
THEOREM ImportInvariant == ImportSpec => []ImportInv
<1>1. ASSUME ImportInv, [ImportNext]_allVars
      PROVE  ImportInv'
  <2>0. TablesInOrder /\ RequestsInv /\ OneBatch /\ BatchInv
    BY <1>1 DEF ImportInv
  <2>1. CASE EditBook
    <3>1. TablesInOrder'
      BY <2>0, <2>1, EditKeepsBook
    <3>2. request' = request /\ saved' = saved
      BY <2>1 DEF EditBook
    <3>3. QED BY <2>0, <3>1, <3>2
              DEF ImportInv, RequestsInv, OneBatch, BatchInv, InBatch
  <2>2. ASSUME NEW q \in Requests, NEW file \in Files, EvaluateRows(q, file)
        PROVE  ImportInv'
    <3>1. TablesInOrder'
      BY <2>0, <2>2, BookKept DEF EvaluateRows
    <3>2. QED BY <2>0, <2>2, <3>1, EvaluateKeepsRequests, NoBatchKeepsBatchInv
              DEF ImportInv
  <2>3. ASSUME NEW q \in Requests, Continue(q)
        PROVE  ImportInv'
    BY <1>1, <2>3, ContinueKeepsImportInv
  <2>4. CASE UNCHANGED allVars
    <3>1. UNCHANGED vars /\ request' = request /\ saved' = saved
      BY <2>4 DEF allVars, importVars
    <3>2. TablesInOrder'
      BY <2>0, <3>1, BookKept
    <3>3. QED BY <2>0, <3>1, <3>2
              DEF ImportInv, RequestsInv, OneBatch, BatchInv, InBatch
  <2>5. QED BY <1>1, <2>1, <2>2, <2>3, <2>4 DEF ImportNext, Evaluate
<1>2. QED BY InitImportInv, <1>1, PTL DEF ImportSpec

(***************************************************************************)
(* Every live transaction has exactly one entry, at the cost of its        *)
(* current matches, at each step of a commit and after a rollback.         *)
(***************************************************************************)
THEOREM ImportKeepsJournal == ImportSpec => []LiveEntriesCurrent
<1>1. ImportInv => LiveEntriesCurrent
  BY DEF ImportInv, TablesInOrder, JournalInv
<1>2. QED BY <1>1, ImportInvariant, PTL

(***************************************************************************)
(* And each position agrees with its open lots.                            *)
(***************************************************************************)
THEOREM ImportKeepsBook == ImportSpec => []BookConsistent
<1>1. ImportInv => BookConsistent
  BY DEF ImportInv, TablesInOrder, JournalInv, BookInv, BookConsistent
<1>2. QED BY <1>1, ImportInvariant, PTL

-----------------------------------------------------------------------------
(***************************************************************************)
(* The plan of a request: it knows a status for each row of its file, no   *)
(* two ready rows have one order number, and its queue holds ready rows,   *)
(* each once: all of them when the rows are planned.                       *)
(***************************************************************************)
ReadyOf(r) == {n \in DOMAIN r.status : r.status[n] = "ready"}

KnowsItsRows(r) ==
  /\ r.file \in Files
  /\ DOMAIN r.status = DOMAIN r.file.rows
  /\ \A n \in DOMAIN r.status : r.status[n] \in Statuses

PlanFits(r) ==
  /\ r.phase \in Phases
  /\ r.phase # "idle" => KnowsItsRows(r)
  /\ \A m, n \in ReadyOf(r) : r.file.rows[m].order = r.file.rows[n].order => m = n
  /\ r.queue \in Seq(ReadyOf(r)) /\ Once(r.queue)
  /\ r.phase = "planned" => \A n \in ReadyOf(r) : Has(r.queue, n)

\* The rows of a file: finitely many trades of its account.
LEMMA RowsOfFile ==
  ASSUME NEW file \in Files
  PROVE  /\ IsFiniteSet(DOMAIN file.rows) /\ DOMAIN file.rows \subseteq Nat
         /\ \A n \in DOMAIN file.rows :
              /\ file.rows[n].order \in OrderNos
              /\ file.rows[n].row \in TxRow
              /\ file.rows[n].row.account = file.account
              /\ file.rows[n].row.type \in {"buy", "sell"}
<1>1. file.rows \in Seq(FileRows)
  BY FilesHoldTrades
<1>2. Len(file.rows) \in Nat /\ DOMAIN file.rows = 1..Len(file.rows)
      /\ \A n \in DOMAIN file.rows : file.rows[n] \in FileRows
  BY <1>1
<1>3. IsFiniteSet(1..Len(file.rows))
  BY <1>2, FS_Interval
<1>4. \A n \in DOMAIN file.rows : file.rows[n].order \in OrderNos
                                  /\ file.rows[n].row \in TxRow
  BY <1>2 DEF FileRows, NewRows
<1>5. QED BY <1>2, <1>3, <1>4, FilesHoldTrades

\* Planned together with those of the book, they are the trades of a scope.
LEMMA PlannedScope ==
  ASSUME TableFits(tx), NEW q, KnowsItsRows(request[q]), NEW x
  PROVE  /\ AreScopeTrades(Trades(q, x))
         /\ RowNumbers(Trades(q, x)) =
              {n \in WithStatus(q, "ready") : TheRow(q, n).row.asset = x}
<1> DEFINE file == request[q].file
           ready == {n \in WithStatus(q, "ready") : TheRow(q, n).row.asset = x}
           live == LiveTrades(tx, <<TheAccount(q), x>>)
           Candidate(n) == [kind |-> "import", number |-> n,
                            type |-> TheRow(q, n).row.type,
                            day |-> DayOf(TheRow(q, n).row.time),
                            qty |-> TheRow(q, n).row.qty]
           Past(t) == [kind |-> "history", number |-> t, type |-> tx[t].type,
                       day |-> DayOf(tx[t].time), qty |-> tx[t].qty]
           cands == Candidates(q, x)
           hist == History(TheAccount(q), x)
<1>1. file \in Files /\ ready \subseteq DOMAIN file.rows
  BY DEF KnowsItsRows, WithStatus
<1>2. IsFiniteSet(ready) /\ IsFiniteSet(live)
  <2>1. live \subseteq {t \in TxIds : tx[t] # NoTx}
    BY DEF LiveTrades, ScopedIds
  <2>2. IsFiniteSet(DOMAIN file.rows)
    BY <1>1, RowsOfFile
  <2>3. IsFiniteSet({t \in TxIds : tx[t] # NoTx})
    BY DEF TableFits
  <2> HIDE DEF live, ready, file
  <2>4. QED BY <1>1, <2>1, <2>2, <2>3, FS_Subset
<1>3. cands = {Candidate(n) : n \in ready} /\ hist = {Past(t) : t \in live}
  BY DEF Candidates, History
<1>4. IsFiniteSet(cands)
  <2> DEFINE f == [n \in ready |-> Candidate(n)]
  <2>1. f \in Surjection(ready, cands)
    <3> HIDE DEF ready, Candidate
    <3>1. QED BY <1>3 DEF Surjection
  <2> HIDE DEF f, ready
  <2>2. QED BY <1>2, <2>1, FS_Surjection
<1>5. IsFiniteSet(hist)
  <2> DEFINE f == [t \in live |-> Past(t)]
  <2>1. f \in Surjection(live, hist)
    <3> HIDE DEF live, Past
    <3>1. QED BY <1>3 DEF Surjection
  <2> HIDE DEF f, live
  <2>2. QED BY <1>2, <2>1, FS_Surjection
<1>6. IsFiniteSet(Trades(q, x))
  BY <1>4, <1>5, FS_Union DEF Trades
<1>7. \A n \in ready : /\ DayOf(TheRow(q, n).row.time) \in Int /\ n \in Int
                       /\ TheRow(q, n).row.qty \in Int
                       /\ TheRow(q, n).row.type \in {"buy", "sell"}
  <2>1. ASSUME NEW n \in ready
        PROVE  /\ DayOf(TheRow(q, n).row.time) \in Int /\ n \in Int
               /\ TheRow(q, n).row.qty \in Int
               /\ TheRow(q, n).row.type \in {"buy", "sell"}
    <3>1. n \in DOMAIN file.rows /\ TheRow(q, n) = file.rows[n]
      BY <1>1 DEF TheRow
    <3>2. n \in Nat /\ file.rows[n].row \in TxRow
          /\ file.rows[n].row.type \in {"buy", "sell"}
      BY <1>1, <3>1, RowsOfFile
    <3>3. file.rows[n].row.qty \in Nat /\ file.rows[n].row.time \in Nat
      BY <3>2 DEF TxRow
    <3>4. QED BY <3>1, <3>2, <3>3 DEF DayOf
  <2> HIDE DEF ready
  <2>2. QED BY <2>1
<1>8. \A t \in live : /\ DayOf(tx[t].time) \in Int /\ t \in Int
                      /\ tx[t].qty \in Int /\ tx[t].type \in {"buy", "sell"}
  <2>1. ASSUME NEW t \in live
        PROVE  /\ DayOf(tx[t].time) \in Int /\ t \in Int
               /\ tx[t].qty \in Int /\ tx[t].type \in {"buy", "sell"}
    <3>1. t \in TxIds /\ tx[t] # NoTx /\ tx[t].type \in {"buy", "sell"}
      BY DEF LiveTrades, ScopedIds, ScopesOf
    <3>2. tx[t] \in TxRow /\ t \in Nat
      BY <3>1, IdsAreNumbers DEF TableFits
    <3>3. tx[t].qty \in Nat /\ tx[t].time \in Nat
      BY <3>2 DEF TxRow
    <3>4. QED BY <3>1, <3>2, <3>3 DEF DayOf
  <2> HIDE DEF live
  <2>2. QED BY <2>1
<1>9. Trades(q, x) = hist \cup cands
  BY DEF Trades
<1> HIDE DEF ready, live, cands, hist, file
<1>10. \A e \in cands : \E n \in ready : e = Candidate(n)
  BY <1>3
<1>11. \A e \in hist : \E t \in live : e = Past(t)
  BY <1>3
<1>12. \A e \in Trades(q, x) :
         /\ e.day \in Int /\ e.number \in Int /\ e.qty \in Int
         /\ e.kind \in {"history", "import"}
         /\ e.type \in {"buy", "sell"}
  <2>1. ASSUME NEW e \in cands
        PROVE  /\ e.day \in Int /\ e.number \in Int /\ e.qty \in Int
               /\ e.kind = "import" /\ e.type \in {"buy", "sell"}
    <3>1. PICK n \in ready : e = Candidate(n)
      BY <1>10
    <3>2. QED BY <1>7, <3>1
  <2>2. ASSUME NEW e \in hist
        PROVE  /\ e.day \in Int /\ e.number \in Int /\ e.qty \in Int
               /\ e.kind = "history" /\ e.type \in {"buy", "sell"}
    <3>1. PICK t \in live : e = Past(t)
      BY <1>11
    <3>2. QED BY <1>8, <3>1
  <2>3. QED BY <1>9, <2>1, <2>2
<1>13. \A e, f \in Trades(q, x) : e.kind = f.kind /\ e.number = f.number => e = f
  <2>1. \A e \in cands : e.kind = "import" /\ e.number \in ready /\ e = Candidate(e.number)
    BY <1>10
  <2>2. \A e \in hist : e.kind = "history" /\ e.number \in live /\ e = Past(e.number)
    BY <1>11
  <2> HIDE DEF Candidate, Past
  <2>3. QED BY <1>9, <2>1, <2>2
<1>14. RowNumbers(Trades(q, x)) = ready
  <2>1. \A e \in cands : e.kind = "import" /\ e.number \in ready
    BY <1>10
  <2>2. \A e \in hist : e.kind = "history"
    BY <1>11
  <2>3. \A n \in ready : Candidate(n) \in cands /\ Candidate(n).kind = "import"
                         /\ Candidate(n).number = n
    BY <1>3
  <2> HIDE DEF Candidate, Past
  <2>4. Imports(Trades(q, x)) = cands
    BY <1>9, <2>1, <2>2 DEF Imports
  <2>5. QED BY <2>1, <2>3, <2>4 DEF RowNumbers
<1>15. QED BY <1>6, <1>12, <1>13, <1>14 DEF AreScopeTrades, ready

-----------------------------------------------------------------------------
(***************************************************************************)
(* The assets of the ready rows, in any order.                             *)
(***************************************************************************)
LEMMA AssetsInAnyOrder ==
  ASSUME NEW q, KnowsItsRows(request[q]), NEW assets \in SetToSeqs(PlannedAssets(q))
  PROVE  /\ Cardinality(PlannedAssets(q)) \in Nat
         /\ DOMAIN assets = 1..Cardinality(PlannedAssets(q))
         /\ \A i, j \in DOMAIN assets : assets[i] = assets[j] => i = j
         /\ \A x \in PlannedAssets(q) : Has(assets, x)
<1> DEFINE X == PlannedAssets(q)
           ready == WithStatus(q, "ready")
           f == [n \in ready |-> TheRow(q, n).row.asset]
<1>1. IsFiniteSet(ready)
  <2>1. ready \subseteq DOMAIN request[q].file.rows
    BY DEF KnowsItsRows, WithStatus
  <2>2. IsFiniteSet(DOMAIN request[q].file.rows)
    BY RowsOfFile DEF KnowsItsRows
  <2> HIDE DEF ready
  <2>3. QED BY <2>1, <2>2, FS_Subset
<1>2. IsFiniteSet(X)
  <2>1. f \in Surjection(ready, X)
    BY DEF PlannedAssets, Surjection
  <2> HIDE DEF f, ready, X
  <2>2. QED BY <1>1, <2>1, FS_Surjection
<1>3. Cardinality(X) \in Nat
  BY <1>2, FS_CardinalityType
<1>4. assets \in [1..Cardinality(X) -> X]
      /\ \A i, j \in 1..Cardinality(X) : i # j => assets[i] # assets[j]
  BY DEF SetToSeqs
<1> HIDE DEF X
<1>5. assets \in Injection(1..Cardinality(X), X)
  BY <1>4 DEF Injection, IsInjective
<1>6. Cardinality(1..Cardinality(X)) = Cardinality(X)
  BY <1>3, FS_Interval
<1>7. assets \in Surjection(1..Cardinality(X), X)
  BY <1>2, <1>5, <1>6, FS_Injection
<1>8. \A x \in X : Has(assets, x)
  BY <1>4, <1>7 DEF Surjection, Has
<1>9. QED BY <1>3, <1>4, <1>8 DEF X

(***************************************************************************)
(* Whatever the order of the assets, the queue holds the ready rows that   *)
(* the plan does not block, each once.                                     *)
(***************************************************************************)
LEMMA QueueIsComplete ==
  ASSUME TableFits(tx), NEW q, KnowsItsRows(request[q]),
         NEW assets \in SetToSeqs(PlannedAssets(q))
  PROVE  LET queue == FlattenSeq([i \in DOMAIN assets |->
                                    WriteOrder(Trades(q, assets[i]))])
             writable == WithStatus(q, "ready") \ BlockedRows(q) IN
         /\ queue \in Seq(writable)
         /\ \A n \in writable : Has(queue, n)
         /\ Once(queue)
<1> DEFINE ready == WithStatus(q, "ready")
           writable == ready \ BlockedRows(q)
           k == Cardinality(PlannedAssets(q))
           Part(x) == {n \in ready : TheRow(q, n).row.asset = x}
           BlockedOf(x) == {b.number : b \in BlockedSells(Trades(q, x))}
           Order(x) == WriteOrder(Trades(q, x))
           seqs == [i \in DOMAIN assets |-> Order(assets[i])]
<1>1. /\ k \in Nat /\ DOMAIN assets = 1..k
      /\ \A i, j \in DOMAIN assets : assets[i] = assets[j] => i = j
      /\ \A x \in PlannedAssets(q) : Has(assets, x)
  BY AssetsInAnyOrder
<1>2. assets \in [1..k -> PlannedAssets(q)]
  BY DEF SetToSeqs
<1>3. BlockedRows(q) = UNION {BlockedOf(x) : x \in PlannedAssets(q)}
  BY DEF BlockedRows
<1>4. \A x : BlockedOf(x) \subseteq Part(x)
  <2>1. ASSUME NEW x PROVE BlockedOf(x) \subseteq Part(x)
    BY PlannedScope, BlockedAreRows
  <2> HIDE DEF BlockedOf, Part
  <2>2. QED BY <2>1
<1>5. ASSUME NEW x
      PROVE  /\ Order(x) \in Seq(Part(x)) /\ Once(Order(x))
             /\ \A n : Has(Order(x), n) <=> n \in Part(x) \ BlockedOf(x)
  BY PlannedScope, WriteOrderIsComplete DEF Has, Once
<1> HIDE DEF BlockedOf, Order, k
<1>6. \A x \in PlannedAssets(q) : Part(x) \ BlockedOf(x) = Part(x) \cap writable
  <2>1. ASSUME NEW x \in PlannedAssets(q), NEW n \in Part(x)
        PROVE  n \in BlockedOf(x) <=> n \in BlockedRows(q)
    <3>1. \A y : n \in Part(y) => y = x
      OBVIOUS
    <3> HIDE DEF Part
    <3>2. QED BY <1>3, <1>4, <2>1, <3>1
  <2>2. \A x : Part(x) \subseteq ready
    OBVIOUS
  <2> HIDE DEF Part, ready
  <2>3. QED BY <2>1, <2>2
<1>7. \A n \in ready : n \in Part(TheRow(q, n).row.asset)
                       /\ TheRow(q, n).row.asset \in PlannedAssets(q)
  BY DEF PlannedAssets
<1>8. \A x : Part(x) \subseteq ready
  OBVIOUS
<1>9. \A x, y, n : n \in Part(x) /\ n \in Part(y) => x = y
  OBVIOUS
<1> HIDE DEF Part, ready
<1>10. \A i \in 1..k : /\ seqs[i] = Order(assets[i])
                       /\ assets[i] \in PlannedAssets(q)
  BY <1>1, <1>2
<1>11. DOMAIN seqs = 1..k /\ seqs = [i \in 1..k |-> seqs[i]]
  BY <1>1
<1> HIDE DEF seqs
<1>12. \A i \in 1..k : /\ seqs[i] \in Seq(ready) /\ Once(seqs[i])
                       /\ \A n : Has(seqs[i], n) <=>
                                   n \in Part(assets[i]) /\ n \in writable
  <2>1. ASSUME NEW i \in 1..k
        PROVE  /\ seqs[i] \in Seq(ready) /\ Once(seqs[i])
               /\ \A n : Has(seqs[i], n) <=> n \in Part(assets[i]) /\ n \in writable
    <3>1. seqs[i] = Order(assets[i]) /\ assets[i] \in PlannedAssets(q)
      BY <1>10
    <3>2. seqs[i] \in Seq(Part(assets[i])) /\ Once(seqs[i])
          /\ \A n : Has(seqs[i], n) <=> n \in Part(assets[i]) \ BlockedOf(assets[i])
      BY <1>5, <3>1
    <3>3. Part(assets[i]) \subseteq ready
      BY <1>8
    <3>4. seqs[i] \in Seq(ready)
      BY <3>2, <3>3
    <3>5. Part(assets[i]) \ BlockedOf(assets[i]) = Part(assets[i]) \cap writable
      BY <1>6, <3>1
    <3>6. QED BY <3>2, <3>4, <3>5
  <2>2. QED BY <2>1
<1>13. seqs \in [1..k -> Seq(ready)]
  BY <1>11, <1>12
<1>14. Apart(seqs, k)
  <2>1. ASSUME NEW i \in 1..k, NEW j \in 1..k, NEW n, Has(seqs[i], n), Has(seqs[j], n)
        PROVE  i = j
    <3>1. n \in Part(assets[i]) /\ n \in Part(assets[j])
      BY <1>12, <2>1
    <3>2. QED BY <1>1, <1>9, <3>1
  <2>2. QED BY <2>1 DEF Apart
<1>15. Flattened(FlattenSeq(seqs), seqs, k, ready)
  BY <1>1, <1>12, <1>13, <1>14, FlattenIsComplete
<1> DEFINE queue == FlattenSeq(seqs)
<1>16. \A n : Has(queue, n) <=> n \in writable
  <2>1. \A n : Has(queue, n) <=> \E i \in 1..k : Has(seqs[i], n)
    BY <1>15 DEF Flattened
  <2>2. ASSUME NEW n \in writable PROVE \E i \in 1..k : Has(seqs[i], n)
    <3>1. n \in Part(TheRow(q, n).row.asset)
          /\ TheRow(q, n).row.asset \in PlannedAssets(q)
      BY <1>7
    <3>2. PICK i \in 1..k : assets[i] = TheRow(q, n).row.asset
      BY <1>1, <3>1 DEF Has
    <3>3. QED BY <1>12, <3>1, <3>2
  <2> HIDE DEF writable
  <2>3. QED BY <1>12, <2>1, <2>2
<1>17. queue \in Seq(ready) /\ Once(queue)
  BY <1>15 DEF Flattened
<1> HIDE DEF queue, writable
<1>18. queue \in Seq(writable)
  <2>1. Len(queue) \in Nat /\ DOMAIN queue = 1..Len(queue)
        /\ queue \in [1..Len(queue) -> ready]
    BY <1>17
  <2>2. \A i \in 1..Len(queue) : queue[i] \in writable
    BY <1>16, <2>1 DEF Has
  <2>3. queue \in [1..Len(queue) -> writable]
    BY <2>1, <2>2
  <2>4. QED BY <2>1, <2>3
<1>19. QED BY <1>16, <1>17, <1>18 DEF queue, writable, ready, seqs, Order

-----------------------------------------------------------------------------
(***************************************************************************)
(* The inductive invariant of the commits.  While a batch is open, the     *)
(* transactions of the saved book are as they were; each new one is that   *)
(* of a row of the queue that has been dealt with and was not imported     *)
(* before; no two new ones have one order number; and every row dealt with *)
(* is imported now.                                                        *)
(***************************************************************************)
OrderTables == [TxIds -> OrderNos \cup {NoOrder}]

KnownIn(book, account, order) ==
  \E t \in TxIds : /\ book.tx[t] # NoTx
                   /\ book.tx[t].account = account
                   /\ book.orders[t] = order

AddedIn(from, to) == {t \in TxIds : from.tx[t] = NoTx /\ to.tx[t] # NoTx}

DoneRows(r) == {n \in ReadyOf(r) : ~ Has(r.queue, n)}

Unchanged(from, to) ==
  \A t \in TxIds : from.tx[t] # NoTx =>
    to.tx[t] = from.tx[t] /\ to.orders[t] = from.orders[t]

AddedAreRows(r, from, to) ==
  \A t \in AddedIn(from, to) : \E n \in DoneRows(r) :
    /\ to.tx[t] = r.file.rows[n].row
    /\ to.orders[t] = r.file.rows[n].order
    /\ ~ KnownIn(from, r.file.account, r.file.rows[n].order)

AddedDiffer(from, to) ==
  \A t, u \in AddedIn(from, to) : to.orders[t] = to.orders[u] => t = u

DoneAreKnown(r, to) ==
  \A n \in DoneRows(r) : KnownIn(to, r.file.account, r.file.rows[n].order)

BatchFits(r, from, to) ==
  /\ from.orders \in OrderTables
  /\ Unchanged(from, to) /\ AddedAreRows(r, from, to)
  /\ AddedDiffer(from, to) /\ DoneAreKnown(r, to)

CommitInv ==
  /\ orders \in OrderTables
  /\ \A q \in Requests : PlanFits(request[q])
  /\ \A q \in Requests : InBatch(q) => BatchFits(request[q], saved, Book)
  /\ saved = NoBook <=> NoBatchOpen
  /\ edits \in 0..MaxEdits

-----------------------------------------------------------------------------
\* What is left of a queue without its head.
LEMMA QueueWithoutHead ==
  ASSUME NEW S, NEW seq \in Seq(S), seq # <<>>, Once(seq)
  PROVE  /\ Head(seq) \in S /\ Has(seq, Head(seq))
         /\ Tail(seq) \in Seq(S) /\ Once(Tail(seq))
         /\ \A x : Has(Tail(seq), x) <=> Has(seq, x) /\ x # Head(seq)
<1> DEFINE n == Len(seq)
           rest == Tail(seq)
<1>1. /\ n \in Nat \ {0} /\ DOMAIN seq = 1..n /\ Head(seq) = seq[1]
      /\ seq[1] \in S
      /\ rest \in Seq(S) /\ Len(rest) = n - 1
      /\ \A i \in 1..(n - 1) : rest[i] = seq[i + 1]
  OBVIOUS
<1>2. DOMAIN rest = 1..(n - 1)
  BY <1>1
<1> HIDE DEF n, rest
<1>3. Once(rest)
  <2>1. ASSUME NEW i \in 1..(n - 1), NEW j \in 1..(n - 1), rest[i] = rest[j]
        PROVE  i = j
    <3>1. i + 1 \in 1..n /\ j + 1 \in 1..n /\ seq[i + 1] = seq[j + 1]
      BY <1>1, <2>1
    <3>2. i + 1 = j + 1
      BY <1>1, <3>1 DEF Once
    <3>3. QED BY <3>2
  <2>2. QED BY <1>2, <2>1 DEF Once
<1>4. ASSUME NEW x PROVE Has(rest, x) <=> Has(seq, x) /\ x # Head(seq)
  <2>1. ASSUME Has(rest, x) PROVE Has(seq, x) /\ x # Head(seq)
    <3>1. PICK i \in 1..(n - 1) : rest[i] = x
      BY <1>2, <2>1 DEF Has
    <3>2. i + 1 \in 1..n /\ seq[i + 1] = x /\ 1 \in 1..n /\ i + 1 # 1
      BY <1>1, <3>1
    <3>3. QED BY <1>1, <3>2 DEF Has, Once
  <2>2. ASSUME Has(seq, x), x # Head(seq) PROVE Has(rest, x)
    <3>1. PICK i \in 1..n : seq[i] = x
      BY <1>1, <2>2 DEF Has
    <3>2. i - 1 \in 1..(n - 1) /\ (i - 1) + 1 = i
      BY <1>1, <2>2, <3>1
    <3>3. rest[i - 1] = x
      BY <1>1, <3>1, <3>2
    <3>4. QED BY <1>2, <3>2, <3>3 DEF Has
  <2>3. QED BY <2>1, <2>2
<1>5. Has(seq, Head(seq))
  BY <1>1 DEF Has
<1>6. QED BY <1>1, <1>3, <1>4, <1>5 DEF rest

\* A row of the open batch is dealt with.
LEMMA RowOffQueue ==
  ASSUME NEW r, DOMAIN r = {"phase", "file", "status", "queue"}, PlanFits(r),
         r.phase = "writing", r.queue # <<>>,
         NEW new, new = [r EXCEPT !.queue = Tail(@)]
  PROVE  /\ PlanFits(new) /\ new.phase = r.phase /\ new.file = r.file
         /\ ReadyOf(new) = ReadyOf(r)
         /\ Head(r.queue) \in ReadyOf(r)
         /\ DoneRows(new) = DoneRows(r) \cup {Head(r.queue)}
<1>1. /\ new.phase = r.phase /\ new.file = r.file /\ new.status = r.status
      /\ new.queue = Tail(r.queue)
  OBVIOUS
<1>2. ReadyOf(new) = ReadyOf(r)
  BY <1>1 DEF ReadyOf
<1>3. r.queue \in Seq(ReadyOf(r)) /\ Once(r.queue)
  BY DEF PlanFits
<1>4. /\ Head(r.queue) \in ReadyOf(r) /\ Has(r.queue, Head(r.queue))
      /\ Tail(r.queue) \in Seq(ReadyOf(r)) /\ Once(Tail(r.queue))
      /\ \A x : Has(Tail(r.queue), x) <=> Has(r.queue, x) /\ x # Head(r.queue)
  BY <1>3, QueueWithoutHead
<1>5. PlanFits(new)
  BY <1>1, <1>2, <1>4 DEF PlanFits, KnowsItsRows
<1>6. DoneRows(new) = DoneRows(r) \cup {Head(r.queue)}
  BY <1>1, <1>2, <1>4 DEF DoneRows
<1>7. QED BY <1>1, <1>2, <1>4, <1>5, <1>6

\* What was imported before the batch still is.
LEMMA KnownStays ==
  ASSUME NEW from, NEW to, Unchanged(from, to), NEW account, NEW order,
         KnownIn(from, account, order)
  PROVE  KnownIn(to, account, order)
BY DEF Unchanged, KnownIn

\* The new transactions of a batch are of its account.
LEMMA AddedOfAccount ==
  ASSUME NEW r, KnowsItsRows(r), NEW from, NEW to, AddedAreRows(r, from, to),
         NEW t \in AddedIn(from, to)
  PROVE  to.tx[t].account = r.file.account
<1>1. PICK n \in DoneRows(r) : to.tx[t] = r.file.rows[n].row
  BY DEF AddedAreRows
<1>2. n \in DOMAIN r.file.rows
  BY DEF DoneRows, ReadyOf, KnowsItsRows
<1>3. QED BY <1>1, <1>2, RowsOfFile DEF KnowsItsRows

\* A row of the batch becomes a transaction.
LEMMA RowIsWritten ==
  ASSUME NEW r, KnowsItsRows(r), NEW new, new.file = r.file,
         NEW n \in ReadyOf(r), DoneRows(new) = DoneRows(r) \cup {n},
         NEW from, NEW to, NEW later, BatchFits(r, from, to),
         NEW t \in TxIds, to.tx[t] = NoTx,
         DOMAIN to.tx = TxIds, DOMAIN to.orders = TxIds,
         later.tx = [to.tx EXCEPT ![t] = r.file.rows[n].row],
         later.orders = [to.orders EXCEPT ![t] = r.file.rows[n].order],
         ~ KnownIn(to, r.file.account, r.file.rows[n].order)
  PROVE  BatchFits(new, from, later)
<1> DEFINE row == r.file.rows[n].row
           order == r.file.rows[n].order
<1>1. row.account = r.file.account /\ row # NoTx
  <2>1. n \in DOMAIN r.file.rows /\ r.file \in Files
    BY DEF ReadyOf, KnowsItsRows
  <2>2. QED BY <2>1, RowsOfFile, NoTxIsNoRow
<1>2. /\ later.tx[t] = row /\ later.orders[t] = order
      /\ \A u \in TxIds \ {t} : /\ later.tx[u] = to.tx[u]
                                /\ later.orders[u] = to.orders[u]
  OBVIOUS
<1> HIDE DEF row, order
<1>3. /\ from.orders \in OrderTables /\ Unchanged(from, to)
      /\ AddedAreRows(r, from, to) /\ AddedDiffer(from, to) /\ DoneAreKnown(r, to)
  BY DEF BatchFits
<1>4. Unchanged(from, later)
  BY <1>2, <1>3 DEF Unchanged
<1>5. \A u \in AddedIn(from, later) : u = t \/ u \in AddedIn(from, to)
  BY <1>2 DEF AddedIn
<1>6. \A u \in AddedIn(from, to) : u \in TxIds \ {t}
  BY DEF AddedIn
<1>7. ~ KnownIn(to, r.file.account, order)
  BY DEF order
<1>8. ~ KnownIn(from, r.file.account, order)
  BY <1>3, <1>7, KnownStays
<1>9. AddedAreRows(new, from, later)
  <2>1. ASSUME NEW u \in AddedIn(from, to)
        PROVE  \E m \in DoneRows(new) :
                 /\ later.tx[u] = new.file.rows[m].row
                 /\ later.orders[u] = new.file.rows[m].order
                 /\ ~ KnownIn(from, new.file.account, new.file.rows[m].order)
    <3>1. PICK m \in DoneRows(r) :
            /\ to.tx[u] = r.file.rows[m].row
            /\ to.orders[u] = r.file.rows[m].order
            /\ ~ KnownIn(from, r.file.account, r.file.rows[m].order)
      BY <1>3 DEF AddedAreRows
    <3>2. m \in DoneRows(new)
      OBVIOUS
    <3>3. later.tx[u] = to.tx[u] /\ later.orders[u] = to.orders[u]
      BY <1>2, <1>6
    <3>4. QED BY <3>1, <3>2, <3>3
  <2>2. /\ n \in DoneRows(new)
        /\ later.tx[t] = new.file.rows[n].row
        /\ later.orders[t] = new.file.rows[n].order
        /\ ~ KnownIn(from, new.file.account, new.file.rows[n].order)
    BY <1>2, <1>8 DEF row, order
  <2>3. QED BY <1>5, <2>1, <2>2 DEF AddedAreRows
<1>10. AddedDiffer(from, later)
  <2>1. ASSUME NEW u \in AddedIn(from, to) PROVE later.orders[u] # order
    <3>1. to.tx[u].account = r.file.account /\ to.tx[u] # NoTx /\ u \in TxIds
      BY <1>3, AddedOfAccount DEF AddedIn
    <3>2. to.orders[u] # order
      BY <1>7, <3>1 DEF KnownIn
    <3>3. QED BY <1>2, <1>6, <3>2
  <2>2. \A u, v \in AddedIn(from, to) :
          later.orders[u] = later.orders[v] => u = v
    BY <1>2, <1>3, <1>6 DEF AddedDiffer
  <2>3. later.orders[t] = order
    BY <1>2
  <2>4. QED BY <1>5, <2>1, <2>2, <2>3 DEF AddedDiffer
<1>11. DoneAreKnown(new, later)
  <2>1. ASSUME NEW m \in DoneRows(r)
        PROVE  KnownIn(later, r.file.account, r.file.rows[m].order)
    <3>1. PICK u \in TxIds : /\ to.tx[u] # NoTx
                             /\ to.tx[u].account = r.file.account
                             /\ to.orders[u] = r.file.rows[m].order
      BY <1>3 DEF DoneAreKnown, KnownIn
    <3>2. u \in TxIds \ {t}
      BY <3>1
    <3>3. later.tx[u] = to.tx[u] /\ later.orders[u] = to.orders[u]
      BY <1>2, <3>2
    <3>4. QED BY <3>1, <3>3 DEF KnownIn
  <2>2. KnownIn(later, r.file.account, r.file.rows[n].order)
    BY <1>1, <1>2 DEF KnownIn, order
  <2>3. QED BY <2>1, <2>2 DEF DoneAreKnown
<1>12. QED BY <1>3, <1>4, <1>9, <1>10, <1>11 DEF BatchFits

\* A row of the batch is one that the account has already.
LEMMA RowIsSkipped ==
  ASSUME NEW r, NEW new, new.file = r.file,
         NEW n \in ReadyOf(r), DoneRows(new) = DoneRows(r) \cup {n},
         NEW from, NEW to, BatchFits(r, from, to),
         KnownIn(to, r.file.account, r.file.rows[n].order)
  PROVE  BatchFits(new, from, to)
BY DEF BatchFits, AddedAreRows, DoneAreKnown

-----------------------------------------------------------------------------
(***************************************************************************)
(* The plans.  Two ready rows of a file have different order numbers,      *)
(* because the second of two is a duplicate; blocking rows keeps that.     *)
(***************************************************************************)
LEMMA EvaluatedFits ==
  ASSUME NEW q \in Requests, q \in DOMAIN request, NEW file \in Files,
         EvaluateRows(q, file)
  PROVE  PlanFits(request'[q])
<1> DEFINE status == [n \in DOMAIN file.rows |-> RowStatus(file, n)]
           new == [Idle EXCEPT !.phase = "evaluated", !.file = file,
                               !.status = status]
<1>1. request'[q] = new
  BY DEF EvaluateRows
<1> HIDE DEF status
<1>2. new.phase = "evaluated" /\ new.file = file /\ new.status = status
      /\ new.queue = <<>>
  BY DEF Idle
<1> HIDE DEF new
<1>3. DOMAIN status = DOMAIN file.rows
      /\ \A n \in DOMAIN status : status[n] = RowStatus(file, n)
  BY DEF status
<1>4. \A n : RowStatus(file, n) \in Statuses
  BY DEF RowStatus, Statuses
<1>5. KnowsItsRows(new)
  BY <1>2, <1>3, <1>4 DEF KnowsItsRows
<1>6. \A m, n \in ReadyOf(new) : new.file.rows[m].order = new.file.rows[n].order
                                   => m = n
  <2> SUFFICES ASSUME NEW m \in ReadyOf(new), NEW n \in ReadyOf(new),
                      file.rows[m].order = file.rows[n].order, m < n
               PROVE  FALSE
    <3>1. ReadyOf(new) \subseteq Nat
      BY <1>2, <1>3, RowsOfFile DEF ReadyOf
    <3>2. \A m, n \in ReadyOf(new) : m < n \/ n < m \/ m = n
      BY <3>1
    <3>3. QED BY <1>2, <3>2
  <2>1. RowStatus(file, m) = "ready" /\ RowStatus(file, n) = "ready"
        /\ m \in DOMAIN file.rows /\ n \in DOMAIN file.rows
    BY <1>2, <1>3 DEF ReadyOf
  <2>2. file.rows[m].fault # "fields"
    BY <2>1 DEF RowStatus
  <2>3. m \in 1..(n - 1)
    <3>1. file.rows \in Seq(FileRows)
      BY FilesHoldTrades
    <3>2. Len(file.rows) \in Nat /\ DOMAIN file.rows = 1..Len(file.rows)
      BY <3>1
    <3>3. QED BY <2>1, <3>2
  <2>4. SeenInFile(file.rows, n)
    BY <2>2, <2>3 DEF SeenInFile
  <2>5. QED BY <2>1, <2>4 DEF RowStatus
<1>7. new.queue \in Seq(ReadyOf(new)) /\ Once(new.queue)
  BY <1>2 DEF Once
<1>8. QED BY <1>1, <1>2, <1>5, <1>6, <1>7 DEF PlanFits, Phases

\* After planning, the queue holds the ready rows that are left.
LEMMA PlannedFits ==
  ASSUME TableFits(tx), RequestsInv, NEW q \in Requests, PlanFits(request[q]),
         PlanSells(q)
  PROVE  /\ PlanFits(request'[q])
         /\ request'[q].phase \in {"planned", "rejected"}
         /\ request'[q].file = request[q].file
         /\ \A p \in Requests \ {q} : request'[p] = request[p]
<1> DEFINE r == request[q]
           blocked == BlockedRows(q)
           status == [n \in DOMAIN r.status |->
                        IF n \in blocked THEN "error" ELSE r.status[n]]
           phase == IF CanCommit(status) THEN "planned" ELSE "rejected"
           new == request'[q]
<1>1. r.phase = "evaluated" /\ KnowsItsRows(r)
  BY ZenonT(60) DEF PlanSells, PlanFits
<1>2. PICK assets \in SetToSeqs(PlannedAssets(q)) :
        request' = [request EXCEPT
          ![q].phase  = phase,
          ![q].status = status,
          ![q].queue  = FlattenSeq([i \in DOMAIN assets |->
                                      WriteOrder(Trades(q, assets[i]))])]
  BY DEF PlanSells
<1> DEFINE queue == FlattenSeq([i \in DOMAIN assets |->
                                  WriteOrder(Trades(q, assets[i]))])
<1>3. phase \in {"planned", "rejected"}
  OBVIOUS
<1>4. DOMAIN status = DOMAIN r.status
      /\ \A n \in DOMAIN status :
           status[n] = IF n \in blocked THEN "error" ELSE r.status[n]
  OBVIOUS
<1>5. /\ queue \in Seq(WithStatus(q, "ready") \ blocked)
      /\ \A n \in WithStatus(q, "ready") \ blocked : Has(queue, n)
      /\ Once(queue)
  BY <1>1, QueueIsComplete
<1> HIDE DEF phase, status, queue
<1>6. /\ DOMAIN request = Requests
      /\ DOMAIN request[q] = {"phase", "file", "status", "queue"}
  BY DEF RequestsInv
<1>7. /\ new.phase = phase /\ new.status = status /\ new.queue = queue
      /\ new.file = r.file
      /\ \A p \in Requests \ {q} : request'[p] = request[p]
  BY <1>2, <1>6 DEF queue
<1> HIDE DEF new, r
<1>8. ReadyOf(new) = WithStatus(q, "ready") \ blocked
  BY <1>4, <1>7 DEF ReadyOf, WithStatus, r
<1>9. KnowsItsRows(new)
  BY <1>1, <1>4, <1>7 DEF KnowsItsRows, Statuses
<1>10. \A m, n \in ReadyOf(new) : new.file.rows[m].order = new.file.rows[n].order
                                    => m = n
  <2>1. ReadyOf(new) \subseteq ReadyOf(r)
    BY <1>8 DEF ReadyOf, WithStatus, r
  <2>2. QED BY <1>7, <2>1 DEF PlanFits, r
<1>11. PlanFits(new)
  BY <1>3, <1>5, <1>7, <1>8, <1>9, <1>10 DEF PlanFits, Phases
<1>12. QED BY SMTT(60), <1>3, <1>7, <1>11 DEF new, r

-----------------------------------------------------------------------------
(***************************************************************************)
(* Every step keeps the invariant of the commits.                          *)
(***************************************************************************)
LEMMA OperationKeepsOrders ==
  ASSUME orders \in OrderTables, EditBook
  PROVE  orders' \in OrderTables
<1>1. PICK t \in TxIds :
        \/ \E order \in OrderNos \cup {NoOrder} : orders' = [orders EXCEPT ![t] = order]
        \/ orders' = orders
  BY DEF EditBook, ManualCreate, ManualUpdate, ManualDelete
<1>2. QED BY <1>1 DEF OrderTables

\* A book is not the absence of one.
LEMMA BookIsABook == Book # NoBook
<1>1. "tx" \in DOMAIN Book
  BY DEF Book
<1>2. DOMAIN NoBook = {}
  BY DEF NoBook
<1>3. QED BY <1>1, <1>2

\* With no batch open there is nothing to say of one.
LEMMA NoBatchKeepsCommitInv ==
  ASSUME NoBatchOpen', saved' = NoBook, orders' \in OrderTables,
         edits' \in 0..MaxEdits, \A q \in Requests : PlanFits(request'[q])
  PROVE  CommitInv'
<1>1. \A q \in Requests : ~ InBatch(q)'
  BY DEF NoBatchOpen, InBatch
<1>2. QED BY <1>1 DEF CommitInv, NoBook

\* The batch is opened on rows that are all in the queue.
LEMMA BeginKeepsCommitInv ==
  ASSUME RequestsInv, CommitInv, NEW q \in Requests, BeginBatch(q)
  PROVE  CommitInv'
<1> DEFINE r == request[q]
           new == request'[q]
<1>1. /\ NoBatchOpen /\ r.phase = "planned" /\ PlanFits(r)
      /\ saved' = Book /\ orders' = orders /\ edits' = edits /\ Book' = Book
      /\ orders \in OrderTables
  BY DEF BeginBatch, CommitInv, vars, Book
<1>2. /\ new.phase = "writing" /\ new.file = r.file /\ new.status = r.status
      /\ new.queue = r.queue
      /\ \A p \in Requests \ {q} : request'[p] = request[p]
  BY DEF RequestsInv, BeginBatch
<1> HIDE DEF r, new
<1>3. ReadyOf(new) = ReadyOf(r)
  BY <1>2 DEF ReadyOf
<1>4. PlanFits(new)
  BY <1>1, <1>2, <1>3 DEF PlanFits, KnowsItsRows, Phases
<1>5. DoneRows(new) = {}
  BY <1>1, <1>2, <1>3 DEF DoneRows, PlanFits
<1>6. BatchFits(new, Book, Book)
  <2>1. AddedIn(Book, Book) = {}
    BY DEF AddedIn
  <2>2. Book.orders \in OrderTables
    BY <1>1 DEF Book
  <2>3. QED BY <1>5, <2>1, <2>2
            DEF BatchFits, Unchanged, AddedAreRows, AddedDiffer, DoneAreKnown
<1>7. \A p \in Requests : InBatch(p)' => p = q
  BY <1>1, <1>2 DEF InBatch, NoBatchOpen
<1>8. ~ NoBatchOpen'
  BY <1>2 DEF NoBatchOpen, new
<1>9. \A p \in Requests : PlanFits(request'[p])
  BY <1>2, <1>4 DEF CommitInv, new
<1>10. \A p \in Requests : InBatch(p)' => BatchFits(request'[p], saved', Book')
  BY <1>1, <1>6, <1>7 DEF new
<1>11. saved' # NoBook /\ edits' \in 0..MaxEdits
  BY <1>1, BookIsABook DEF CommitInv
<1>12. QED BY <1>1, <1>8, <1>9, <1>10, <1>11 DEF CommitInv, NoBook

\* The next row of the batch is written, or skipped.
LEMMA RowKeepsCommitInv ==
  ASSUME JournalInv, RequestsInv, OneBatch, CommitInv, NEW q \in Requests,
         SkipRow(q) \/ \E t \in TxIds : WriteRow(q, t)
  PROVE  CommitInv'
<1> DEFINE r == request[q]
           new == request'[q]
           n == Head(r.queue)
<1>1. /\ r.phase = "writing" /\ r.queue # <<>> /\ PlanFits(r)
      /\ BatchFits(r, saved, Book)
      /\ saved' = saved /\ edits' = edits /\ RowDone(q)
  BY DEF SkipRow, WriteRow, InBatch, CommitInv
<1>2. /\ DOMAIN request = Requests
      /\ DOMAIN r = {"phase", "file", "status", "queue"}
  BY DEF RequestsInv
<1>3. /\ new = [r EXCEPT !.queue = Tail(@)]
      /\ \A p \in Requests \ {q} : request'[p] = request[p]
  BY <1>1, <1>2 DEF RowDone
<1> HIDE DEF r, new
<1>4. /\ PlanFits(new) /\ new.phase = r.phase /\ new.file = r.file
      /\ n \in ReadyOf(r) /\ DoneRows(new) = DoneRows(r) \cup {n}
  BY <1>1, <1>2, <1>3, RowOffQueue
<1>5. KnowsItsRows(r)
  BY <1>1 DEF PlanFits
<1>6. NextRow(q) = r.file.rows[n] /\ TheAccount(q) = r.file.account
  BY DEF NextRow, TheRow, TheAccount, r
<1> HIDE DEF n
<1>7. \A account, order : Imported(account, order) <=> KnownIn(Book, account, order)
  BY DEF Imported, KnownIn, Book, Exists
<1>8. orders \in OrderTables /\ tx \in [TxIds -> TxRow \cup {NoTx}]
  BY DEF CommitInv, JournalInv, TypeOK
<1>9. n \in DOMAIN r.file.rows /\ r.file \in Files
  BY <1>4, <1>5 DEF ReadyOf, KnowsItsRows
<1>10. r.file.rows[n].order \in OrderNos
  BY <1>9, RowsOfFile
<1>11. CASE SkipRow(q)
  <2>1. KnownIn(Book, r.file.account, r.file.rows[n].order)
    BY <1>6, <1>7, <1>11 DEF SkipRow
  <2>2. BatchFits(new, saved, Book)
    BY <1>1, <1>4, <2>1, RowIsSkipped
  <2>3. Book' = Book /\ orders' = orders
    BY <1>11 DEF SkipRow, vars, Book
  <2>4. \A p \in Requests : InBatch(p)' => p = q
    BY <1>1, <1>3, <1>4 DEF InBatch, OneBatch, r
  <2>5. \A p \in Requests : InBatch(p)' => BatchFits(request'[p], saved', Book')
    BY <1>1, <2>2, <2>3, <2>4 DEF new
  <2>6. \A p \in Requests : PlanFits(request'[p])
    BY <1>3, <1>4 DEF CommitInv, new
  <2>7. ~ NoBatchOpen /\ ~ NoBatchOpen'
    BY <1>1, <1>4 DEF NoBatchOpen, r, new
  <2>8. saved' # NoBook /\ edits' \in 0..MaxEdits
    BY <1>1, <2>7 DEF CommitInv
  <2>9. QED BY <1>8, <2>3, <2>5, <2>6, <2>7, <2>8 DEF CommitInv, NoBook
<1>12. ASSUME NEW t \in TxIds, WriteRow(q, t) PROVE CommitInv'
  <2>1. /\ tx[t] = NoTx /\ tx' = [tx EXCEPT ![t] = r.file.rows[n].row]
        /\ orders' = [orders EXCEPT ![t] = r.file.rows[n].order]
        /\ ~ KnownIn(Book, r.file.account, r.file.rows[n].order)
    BY <1>6, <1>7, <1>12
       DEF WriteRow, Create, CreateCashMovement, CreateBuyIncrementally,
           CreateSellIncrementally, CreateWithReplay, Insert, Exists
  <2>2. /\ Book.tx = tx /\ Book.orders = orders
        /\ Book'.tx = tx' /\ Book'.orders = orders'
    BY DEF Book
  <2>3. BatchFits(new, saved, Book')
    <3>1. DOMAIN Book.tx = TxIds /\ DOMAIN Book.orders = TxIds
      BY <1>8, <2>2 DEF OrderTables
    <3> DEFINE from == saved
               to == Book
               later == Book'
    <3>2. /\ BatchFits(r, from, to) /\ to.tx[t] = NoTx
          /\ DOMAIN to.tx = TxIds /\ DOMAIN to.orders = TxIds
          /\ later.tx = [to.tx EXCEPT ![t] = r.file.rows[n].row]
          /\ later.orders = [to.orders EXCEPT ![t] = r.file.rows[n].order]
          /\ ~ KnownIn(to, r.file.account, r.file.rows[n].order)
      BY <1>1, <2>1, <2>2, <3>1
    <3> HIDE DEF from, to, later
    <3>3. BatchFits(new, from, later)
      BY <1>4, <1>5, <3>2, RowIsWritten
    <3>4. QED BY <3>3 DEF from, later
  <2>4. orders' \in OrderTables
    BY <1>8, <1>10, <2>1 DEF OrderTables
  <2>5. \A p \in Requests : InBatch(p)' => p = q
    BY <1>1, <1>3, <1>4 DEF InBatch, OneBatch, r
  <2>6. \A p \in Requests : InBatch(p)' => BatchFits(request'[p], saved', Book')
    BY <1>1, <2>3, <2>5 DEF new
  <2>7. \A p \in Requests : PlanFits(request'[p])
    BY <1>3, <1>4 DEF CommitInv, new
  <2>8. ~ NoBatchOpen /\ ~ NoBatchOpen'
    BY <1>1, <1>4 DEF NoBatchOpen, r, new
  <2>9. saved' # NoBook /\ edits' \in 0..MaxEdits
    BY <1>1, <2>8 DEF CommitInv
  <2>10. QED BY SMTT(60), <2>4, <2>6, <2>7, <2>8, <2>9 DEF CommitInv, NoBook
<1>13. QED BY <1>11, <1>12

\* The batch ends, well or badly.
LEMMA EndKeepsCommitInv ==
  ASSUME RequestsInv, OneBatch, CommitInv, NEW q \in Requests, InBatch(q),
         \/ FinishBatch(q)
         \/ \E phase \in {"refused", "aborted"} : RollBack(q, phase)
  PROVE  CommitInv'
<1> DEFINE r == request[q]
           new == request'[q]
<1>1. NoBatchOpen'
  BY EndKeepsRequests
<1>2. BatchFits(r, saved, Book) /\ PlanFits(r) /\ r.phase = "writing"
  BY DEF CommitInv, InBatch
<1>3. /\ DOMAIN request = Requests
      /\ DOMAIN r = {"phase", "file", "status", "queue"}
  BY DEF RequestsInv
<1> DEFINE Ended ==
             /\ saved' = NoBook /\ edits' = edits /\ orders' \in OrderTables
             /\ new.phase \in {"refused", "aborted", "done"}
             /\ new.file = r.file /\ new.status = r.status
             /\ (new.queue = r.queue \/ new.queue = <<>>)
             /\ \A p \in Requests \ {q} : request'[p] = request[p]
<1>4. Ended
  <2>1. CASE FinishBatch(q)
    BY <1>3, <2>1 DEF FinishBatch, CommitInv
  <2>2. ASSUME NEW phase \in {"refused", "aborted"}, RollBack(q, phase)
        PROVE  Ended
    BY <1>2, <1>3, <2>2 DEF RollBack, BatchFits
  <2> HIDE DEF Ended
  <2>3. QED BY <2>1, <2>2
<1> HIDE DEF r, new
<1>5. ReadyOf(new) = ReadyOf(r)
  BY <1>4 DEF ReadyOf
<1>6. new.queue \in Seq(ReadyOf(r)) /\ Once(new.queue)
  <2>1. r.queue \in Seq(ReadyOf(r)) /\ Once(r.queue)
    BY <1>2 DEF PlanFits
  <2>2. <<>> \in Seq(ReadyOf(r)) /\ Once(<<>>)
    BY DEF Once
  <2>3. QED BY <1>4, <2>1, <2>2
<1>7. PlanFits(new)
  BY <1>2, <1>4, <1>5, <1>6 DEF PlanFits, KnowsItsRows, Phases
<1>8. \A p \in Requests : PlanFits(request'[p])
  BY <1>4, <1>7 DEF CommitInv, new
<1>9. edits' \in 0..MaxEdits
  BY <1>4 DEF CommitInv
<1>10. QED BY <1>1, <1>4, <1>8, <1>9, NoBatchKeepsCommitInv

-----------------------------------------------------------------------------
\* Initially no request has begun.
LEMMA InitCommitInv == ImportInit => CommitInv
<1> SUFFICES ASSUME ImportInit PROVE CommitInv
  OBVIOUS
<1>1. /\ orders \in OrderTables /\ edits \in 0..MaxEdits
      /\ saved = NoBook
  BY EditsAreBounded DEF ImportInit, OrderTables
<1>2. \A q \in Requests : request[q] = Idle
  BY DEF ImportInit
<1>3. Idle.phase = "idle" /\ Idle.status = <<>> /\ Idle.queue = <<>>
  BY DEF Idle
<1>4. ReadyOf(Idle) = {}
  BY <1>3 DEF ReadyOf
<1>5. PlanFits(Idle)
  <2>1. <<>> \in Seq({}) /\ Once(<<>>)
    BY DEF Once
  <2>2. QED BY <1>3, <1>4, <2>1 DEF PlanFits, Phases
<1>6. NoBatchOpen /\ \A q \in Requests : ~ InBatch(q)
  BY <1>2, <1>3 DEF NoBatchOpen, InBatch
<1>7. QED BY <1>1, <1>2, <1>5, <1>6 DEF CommitInv

\* Every step of a commit, one case for each action.
LEMMA ContinueKeepsCommitInv ==
  ASSUME ImportInv, CommitInv, NEW q \in Requests, Continue(q)
  PROVE  CommitInv'
<1>0. JournalInv /\ TableFits(tx) /\ RequestsInv /\ OneBatch
  BY DEF ImportInv, TablesInOrder, BookInv
<1>1. CASE PlanSells(q)
  <2>1. PlanFits(request[q])
    BY DEF CommitInv
  <2>2. /\ PlanFits(request'[q])
        /\ \A p \in Requests \ {q} : request'[p] = request[p]
    BY <1>0, <1>1, <2>1, PlannedFits
  <2>3. \A p \in Requests : PlanFits(request'[p])
    BY <2>2 DEF CommitInv
  <2>4. NoBatchOpen'
    BY SMTT(60), <1>0, <1>1, PlanKeepsRequests
  <2>5. saved' = NoBook /\ orders' \in OrderTables /\ edits' \in 0..MaxEdits
    BY <1>1 DEF PlanSells, CommitInv
  <2>6. QED BY <2>3, <2>4, <2>5, NoBatchKeepsCommitInv
<1>2. CASE BeginBatch(q)
  BY <1>0, <1>2, BeginKeepsCommitInv
<1>3. CASE SkipRow(q) \/ \E t \in TxIds : WriteRow(q, t)
  BY <1>0, <1>3, RowKeepsCommitInv
<1>4. CASE AbortBatch(q) \/ FinishBatch(q) \/ \E t \in TxIds : RefuseRow(q, t)
  <2>1. InBatch(q) /\ (\/ FinishBatch(q)
                       \/ \E phase \in {"refused", "aborted"} : RollBack(q, phase))
    BY <1>4 DEF AbortBatch, RefuseRow, FinishBatch
  <2>2. QED BY <1>0, <2>1, EndKeepsCommitInv
<1>5. QED BY <1>1, <1>2, <1>3, <1>4 DEF Continue

\* And every step of the users and of the requests.
LEMMA NextKeepsCommitInv ==
  ASSUME ImportInv, CommitInv, [ImportNext]_allVars
  PROVE  CommitInv'
<1>1. CASE EditBook
  <2>1. orders' \in OrderTables
    BY <1>1, OperationKeepsOrders DEF CommitInv
  <2>2. edits' \in 0..MaxEdits
    BY <1>1, EditsAreBounded DEF EditBook, CommitInv
  <2>3. request' = request /\ saved' = saved /\ NoBatchOpen
    BY <1>1 DEF EditBook
  <2>4. NoBatchOpen' /\ saved' = NoBook /\ \A q \in Requests : PlanFits(request'[q])
    BY <2>3 DEF NoBatchOpen, CommitInv
  <2>5. QED BY <2>1, <2>2, <2>4, NoBatchKeepsCommitInv
<1>2. ASSUME NEW q \in Requests, NEW file \in Files, EvaluateRows(q, file)
      PROVE  CommitInv'
  <2>1. RequestsInv /\ q \in DOMAIN request
    BY DEF ImportInv, RequestsInv
  <2>2. PlanFits(request'[q])
    BY <1>2, <2>1, EvaluatedFits
  <2>3. \A p \in Requests \ {q} : request'[p] = request[p]
    BY <1>2, <2>1 DEF EvaluateRows, RequestsInv
  <2>4. \A p \in Requests : PlanFits(request'[p])
    BY <2>2, <2>3 DEF CommitInv
  <2>5. NoBatchOpen'
    BY <1>2, <2>1, EvaluateKeepsRequests
  <2>6. saved' = NoBook /\ orders' \in OrderTables /\ edits' \in 0..MaxEdits
    BY <1>2 DEF EvaluateRows, CommitInv
  <2>7. QED BY <2>4, <2>5, <2>6, NoBatchKeepsCommitInv
<1>3. ASSUME NEW q \in Requests, Continue(q)
      PROVE  CommitInv'
  BY <1>3, ContinueKeepsCommitInv
<1>4. CASE UNCHANGED allVars
  <2>1. /\ request' = request /\ saved' = saved /\ orders' = orders
        /\ edits' = edits /\ Book' = Book
    BY <1>4 DEF allVars, importVars, vars, Book
  <2>2. QED BY <2>1 DEF CommitInv, InBatch, NoBatchOpen, NoBook
<1>5. QED BY <1>1, <1>2, <1>3, <1>4 DEF ImportNext, Evaluate

(***************************************************************************)
(* What an open batch has done follows from the rows that are no longer in *)
(* its queue (commitImportTransactions, writeReadyImportRow).              *)
(***************************************************************************)
THEOREM CommitInvariant == ImportSpec => []CommitInv
<1>1. ASSUME ImportInv, CommitInv, [ImportNext]_allVars
      PROVE  CommitInv'
  BY <1>1, NextKeepsCommitInv
<1>2. QED BY InitCommitInv, ImportInvariant, <1>1, PTL DEF ImportSpec

(***************************************************************************)
(* A request knows a status for each row of its file and its queue holds   *)
(* ready rows, each once (planSingleScope, compareScopeEntriesForWrite);   *)
(* there is a book to return to exactly while a batch is open.             *)
(***************************************************************************)
THEOREM ImportTypeCorrect == ImportSpec => []ImportTypeOK
<1>1. ASSUME ImportInv, CommitInv PROVE ImportTypeOK
  <2>1. TypeOK
    BY <1>1 DEF ImportInv, TablesInOrder, JournalInv
  <2>2. ASSUME NEW q \in Requests
        PROVE  /\ request[q].phase \in Phases
               /\ request[q].phase # "idle" =>
                    /\ request[q].file \in Files
                    /\ DOMAIN request[q].status = DOMAIN request[q].file.rows
                    /\ Range(request[q].status) \subseteq Statuses
               /\ Range(request[q].queue) \subseteq WithStatus(q, "ready")
               /\ IsInjective(request[q].queue)
    <3>1. PlanFits(request[q])
      BY <1>1 DEF CommitInv
    <3>2. request[q].queue \in Seq(WithStatus(q, "ready")) /\ Once(request[q].queue)
      BY <3>1 DEF PlanFits, ReadyOf, WithStatus
    <3>3. Range(request[q].queue) \subseteq WithStatus(q, "ready")
      BY <3>2 DEF Range
    <3>4. IsInjective(request[q].queue)
      BY <3>2 DEF IsInjective, Once
    <3>5. QED BY <3>1, <3>3, <3>4 DEF PlanFits, KnowsItsRows, Range
  <2>3. QED BY <1>1, <2>1, <2>2 DEF ImportTypeOK, CommitInv, OrderTables
<1>2. QED BY <1>1, ImportInvariant, CommitInvariant, PTL

-----------------------------------------------------------------------------
(***************************************************************************)
(* The refinement.  What is committed, as lines.                           *)
(***************************************************************************)
LinesOf(table, numbers) ==
  [t \in TxIds |-> IF table[t] = NoTx THEN NoLine ELSE Line(table[t], numbers[t])]

\* The book of the abstract specification.
LEMMA CommittedLines ==
  /\ NoBatchOpen => CommittedBook = LinesOf(tx, orders)
  /\ ~ NoBatchOpen => CommittedBook = LinesOf(saved.tx, saved.orders)
BY DEF CommittedBook, LinesOf

\* A line is not the absence of one.
LEMMA LinesAreLines ==
  ASSUME NEW row, row # NoTx, NEW order
  PROVE  Line(row, order) # NoLine
<1>1. Line(row, order).row = row /\ NoLine.row = NoTx
  BY DEF Line, NoLine
<1>2. QED BY <1>1

\* The fields of a line.
LEMMA FieldsOfLine ==
  \A row, order : Line(row, order).row = row /\ Line(row, order).order = order
BY DEF Line

\* What a request asks for.
LEMMA Asks ==
  ASSUME NEW q \in Requests
  PROVE  RowsAskedFor[q] =
           IF request[q].phase \in {"planned", "writing"}
             THEN {Line(request[q].file.rows[n].row, request[q].file.rows[n].order) :
                     n \in ReadyOf(request[q])}
             ELSE {}
BY DEF RowsAskedFor, TheRow, WithStatus, ReadyOf

\* The other requests go on asking for what they ask for.
LEMMA OthersAsk ==
  ASSUME NEW q \in Requests, \A p \in Requests \ {q} : request'[p] = request[p]
  PROVE  /\ Atomic!OthersKeepAsking(q)
         /\ \A p \in Requests \ {q} : RowsAskedFor'[p] = RowsAskedFor[p]
<1>1. \A p \in Requests \ {q} : RowsAskedFor'[p] = RowsAskedFor[p]
  BY SMTT(60) DEF RowsAskedFor, TheRow, WithStatus
<1>2. QED BY <1>1 DEF Atomic!OthersKeepAsking

\* When what this request asks for stays too, nobody asks for anything else.
LEMMA NothingElseAsked ==
  ASSUME NEW q \in Requests, \A p \in Requests \ {q} : request'[p] = request[p],
         RowsAskedFor'[q] = RowsAskedFor[q]
  PROVE  RowsAskedFor' = RowsAskedFor
<1>1. \A p \in Requests : RowsAskedFor'[p] = RowsAskedFor[p]
  BY OthersAsk
<1>2. /\ RowsAskedFor' = [p \in Requests |-> RowsAskedFor'[p]]
      /\ RowsAskedFor = [p \in Requests |-> RowsAskedFor[p]]
  BY DEF RowsAskedFor
<1>3. QED BY <1>1, <1>2

(***************************************************************************)
(* The end of a batch imports, in one step, the rows that were not         *)
(* imported before it: each new transaction of the batch is one of them,   *)
(* and each of them is one new transaction.                                *)
(***************************************************************************)
LEMMA FinishImports ==
  ASSUME RequestsInv, OneBatch, CommitInv, NEW q \in Requests, FinishBatch(q)
  PROVE  Atomic!Import(q)
<1> DEFINE r == request[q]
           before == CommittedBook
           after == CommittedBook'
           added == AddedIn(saved, Book)
           ready == ReadyOf(r)
           LineOf(n) == Line(r.file.rows[n].row, r.file.rows[n].order)
           asked == {LineOf(n) : n \in ready}
           missing == Atomic!Missing(q)
<1>1. /\ r.phase = "writing" /\ r.queue = <<>> /\ PlanFits(r)
      /\ BatchFits(r, saved, Book) /\ tx' = tx /\ orders' = orders
      /\ ~ NoBatchOpen
  BY DEF FinishBatch, InBatch, CommitInv, vars, NoBatchOpen
<1>2. NoBatchOpen' /\ request'[q].phase = "done"
      /\ \A p \in Requests \ {q} : request'[p] = request[p]
  <2>1. NoBatchOpen'
    BY EndKeepsRequests DEF FinishBatch
  <2>2. QED BY <2>1 DEF FinishBatch, RequestsInv
<1>3. before = LinesOf(saved.tx, saved.orders) /\ after = LinesOf(tx, orders)
  <2>1. after = LinesOf(tx', orders')
    BY <1>2 DEF CommittedBook, LinesOf
  <2>2. QED BY <1>1, <2>1, CommittedLines
<1>4. KnowsItsRows(r)
  BY <1>1 DEF PlanFits
<1>5. DoneRows(r) = ready
  BY <1>1 DEF DoneRows, Has
<1>6. Book.tx = tx /\ Book.orders = orders
  BY DEF Book
<1>7. RowsAskedFor[q] = asked
  BY <1>1, Asks
<1>8. RowsAskedFor'[q] = {}
  BY <1>2 DEF RowsAskedFor
<1> HIDE DEF r, before, after, ready
<1>9. \A t \in TxIds :
        /\ before[t] = IF saved.tx[t] = NoTx THEN NoLine
                       ELSE Line(saved.tx[t], saved.orders[t])
        /\ after[t] = IF tx[t] = NoTx THEN NoLine ELSE Line(tx[t], orders[t])
  BY <1>3 DEF LinesOf
<1>10. /\ Unchanged(saved, Book) /\ AddedAreRows(r, saved, Book)
       /\ AddedDiffer(saved, Book) /\ DoneAreKnown(r, Book)
  BY <1>1 DEF BatchFits
<1>11. \A t \in TxIds : before[t] # NoLine <=> saved.tx[t] # NoTx
  BY <1>9, LinesAreLines
<1>12. \A t \in TxIds : t \in added <=> saved.tx[t] = NoTx /\ tx[t] # NoTx
  BY <1>6 DEF AddedIn
<1>13. added \in SUBSET TxIds
  BY DEF AddedIn
<1> HIDE DEF added
<1>14. {t \in TxIds : after[t] # before[t]} = added
  <2>1. ASSUME NEW t \in TxIds, saved.tx[t] # NoTx PROVE after[t] = before[t]
    BY <1>6, <1>9, <1>10, <2>1 DEF Unchanged
  <2>2. ASSUME NEW t \in TxIds, saved.tx[t] = NoTx, tx[t] = NoTx
        PROVE  after[t] = before[t]
    BY <1>9, <2>2
  <2>3. ASSUME NEW t \in added PROVE after[t] # before[t]
    BY <1>9, <1>12, <1>13, <2>3, LinesAreLines
  <2>4. QED BY <1>12, <1>13, <2>1, <2>2, <2>3
<1>15. \A t \in added : after[t] = Line(tx[t], orders[t]) /\ before[t] = NoLine
  BY <1>9, <1>12, <1>13
<1>16. \A t \in added : \E n \in ready :
         /\ tx[t] = r.file.rows[n].row /\ orders[t] = r.file.rows[n].order
         /\ ~ KnownIn(saved, r.file.account, r.file.rows[n].order)
  <2>1. added = AddedIn(saved, Book)
    BY DEF added
  <2>2. QED BY <1>5, <1>6, <1>10, <2>1 DEF AddedAreRows
<1>17. \A n \in ready : r.file.rows[n].row.account = r.file.account
  <2>1. ready \subseteq DOMAIN r.file.rows
    BY <1>4 DEF ready, ReadyOf, KnowsItsRows
  <2>2. QED BY <1>4, <2>1, RowsOfFile DEF KnowsItsRows
<1>18. ASSUME NEW n \in ready
       PROVE  Atomic!Known(LineOf(n))
                <=> KnownIn(saved, r.file.account, r.file.rows[n].order)
  <2> DEFINE line == LineOf(n)
  <2>1. line.row.account = r.file.account /\ line.order = r.file.rows[n].order
    BY <1>17 DEF Line
  <2>2. Atomic!Known(line) <=>
          \E t \in TxIds : /\ before[t] # NoLine
                           /\ before[t].row.account = line.row.account
                           /\ before[t].order = line.order
    BY DEF Atomic!Known, before
  <2>3. \A t \in TxIds : saved.tx[t] # NoTx =>
          before[t].row = saved.tx[t] /\ before[t].order = saved.orders[t]
    BY <1>9, FieldsOfLine
  <2> HIDE DEF line
  <2>4. Atomic!Known(line) <=> KnownIn(saved, r.file.account, r.file.rows[n].order)
    BY <1>11, <2>1, <2>2, <2>3 DEF KnownIn
  <2>5. QED BY <2>4 DEF line
<1>19. missing = {line \in asked : ~ Atomic!Known(line)}
  BY <1>7 DEF Atomic!Missing
<1>20. \A t \in added : after[t] \in missing
  <2>1. ASSUME NEW t \in added PROVE after[t] \in missing
    <3>1. PICK n \in ready :
            /\ tx[t] = r.file.rows[n].row /\ orders[t] = r.file.rows[n].order
            /\ ~ KnownIn(saved, r.file.account, r.file.rows[n].order)
      BY <1>16
    <3>2. after[t] = LineOf(n)
      BY <1>15, <3>1
    <3>3. ~ Atomic!Known(LineOf(n)) /\ LineOf(n) \in asked
      BY <1>18, <3>1
    <3> HIDE DEF asked, LineOf, missing
    <3>4. QED BY <1>19, <3>2, <3>3
  <2> HIDE DEF missing
  <2>2. QED BY <2>1
<1>21. \A line \in missing : \E t \in added : after[t] = line
  <2>1. ASSUME NEW n \in ready, ~ Atomic!Known(LineOf(n))
        PROVE  \E t \in added : after[t] = LineOf(n)
    <3>1. ~ KnownIn(saved, r.file.account, r.file.rows[n].order)
      BY <1>18, <2>1
    <3>2. KnownIn(Book, r.file.account, r.file.rows[n].order)
      BY <1>5, <1>10 DEF DoneAreKnown
    <3>3. PICK t \in TxIds : /\ tx[t] # NoTx /\ tx[t].account = r.file.account
                             /\ orders[t] = r.file.rows[n].order
      BY <1>6, <3>2 DEF KnownIn
    <3>4. saved.tx[t] = NoTx
      BY <1>6, <1>10, <3>1, <3>3 DEF Unchanged, KnownIn
    <3>5. t \in added
      BY <1>12, <3>3, <3>4
    <3>6. PICK m \in ready : /\ tx[t] = r.file.rows[m].row
                             /\ orders[t] = r.file.rows[m].order
      BY <1>16, <3>5
    <3>7. m = n
      BY <1>1, <3>3, <3>6 DEF PlanFits, ready
    <3>8. after[t] = LineOf(n)
      BY <1>15, <3>5, <3>6, <3>7
    <3>9. QED BY <3>5, <3>8
  <2>2. ASSUME NEW line \in missing PROVE \E t \in added : after[t] = line
    <3>1. line \in asked /\ ~ Atomic!Known(line)
      BY <1>19
    <3>2. PICK n \in ready : line = LineOf(n)
      BY <3>1
    <3> HIDE DEF LineOf
    <3>3. QED BY <2>1, <3>1, <3>2
  <2> HIDE DEF missing
  <2>3. QED BY <2>2
<1> HIDE DEF missing, asked, LineOf
<1>22. \A t, u \in added : after[t] = after[u] => t = u
  <2>1. \A t \in added : after[t].order = orders[t]
    BY <1>15, FieldsOfLine
  <2>2. \A t, u \in added : orders[t] = orders[u] => t = u
    BY <1>6, <1>10 DEF AddedDiffer, added
  <2>3. QED BY <2>1, <2>2
<1>23. {after[t] : t \in added} = missing
  BY <1>20, <1>21
<1>24. Atomic!OthersKeepAsking(q)
  BY <1>2, OthersAsk
<1>25. Atomic!Import(q) <=>
         LET fresh == {t \in TxIds : after[t] # before[t]} IN
         /\ \A t \in fresh : before[t] = NoLine
         /\ {after[t] : t \in fresh} = missing
         /\ \A t, u \in fresh : after[t] = after[u] => t = u
         /\ RowsAskedFor'[q] = {}
         /\ Atomic!OthersKeepAsking(q)
  BY DEF Atomic!Import, before, after, missing
<1>26. QED BY <1>8, <1>14, <1>15, <1>22, <1>23, <1>24, <1>25

-----------------------------------------------------------------------------
\* An operation of a user changes one transaction and its order number.
LEMMA OperationEdits ==
  ASSUME ImportInv, CommitInv, EditBook
  PROVE  Atomic!Edit
<1>1. tx \in [TxIds -> TxRow \cup {NoTx}] /\ orders \in OrderTables
  BY DEF ImportInv, TablesInOrder, JournalInv, TypeOK, CommitInv
<1>2. PICK t \in TxIds : /\ \E row : tx' = [tx EXCEPT ![t] = row]
                         /\ \/ orders' = orders
                            \/ \E order : orders' = [orders EXCEPT ![t] = order]
  <2>1. PICK t \in TxIds :
          \/ \E r \in Inputs, order \in OrderNos \cup {NoOrder} :
               ManualCreate(t, r, order)
          \/ \E r \in Inputs : ManualUpdate(t, r)
          \/ ManualDelete(t)
    BY DEF EditBook
  <2>2. ASSUME NEW r, Create(t, r) PROVE tx' = [tx EXCEPT ![t] = r]
    BY <2>2 DEF Create, CreateCashMovement, CreateBuyIncrementally,
                CreateSellIncrementally, CreateWithReplay, Insert
  <2>3. ASSUME NEW r, UpdateOwn(t, r)
        PROVE  tx' = [tx EXCEPT ![t] = [r EXCEPT !.deleted = tx[t].deleted]]
    BY <2>3 DEF UpdateOwn, Update
  <2>4. ASSUME SoftDelete(t)
        PROVE  tx' = [tx EXCEPT ![t] = [tx[t] EXCEPT !.deleted = TRUE]]
    BY <2>4 DEF SoftDelete
  <2>5. ASSUME HardDelete(t) PROVE tx' = [tx EXCEPT ![t] = NoTx]
    BY <2>5 DEF HardDelete
  <2>6. QED BY <2>1, <2>2, <2>3, <2>4, <2>5
            DEF ManualCreate, ManualUpdate, ManualDelete
<1>3. \A u \in TxIds \ {t} : tx'[u] = tx[u] /\ orders'[u] = orders[u]
  BY <1>1, <1>2 DEF OrderTables
<1>4. request' = request /\ NoBatchOpen /\ NoBatchOpen'
  BY DEF EditBook, NoBatchOpen
<1>5. CommittedBook = LinesOf(tx, orders) /\ CommittedBook' = LinesOf(tx', orders')
  BY <1>4 DEF CommittedBook, LinesOf
<1>6. \A u \in TxIds \ {t} : CommittedBook'[u] = CommittedBook[u]
  BY <1>3, <1>5 DEF LinesOf
<1>7. RowsAskedFor' = RowsAskedFor
  BY <1>4 DEF RowsAskedFor, TheRow, WithStatus
<1>8. QED BY <1>6, <1>7 DEF Atomic!Edit

\* The plan decides what a request asks for, if anything.
LEMMA PlanAsks ==
  ASSUME ImportInv, CommitInv, NEW q \in Requests, PlanSells(q)
  PROVE  Atomic!Ask(q)
<1>1. /\ TableFits(tx) /\ RequestsInv /\ PlanFits(request[q])
      /\ request[q].phase = "evaluated" /\ NoBatchOpen
      /\ tx' = tx /\ orders' = orders
  BY DEF ImportInv, TablesInOrder, BookInv, CommitInv, PlanSells, vars
<1>2. /\ PlanFits(request'[q]) /\ request'[q].phase \in {"planned", "rejected"}
      /\ \A p \in Requests \ {q} : request'[p] = request[p]
  BY <1>1, PlannedFits
<1>3. CommittedBook' = CommittedBook
  <2>1. NoBatchOpen'
    BY <1>1, PlanKeepsRequests
  <2>2. CommittedBook = LinesOf(tx, orders) /\ CommittedBook' = LinesOf(tx', orders')
    BY <1>1, <2>1 DEF CommittedBook, LinesOf
  <2>3. QED BY <1>1, <2>2
<1>4. RowsAskedFor[q] = {}
  BY <1>1, Asks
<1>5. RowsAskedFor'[q] \subseteq FileLines
  <2> DEFINE new == request'[q]
  <2>1. RowsAskedFor'[q] =
          IF new.phase \in {"planned", "writing"}
            THEN {Line(new.file.rows[n].row, new.file.rows[n].order) : n \in ReadyOf(new)}
            ELSE {}
    BY DEF RowsAskedFor, TheRow, WithStatus, ReadyOf
  <2> HIDE DEF new
  <2>2. new.file \in Files /\ ReadyOf(new) \subseteq DOMAIN new.file.rows
    BY <1>2 DEF PlanFits, KnowsItsRows, ReadyOf, new
  <2>3. \A n \in DOMAIN new.file.rows :
          Line(new.file.rows[n].row, new.file.rows[n].order) \in FileLines
    BY <2>2 DEF FileLines
  <2>4. QED BY <2>1, <2>2, <2>3
<1>6. Atomic!OthersKeepAsking(q)
  BY <1>2, OthersAsk
<1>7. QED BY SMTT(60), <1>3, <1>4, <1>5, <1>6 DEF Atomic!Ask

\* The steps of a commit in between change nothing that is committed, nor
\* what is asked for.
LEMMA StepsInBetween ==
  ASSUME ImportInv, CommitInv, NEW q \in Requests,
         \/ \E file \in Files : EvaluateRows(q, file)
         \/ BeginBatch(q) \/ SkipRow(q) \/ \E t \in TxIds : WriteRow(q, t)
  PROVE  CommittedBook' = CommittedBook /\ RowsAskedFor' = RowsAskedFor
<1>1. DOMAIN request = Requests
      /\ DOMAIN request[q] = {"phase", "file", "status", "queue"}
  BY DEF ImportInv, RequestsInv
<1>2. CASE \E file \in Files : EvaluateRows(q, file)
  <2>1. PICK file \in Files : EvaluateRows(q, file)
    BY SMTT(60), <1>2
  <2> DEFINE status == [n \in DOMAIN file.rows |-> RowStatus(file, n)]
             new == [Idle EXCEPT !.phase = "evaluated", !.file = file,
                                 !.status = status]
  <2>2. request' = [request EXCEPT ![q] = new] /\ request[q].phase = "idle"
        /\ NoBatchOpen /\ tx' = tx /\ orders' = orders
    BY <2>1 DEF EvaluateRows, vars
  <2> HIDE DEF status
  <2>3. new.phase = "evaluated"
    BY DEF Idle
  <2> HIDE DEF new
  <2>4. request'[q].phase = "evaluated"
        /\ \A p \in Requests \ {q} : request'[p] = request[p]
    BY <1>1, <2>2, <2>3
  <2>5. NoBatchOpen'
    BY <2>2, <2>4 DEF NoBatchOpen
  <2>6. CommittedBook' = CommittedBook
    BY <2>2, <2>5 DEF CommittedBook
  <2>7. RowsAskedFor[q] = {} /\ RowsAskedFor'[q] = {}
    BY <2>2, <2>4 DEF RowsAskedFor
  <2>8. QED BY <2>4, <2>6, <2>7, NothingElseAsked
<1>3. CASE BeginBatch(q)
  <2>1. /\ request[q].phase = "planned" /\ request'[q].phase = "writing"
        /\ request'[q].file = request[q].file
        /\ request'[q].status = request[q].status
        /\ \A p \in Requests \ {q} : request'[p] = request[p]
    BY <1>1, <1>3 DEF BeginBatch
  <2>2. NoBatchOpen /\ ~ NoBatchOpen' /\ saved'.tx = tx /\ saved'.orders = orders
    BY <1>3, <2>1 DEF BeginBatch, NoBatchOpen, Book
  <2>3. CommittedBook' = CommittedBook
    BY <2>2 DEF CommittedBook
  <2>4. RowsAskedFor'[q] = RowsAskedFor[q]
    BY ZenonT(60), <2>1 DEF RowsAskedFor, TheRow, WithStatus
  <2>5. QED BY <2>1, <2>3, <2>4, NothingElseAsked
<1>4. CASE SkipRow(q) \/ \E t \in TxIds : WriteRow(q, t)
  <2>1. RowDone(q) /\ saved' = saved /\ request[q].phase = "writing"
    BY <1>4 DEF SkipRow, WriteRow, InBatch
  <2>2. /\ request'[q].phase = "writing"
        /\ request'[q].file = request[q].file
        /\ request'[q].status = request[q].status
        /\ \A p \in Requests \ {q} : request'[p] = request[p]
    BY <1>1, <2>1 DEF RowDone
  <2>3. ~ NoBatchOpen /\ ~ NoBatchOpen'
    BY <2>1, <2>2 DEF NoBatchOpen
  <2>4. CommittedBook' = CommittedBook
    BY <2>1, <2>3 DEF CommittedBook
  <2>5. RowsAskedFor'[q] = RowsAskedFor[q]
    BY ZenonT(60), <2>1, <2>2 DEF RowsAskedFor, TheRow, WithStatus
  <2>6. QED BY <2>2, <2>4, <2>5, NothingElseAsked
<1>5. QED BY <1>2, <1>3, <1>4

\* A batch that is rolled back leaves what was committed before it.
LEMMA RollBackGivesUp ==
  ASSUME ImportInv, CommitInv, NEW q \in Requests, InBatch(q),
         NEW phase \in {"refused", "aborted"}, RollBack(q, phase)
  PROVE  Atomic!GiveUp(q)
<1>1. RequestsInv /\ OneBatch
  BY DEF ImportInv
<1>2. ~ NoBatchOpen /\ NoBatchOpen'
  BY <1>1, EndKeepsRequests DEF InBatch, NoBatchOpen
<1>3. tx' = saved.tx /\ orders' = saved.orders
  BY DEF RollBack
<1>4. CommittedBook' = CommittedBook
  BY <1>2, <1>3 DEF CommittedBook
<1>5. request'[q].phase = phase /\ \A p \in Requests \ {q} : request'[p] = request[p]
  BY <1>1 DEF RollBack, RequestsInv
<1>6. RowsAskedFor'[q] = {}
  BY <1>5 DEF RowsAskedFor
<1>7. QED BY <1>4, <1>5, <1>6, OthersAsk DEF Atomic!GiveUp

\* Every step is one of AtomicImport, or changes nothing there.
LEMMA StepsAreAtomic ==
  ASSUME ImportInv, CommitInv, [ImportNext]_allVars
  PROVE  [Atomic!AtomicNext]_(Atomic!atomicVars)
<1>1. CASE EditBook
  BY <1>1, OperationEdits DEF Atomic!AtomicNext
<1>2. ASSUME NEW q \in Requests,
             \/ \E file \in Files : EvaluateRows(q, file)
             \/ BeginBatch(q) \/ SkipRow(q) \/ \E t \in TxIds : WriteRow(q, t)
      PROVE  UNCHANGED Atomic!atomicVars
  BY <1>2, StepsInBetween DEF Atomic!atomicVars
<1>3. ASSUME NEW q \in Requests, PlanSells(q) PROVE Atomic!AtomicNext
  BY <1>3, PlanAsks DEF Atomic!AtomicNext
<1>4. ASSUME NEW q \in Requests, AbortBatch(q) \/ \E t \in TxIds : RefuseRow(q, t)
      PROVE  Atomic!AtomicNext
  <2>1. InBatch(q) /\ \E phase \in {"refused", "aborted"} : RollBack(q, phase)
    BY <1>4 DEF AbortBatch, RefuseRow
  <2>2. QED BY <2>1, RollBackGivesUp DEF Atomic!AtomicNext
<1>5. ASSUME NEW q \in Requests, FinishBatch(q) PROVE Atomic!AtomicNext
  BY <1>5, FinishImports DEF ImportInv, Atomic!AtomicNext
<1>6. CASE UNCHANGED allVars
  BY <1>6 DEF allVars, importVars, vars, Atomic!atomicVars, CommittedBook,
              RowsAskedFor, NoBatchOpen, TheRow, WithStatus
<1>7. QED BY <1>1, <1>2, <1>3, <1>4, <1>5, <1>6 DEF ImportNext, Evaluate, Continue

\* Nothing is committed or asked for at first.
LEMMA InitIsAtomic == ImportInit => Atomic!AtomicInit
<1> SUFFICES ASSUME ImportInit PROVE Atomic!AtomicInit
  OBVIOUS
<1>1. \A q \in Requests : request[q].phase = "idle"
  BY DEF ImportInit, Idle
<1>2. NoBatchOpen
  BY <1>1 DEF NoBatchOpen
<1>3. \A t \in TxIds : CommittedBook[t] = NoLine
  BY <1>2 DEF ImportInit, CommittedBook
<1>4. \A q \in Requests : RowsAskedFor[q] = {}
  BY <1>1 DEF RowsAskedFor
<1>5. QED BY <1>3, <1>4 DEF Atomic!AtomicInit

(***************************************************************************)
(* All or nothing: however the requests interleave with each other and     *)
(* with the users, and whichever rows are refused, skipped or planned out, *)
(* a commit is one step that imports each asked row that is not imported   *)
(* yet, or none that imports anything (commitImportTransactions).          *)
(***************************************************************************)
THEOREM CommitsAreAtomic == ImportSpec => CommitIsAtomic
<1>1. ASSUME ImportInv, CommitInv, [ImportNext]_allVars
      PROVE  [Atomic!AtomicNext]_(Atomic!atomicVars)
  BY <1>1, StepsAreAtomic
<1>2. QED BY InitIsAtomic, ImportInvariant, CommitInvariant, <1>1, PTL
          DEF ImportSpec, CommitIsAtomic, Atomic!AtomicSpec
=============================================================================
