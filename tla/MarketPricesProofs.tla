------------------------- MODULE MarketPricesProofs -------------------------
(***************************************************************************)
(* What a manual refresh answers is true, for any assets, calendar, number *)
(* of syncs at once and number of failures.                                *)
(***************************************************************************)
EXTENDS MarketPricesProperties, FiniteSetTheorems, TLAPS

(***************************************************************************)
(* A finite set of numbers in order is a sequence of its elements: as many *)
(* of them are below an element as its place says, for every place.        *)
(***************************************************************************)
LEMMA InOrderOfNumbers ==
  ASSUME NEW S \in SUBSET Nat, IsFiniteSet(S)
  PROVE  /\ InOrder(S, LAMBDA x, y : x < y) \in Seq(S)
         /\ Elements(InOrder(S, LAMBDA x, y : x < y)) \subseteq S
<1> DEFINE below(e) == {f \in S : f < e}
           n == Cardinality(S)
           rank == [e \in S |-> Cardinality(below(e))]
<1>1. n \in Nat
  BY FS_CardinalityType
<1>2. ASSUME NEW e \in S
      PROVE  IsFiniteSet(below(e)) /\ Cardinality(below(e)) \in 0..(n - 1)
  <2>1. IsFiniteSet(below(e)) /\ Cardinality(below(e)) <= n
    BY FS_Subset
  <2>2. Cardinality(below(e)) \in Nat
    BY <2>1, FS_CardinalityType
  <2>3. e \notin below(e)
    OBVIOUS
  <2>4. Cardinality(below(e)) # n
    BY <2>3, FS_Subset
  <2>5. QED BY <1>1, <2>1, <2>2, <2>4
<1>3. ASSUME NEW e \in S, NEW g \in S, e < g
      PROVE  Cardinality(below(e)) < Cardinality(below(g))
  <2>1. /\ IsFiniteSet(below(e)) /\ IsFiniteSet(below(g))
        /\ Cardinality(below(e)) \in Nat /\ Cardinality(below(g)) \in Nat
    BY <1>1, <1>2
  <2>2. below(e) \in SUBSET below(g) /\ e \in below(g) /\ e \notin below(e)
    <3>1. e \in Nat /\ g \in Nat /\ \A f \in S : f \in Nat
      OBVIOUS
    <3>2. \A f \in S : f < e => f < g
      BY <1>3, <3>1
    <3>3. \A f \in below(e) : f \in below(g)
      BY <3>2
    <3>4. ~ (e < e)
      BY <3>1
    <3>5. QED BY <1>3, <3>3, <3>4
  <2>3. Cardinality(below(e)) <= Cardinality(below(g))
        /\ Cardinality(below(e)) # Cardinality(below(g))
    BY <2>1, <2>2, FS_Subset
  <2>4. QED BY <2>1, <2>3
<1>4. rank \in Injection(S, 0..(n - 1))
  <2>1. rank \in [S -> 0..(n - 1)]
    BY <1>2
  <2>2. ASSUME NEW e \in S, NEW g \in S, rank[e] = rank[g] PROVE e = g
    <3>1. Cardinality(below(e)) \in Nat /\ Cardinality(below(g)) \in Nat
      BY <1>2
    <3>2. ~(e < g) /\ ~(g < e)
      BY <1>3, <2>2, <3>1
    <3>3. QED BY <3>2
  <2>3. QED BY <2>1, <2>2 DEF Injection, IsInjective
<1>5. IsFiniteSet(0..(n - 1)) /\ Cardinality(0..(n - 1)) = n
  <2>1. 0 \in Int /\ n - 1 \in Int /\ (0 > n - 1 => n = 0) /\ (n - 1) - 0 + 1 = n
    BY <1>1
  <2> HIDE DEF n
  <2>2. QED BY <2>1, FS_Interval
<1>6. rank \in Surjection(S, 0..(n - 1))
  BY <1>4, <1>5, FS_Injection
<1>7. ASSUME NEW i \in 1..n
      PROVE  (CHOOSE e \in S : Cardinality(below(e)) = i - 1) \in S
  <2>1. i - 1 \in 0..(n - 1)
    BY <1>1
  <2>2. PICK e \in S : rank[e] = i - 1
    BY <1>6, <2>1 DEF Surjection
  <2>3. QED BY <2>2
<1>8. InOrder(S, LAMBDA x, y : x < y) \in [1..n -> S]
  BY <1>7 DEF InOrder
<1>9. \A q \in [1..n -> S] : q \in Seq(S) /\ Elements(q) \subseteq S
  BY <1>1 DEF Elements
<1>10. QED BY <1>8, <1>9

\* The assets that were ever held, by symbol.
LEMMA HeldAssetsInOrder ==
  ASSUME NEW market
  PROVE  /\ EverHeldAssets(market) \in Seq(Assets)
         /\ Elements(EverHeldAssets(market)) \subseteq MarketAssets(market)
<1> DEFINE S == {x \in MarketAssets(market) : firstBuy[x] # None}
<1>1. S \subseteq Assets /\ S \subseteq MarketAssets(market)
  BY AssetsAreNumbers DEF MarketAssets
<1>2. S \in SUBSET Nat /\ IsFiniteSet(S)
  BY <1>1, AssetsAreNumbers, FS_Subset
<1>3. EverHeldAssets(market) = InOrder(S, LAMBDA x, y : x < y)
  BY DEF EverHeldAssets
<1> HIDE DEF S
<1>4. EverHeldAssets(market) \in Seq(S) /\ Elements(EverHeldAssets(market)) \subseteq S
  BY <1>2, <1>3, InOrderOfNumbers
<1>5. Seq(S) \subseteq Seq(Assets)
  BY <1>1
<1>6. QED BY <1>1, <1>4, <1>5

(***************************************************************************)
(* Of the assets that are still to do, the first one leaves when its rows  *)
(* are stored.                                                             *)
(***************************************************************************)
LEMMA HeadLeaves ==
  ASSUME NEW S, NEW todo \in Seq(S), todo # <<>>
  PROVE  /\ Head(todo) \in S /\ Tail(todo) \in Seq(S)
         /\ Elements(todo) \subseteq {Head(todo)} \cup Elements(Tail(todo))
<1>1. Len(todo) \in Nat /\ Len(todo) > 0 /\ DOMAIN todo = 1..Len(todo)
  OBVIOUS
<1>2. ASSUME NEW i \in DOMAIN todo, i # 1 PROVE todo[i] \in Elements(Tail(todo))
  <2>1. i - 1 \in DOMAIN Tail(todo) /\ Tail(todo)[i - 1] = todo[i]
    BY <1>1, <1>2
  <2>2. QED BY <2>1 DEF Elements
<1>3. QED BY <1>1, <1>2 DEF Elements

-----------------------------------------------------------------------------
(***************************************************************************)
(* The inductive invariant.  A sync is idle, at work on a market or done,  *)
(* which only a refresh can be.  Of a refresh, what it has resolved is     *)
(* stored or still to do in its market, and stored in a market that ended  *)
(* with success; every market that failed is a fault.                      *)
(***************************************************************************)
Outcomes == {"success", "failed"}

JobRow(r) ==
  r \in [phase : {r.phase}, mode : {r.mode}, market : {r.market},
         since : {r.since}, todo : {r.todo}, assets : {r.assets},
         start : {r.start}, ended : {r.ended}]

Stored(j, market) ==
  \A x \in job[j].assets \cap MarketAssets(market) : Due(j, x) \subseteq prices[x]

StoredOrToDo(j, market) ==
  \A x \in job[j].assets \cap MarketAssets(market) :
    x \in Elements(job[j].todo) \/ Due(j, x) \subseteq prices[x]

RefreshAtWork(j) ==
  /\ job[j].todo \in Seq(Assets)
  /\ job[j].market \in Markets
  /\ StoredOrToDo(j, job[j].market)
  /\ job[j].market = "tw" =>
       job[j].ended = <<>> /\ job[j].assets \subseteq MarketAssets("tw")
  /\ job[j].market = "us" =>
       \E outcome \in Outcomes :
         /\ job[j].ended = <<outcome>>
         /\ outcome = "success" => Stored(j, "tw")
         /\ outcome = "failed" => faults >= 1

RefreshDone(j) ==
  \E tw, us \in Outcomes :
    /\ job[j].ended = <<tw, us>>
    /\ tw = "success" => Stored(j, "tw")
    /\ us = "success" => Stored(j, "us")
    /\ tw = "failed" /\ us = "failed" => faults >= 2

JobInv(j) ==
  /\ JobRow(job[j])
  /\ job[j].phase \in {"idle", "sync", "done"}
  /\ job[j].phase # "idle" => job[j].since \in 0..clock
  /\ job[j].mode = "refresh" => job[j].assets \subseteq Assets
  /\ job[j].phase = "sync" /\ job[j].mode = "refresh" => RefreshAtWork(j)
  /\ job[j].phase = "done" => job[j].mode = "refresh" /\ RefreshDone(j)

PricesInv ==
  /\ clock \in Nat /\ faults \in Nat
  /\ prices \in [Assets -> SUBSET Int]
  /\ job = [j \in Jobs |-> job[j]]
  /\ \A j \in Jobs : JobInv(j)

-----------------------------------------------------------------------------
(***************************************************************************)
(* Nothing that other syncs, users or the clock do spoils a sync: rows are *)
(* never deleted, and the clock and the count of faults only grow.         *)
(***************************************************************************)
Grows ==
  /\ clock' \in Nat /\ clock <= clock'
  /\ faults' \in Nat /\ faults <= faults'
  /\ prices' \in [Assets -> SUBSET Int]
  /\ \A x \in Assets : prices[x] \subseteq prices'[x]

\* A sync that does not move keeps its part of the invariant.
LEMMA OtherSyncsAreKept ==
  ASSUME PricesInv, Grows, NEW p \in Jobs, job'[p] = job[p]
  PROVE  JobInv(p)'
<1> USE DEF PricesInv, Grows
<1>1. \A x : Due(p, x)' = Due(p, x)
  BY DEF Due
<1>2. \A market : MarketAssets(market)' = MarketAssets(market)
                  /\ MarketAssets(market) \subseteq Assets
  BY AssetsAreNumbers DEF MarketAssets
<1>3. \A market : Stored(p, market) => Stored(p, market)'
  BY <1>1, <1>2 DEF Stored
<1>4. \A market : StoredOrToDo(p, market) => StoredOrToDo(p, market)'
  BY <1>1, <1>2 DEF StoredOrToDo
<1>5. RefreshAtWork(p) => RefreshAtWork(p)'
  <2>1. faults >= 1 => faults' >= 1
    OBVIOUS
  <2>2. QED BY <1>2, <1>3, <1>4, <2>1 DEF RefreshAtWork
<1>6. RefreshDone(p) => RefreshDone(p)'
  <2>1. faults >= 2 => faults' >= 2
    OBVIOUS
  <2>2. QED BY <1>3, <2>1 DEF RefreshDone
<1>7. job[p].since \in 0..clock => job[p].since \in 0..clock'
  OBVIOUS
<1>8. QED BY <1>5, <1>6, <1>7 DEF JobInv

(***************************************************************************)
(* So a step of one sync keeps the invariant when it keeps it of that one. *)
(***************************************************************************)
LEMMA OneSyncMoves ==
  ASSUME PricesInv, Grows, NEW j \in Jobs, NEW r,
         job' = [job EXCEPT ![j] = r], job'[j] = r => JobInv(j)'
  PROVE  PricesInv'
<1>1. /\ job' = [p \in Jobs |-> job'[p]]
      /\ job'[j] = r
      /\ \A p \in Jobs \ {j} : job'[p] = job[p]
  BY DEF PricesInv
<1>2. \A p \in Jobs : JobInv(p)'
  BY <1>1, OtherSyncsAreKept
<1>3. QED BY <1>1, <1>2 DEF PricesInv, Grows

\* The invariant holds at first.
LEMMA PricesInitial == PricesInit => PricesInv
<1> SUFFICES ASSUME PricesInit PROVE PricesInv
  OBVIOUS
<1>1. /\ clock \in Nat /\ faults \in Nat
      /\ prices \in [Assets -> SUBSET Int]
      /\ job = [j \in Jobs |-> job[j]]
  BY DEF PricesInit
<1>2. ASSUME NEW j \in Jobs PROVE JobInv(j)
  <2>1. job[j] = Idle
    BY DEF PricesInit
  <2>2. /\ JobRow(Idle) /\ Idle.phase = "idle" /\ Idle.assets = {}
    BY DEF JobRow, Idle
  <2>3. QED BY <2>1, <2>2 DEF JobInv
<1>3. QED BY <1>1, <1>2 DEF PricesInv

\* A sync begins; a refresh does so with the Taiwan market.
LEMMA BeginKeeps ==
  ASSUME PricesInv, NEW j \in Jobs, NEW mode, NEW market, NEW todo, NEW start,
         mode = "refresh" => /\ market = "tw" /\ todo \in Seq(Assets)
                             /\ Elements(todo) \subseteq MarketAssets("tw"),
         Begin(j, mode, market, todo, start)
  PROVE  PricesInv'
<1> DEFINE r == [phase |-> "sync", mode |-> mode, market |-> market,
                 since |-> clock, todo |-> todo, assets |-> Elements(todo),
                 start |-> start, ended |-> <<>>]
<1>1. job' = [job EXCEPT ![j] = r] /\ UNCHANGED <<clock, firstBuy, prices, faults>>
  BY DEF Begin
<1>2. Grows
  BY <1>1 DEF Grows, PricesInv
<1>3. ASSUME job'[j] = r PROVE JobInv(j)'
  <2>1. mode = "refresh" => RefreshAtWork(j)'
    BY <1>3 DEF RefreshAtWork, StoredOrToDo, Markets, MarketAssets
  <2>2. clock \in Nat /\ clock' = clock
    BY <1>1 DEF PricesInv
  <2>3. mode = "refresh" => Elements(todo) \subseteq Assets
    BY AssetsAreNumbers DEF MarketAssets
  <2>4. QED BY <1>3, <2>1, <2>2, <2>3 DEF JobInv, JobRow
<1> HIDE DEF r
<1>4. QED BY <1>1, <1>2, <1>3, OneSyncMoves

\* The next asset is stored: what was due when the sync began is published
\* and in its window.
LEMMA FetchKeeps ==
  ASSUME PricesInv, NEW j \in Jobs, FetchNext(j)
  PROVE  PricesInv'
<1> DEFINE x == Head(job[j].todo)
           r == [job[j] EXCEPT !.todo = Tail(@)]
<1>1. /\ job[j].phase = "sync" /\ job[j].todo # <<>>
      /\ prices' = [prices EXCEPT ![x] = @ \cup Answer(j, x)]
      /\ job' = [job EXCEPT ![j] = r]
      /\ UNCHANGED <<clock, firstBuy, faults>>
  BY DEF FetchNext
<1>2. Grows
  <2>1. \A y \in Assets : Answer(j, y) \subseteq Int
    BY DaysAreNumbers DEF Answer, Published
  <2> HIDE DEF x
  <2>2. /\ \A y \in Assets : y # x => prices'[y] = prices[y]
        /\ \A y \in Assets : y = x => prices'[y] = prices[y] \cup Answer(j, y)
        /\ prices' = [y \in Assets |-> prices'[y]]
        /\ \A y \in Assets : prices[y] \subseteq Int
    BY <1>1 DEF PricesInv
  <2>3. \A y \in Assets : prices'[y] \subseteq Int /\ prices[y] \subseteq prices'[y]
    BY <2>1, <2>2
  <2>4. prices' \in [Assets -> SUBSET Int]
    BY <2>2, <2>3
  <2>5. QED BY <1>1, <2>3, <2>4 DEF Grows, PricesInv
<1>3. ASSUME job'[j] = r PROVE JobInv(j)'
  <2>0. JobInv(j) /\ JobRow(job[j])
    BY DEF PricesInv, JobInv
  <2>1. /\ JobRow(r)
        /\ r.phase = "sync" /\ r.mode = job[j].mode /\ r.market = job[j].market
        /\ r.since = job[j].since /\ r.todo = Tail(job[j].todo)
        /\ r.assets = job[j].assets /\ r.start = job[j].start
        /\ r.ended = job[j].ended
    BY <1>1, <2>0 DEF JobRow
  <2>2. ASSUME job[j].mode = "refresh" PROVE RefreshAtWork(j)'
    <3>1. RefreshAtWork(j)
      BY <1>1, <2>0, <2>2 DEF JobInv
    <3>2. /\ x \in Assets /\ Tail(job[j].todo) \in Seq(Assets)
          /\ Elements(job[j].todo) \subseteq {x} \cup Elements(Tail(job[j].todo))
      BY <1>1, <3>1, HeadLeaves DEF RefreshAtWork
    <3>3. \A y : Due(j, y)' = Due(j, y)
      BY <1>3, <2>1 DEF Due
    <3>4. Due(j, x) \subseteq prices'[x]
      <4>1. ASSUME NEW d \in Due(j, x) PROVE d \in Answer(j, x)
        <5>1. /\ d \in Nat /\ job[j].since \in Nat /\ clock \in Nat
              /\ 2 * d + 1 <= job[j].since /\ job[j].since <= clock
          BY <1>1, <2>0, <3>2, <4>1, DaysAreNumbers DEF Due, JobInv, PricesInv
        <5>2. 2 * d + 1 <= clock /\ d <= job[j].since \div 2
          BY <5>1
        <5>3. QED BY <4>1, <5>2 DEF Due, Answer, Published
      <4>2. Answer(j, x) \subseteq prices'[x]
        BY <1>1, <3>2 DEF PricesInv
      <4>3. QED BY <4>1, <4>2
    <3>5. \A y \in Assets : prices[y] \subseteq prices'[y]
      BY <1>2 DEF Grows
    <3>6. \A market : MarketAssets(market) \subseteq Assets
      BY AssetsAreNumbers DEF MarketAssets
    <3>7. StoredOrToDo(j, job[j].market) => StoredOrToDo(j, job[j].market)'
      <4> SUFFICES ASSUME StoredOrToDo(j, job[j].market),
                          NEW y \in job[j].assets \cap MarketAssets(job[j].market)
                   PROVE  y \in Elements(Tail(job[j].todo))
                          \/ Due(j, y) \subseteq prices'[y]
        BY <1>3, <2>1, <3>3 DEF StoredOrToDo, MarketAssets
      <4>1. y \in Assets /\ (y \in Elements(job[j].todo) \/ Due(j, y) \subseteq prices[y])
        BY <3>6 DEF StoredOrToDo
      <4>2. QED BY <3>2, <3>4, <3>5, <4>1
    <3>8. (Stored(j, "tw") => Stored(j, "tw")')
          /\ \A market : MarketAssets(market)' = MarketAssets(market)
      BY <1>3, <2>1, <3>3, <3>5, <3>6 DEF Stored, MarketAssets
    <3> HIDE DEF x
    <3>9. QED BY <1>1, <1>3, <2>1, <3>1, <3>2, <3>7, <3>8 DEF RefreshAtWork
  <2> HIDE DEF x, r
  <2>3. QED BY <1>1, <1>3, <2>0, <2>1, <2>2 DEF JobInv
<1> HIDE DEF x, r
<1>4. QED BY <1>1, <1>2, <1>3, OneSyncMoves

\* The outcome of the second market after that of the first.
LEMMA AppendToOne == \A a, b : Append(<<a>>, b) = <<a, b>>
<1> SUFFICES ASSUME NEW a, NEW b PROVE Append(<<a>>, b) = <<a, b>>
  OBVIOUS
<1> DEFINE S == {a, b}
           s == Append(<<a>>, b)
<1>1. <<a>> \in Seq(S) /\ b \in S /\ Len(<<a>>) = 1 /\ <<a>>[1] = a
  OBVIOUS
<1>2. s \in [1..2 -> S] /\ s[1] = a /\ s[2] = b
  <2>1. s \in Seq(S) /\ Len(s) = 2 /\ s[2] = b /\ s[1] = <<a>>[1]
    BY <1>1
  <2> HIDE DEF s, S
  <2>2. QED BY <1>1, <2>1
<1>3. <<a, b>> \in [1..2 -> S] /\ <<a, b>>[1] = a /\ <<a, b>>[2] = b
  OBVIOUS
<1> HIDE DEF s
<1>4. \A i \in 1..2 : s[i] = <<a, b>>[i]
  BY <1>2, <1>3
<1>5. s = <<a, b>>
  BY <1>2, <1>3, <1>4
<1>6. QED BY <1>5 DEF s

(***************************************************************************)
(* The end of a market, with nothing left to do or with one fault more.    *)
(***************************************************************************)
LEMMA EndKeeps ==
  ASSUME PricesInv, Grows, NEW j \in Jobs, NEW outcome \in Outcomes,
         job[j].phase = "sync", EndMarket(j, outcome),
         outcome = "success" => job[j].todo = <<>>,
         outcome = "failed" => faults' = faults + 1
  PROVE  PricesInv'
<1> DEFINE held == EverHeldAssets("us")
           ended == Append(job[j].ended, outcome)
           next == [job[j] EXCEPT !.market = "us", !.todo = held, !.ended = ended,
                                  !.assets = job[j].assets \cup Elements(held)]
           last == [job[j] EXCEPT !.phase = "done", !.todo = <<>>, !.ended = ended]
<1>0. JobInv(j) /\ JobRow(job[j]) /\ faults \in Nat
  BY DEF PricesInv, JobInv
<1>1. \A x : prices[x] \subseteq prices'[x] \/ x \notin Assets
  BY DEF Grows
<1>2. \A market : MarketAssets(market)' = MarketAssets(market)
                  /\ MarketAssets(market) \subseteq Assets
  BY AssetsAreNumbers DEF MarketAssets
<1>3. job[j].since \in 0..clock => job[j].since \in 0..clock'
  BY DEF PricesInv, Grows
<1>4. CASE job[j].mode # "refresh"
  <2>1. job' = [job EXCEPT ![j] = Idle]
    BY <1>4 DEF EndMarket, PricesInv
  <2>2. JobRow(Idle) /\ Idle.phase = "idle" /\ Idle.assets = {}
    BY DEF JobRow, Idle
  <2>3. job'[j] = Idle => JobInv(j)'
    BY <2>2 DEF JobInv
  <2>4. QED BY <2>1, <2>3, OneSyncMoves
<1>5. CASE job[j].mode = "refresh" /\ job[j].market = "tw"
  <2>1. job' = [job EXCEPT ![j] = next]
    BY <1>5 DEF EndMarket
  <2>2. /\ RefreshAtWork(j)
        /\ StoredOrToDo(j, "tw") /\ job[j].assets \subseteq MarketAssets("tw")
        /\ job[j].ended = <<>>
    BY <1>0, <1>5 DEF JobInv, RefreshAtWork
  <2>3. ended = <<outcome>>
    BY <2>2
  <2>4. /\ JobRow(next)
        /\ next.phase = "sync" /\ next.mode = "refresh" /\ next.market = "us"
        /\ next.since = job[j].since /\ next.todo = held
        /\ next.assets = job[j].assets \cup Elements(held)
        /\ next.start = job[j].start /\ next.ended = ended
    BY <1>0, <1>5 DEF JobRow
  <2>5. held \in Seq(Assets) /\ Elements(held) \subseteq MarketAssets("us")
    BY HeldAssetsInOrder
  <2>6. MarketAssets("us") \cap MarketAssets("tw") = {}
    BY DEF MarketAssets
  <2> HIDE DEF held, ended, next
  <2>7. ASSUME job'[j] = next PROVE JobInv(j)'
    <3>1. \A x : Due(j, x)' = Due(j, x)
      BY <2>4, <2>7 DEF Due
    <3>2. StoredOrToDo(j, "us")'
      BY <1>2, <2>2, <2>4, <2>6, <2>7 DEF StoredOrToDo
    <3>3. outcome = "success" => Stored(j, "tw")'
      <4> SUFFICES ASSUME outcome = "success",
                          NEW x \in next.assets \cap MarketAssets("tw")
                   PROVE  Due(j, x) \subseteq prices'[x]
        BY <1>2, <2>7, <3>1 DEF Stored
      <4>1. x \in job[j].assets \cap MarketAssets("tw") /\ x \in Assets
        BY <1>2, <2>4, <2>5, <2>6
      <4>2. Elements(job[j].todo) = {}
        BY DEF Elements
      <4>3. Due(j, x) \subseteq prices[x]
        BY <2>2, <4>1, <4>2 DEF StoredOrToDo
      <4>4. QED BY <1>1, <4>1, <4>3
    <3>4. outcome = "failed" => faults' >= 1
      BY <1>0
    <3>5. RefreshAtWork(j)'
      <4>1. job'[j].todo \in Seq(Assets) /\ job'[j].market = "us" /\ "us" \in Markets
        BY <2>4, <2>5, <2>7 DEF Markets
      <4>2. job'[j].ended = <<outcome>>
        BY <2>3, <2>4, <2>7
      <4>3. QED BY <3>2, <3>3, <3>4, <4>1, <4>2 DEF RefreshAtWork
    <3>6. next.assets \subseteq Assets
      BY <1>2, <2>2, <2>4, <2>5
    <3>7. QED BY <1>0, <1>3, <2>4, <2>7, <3>5, <3>6 DEF JobInv
  <2>8. QED BY <2>1, <2>7, OneSyncMoves
<1>6. CASE job[j].mode = "refresh" /\ job[j].market # "tw"
  <2>1. job' = [job EXCEPT ![j] = last]
    BY <1>6 DEF EndMarket, PricesInv
  <2>2. RefreshAtWork(j) /\ job[j].market = "us" /\ StoredOrToDo(j, "us")
    BY <1>0, <1>6 DEF JobInv, RefreshAtWork, Markets
  <2>3. PICK tw \in Outcomes : /\ job[j].ended = <<tw>>
                               /\ tw = "success" => Stored(j, "tw")
                               /\ tw = "failed" => faults >= 1
    BY <2>2 DEF RefreshAtWork
  <2>4. ended = <<tw, outcome>>
    BY <2>3, AppendToOne
  <2>5. /\ JobRow(last)
        /\ last.phase = "done" /\ last.mode = "refresh"
        /\ last.since = job[j].since /\ last.assets = job[j].assets
        /\ last.start = job[j].start /\ last.ended = ended
    BY <1>0, <1>6 DEF JobRow
  <2> HIDE DEF held, ended, last
  <2>6. ASSUME job'[j] = last PROVE JobInv(j)'
    <3>1. \A x : Due(j, x)' = Due(j, x)
      BY <2>5, <2>6 DEF Due
    <3>2. Stored(j, "tw") => Stored(j, "tw")'
      BY <1>1, <1>2, <2>5, <2>6, <3>1 DEF Stored
    <3>3. outcome = "success" => Stored(j, "us")'
      <4> SUFFICES ASSUME outcome = "success",
                          NEW x \in job[j].assets \cap MarketAssets("us")
                   PROVE  Due(j, x) \subseteq prices'[x]
        BY <1>2, <2>5, <2>6, <3>1 DEF Stored
      <4>1. Elements(job[j].todo) = {}
        BY DEF Elements
      <4>2. Due(j, x) \subseteq prices[x] /\ x \in Assets
        BY <1>2, <2>2, <4>1 DEF StoredOrToDo
      <4>3. QED BY <1>1, <4>2
    <3>4. tw = "failed" /\ outcome = "failed" => faults' >= 2
      BY <1>0, <2>3
    <3>5. RefreshDone(j)'
      BY <2>3, <2>4, <2>5, <2>6, <3>2, <3>3, <3>4 DEF RefreshDone
    <3>6. job[j].assets \subseteq Assets
      BY <1>0, <1>6 DEF JobInv
    <3>7. QED BY <1>0, <1>3, <2>5, <2>6, <3>5, <3>6 DEF JobInv
  <2>7. QED BY <2>1, <2>6, OneSyncMoves
<1>7. QED BY <1>4, <1>5, <1>6

(***************************************************************************)
(* A sync that ends in the middle of an asset has stored some of its rows. *)
(***************************************************************************)
LEMMA WriteSomeGrows ==
  ASSUME PricesInv, NEW j \in Jobs, WriteSome(j), faults' = faults + 1,
         UNCHANGED clock
  PROVE  Grows
<1> DEFINE x == Head(job[j].todo)
           part(last) == {d \in Answer(j, x) : d <= last}
<1>1. PICK last \in 0..LastDay :
        prices' = IF job[j].todo = <<>> THEN prices
                  ELSE [prices EXCEPT ![x] = @ \cup part(last)]
  BY DEF WriteSome
<1>2. \A y \in Assets : y = x => part(last) \subseteq Int
  BY DaysAreNumbers DEF Answer, Published
<1>3. CASE job[j].todo = <<>>
  BY <1>1, <1>3 DEF Grows, PricesInv
<1>4. CASE job[j].todo # <<>>
  <2> HIDE DEF x, part
  <2>1. /\ \A y \in Assets : y # x => prices'[y] = prices[y]
        /\ \A y \in Assets : y = x => prices'[y] = prices[y] \cup part(last)
        /\ prices' = [y \in Assets |-> prices'[y]]
        /\ \A y \in Assets : prices[y] \subseteq Int
    BY <1>1, <1>4 DEF PricesInv
  <2>2. \A y \in Assets : prices'[y] \subseteq Int /\ prices[y] \subseteq prices'[y]
    BY <1>2, <2>1
  <2>3. prices' \in [Assets -> SUBSET Int]
    BY <2>1, <2>2
  <2>4. QED BY <2>2, <2>3 DEF Grows, PricesInv
<1>5. QED BY <1>3, <1>4

\* A sync that is over promises nothing.
LEMMA BecomesIdle ==
  ASSUME PricesInv, Grows, NEW j \in Jobs, job' = [job EXCEPT ![j] = Idle]
  PROVE  PricesInv'
<1>1. JobRow(Idle) /\ Idle.phase = "idle" /\ Idle.assets = {}
  BY DEF JobRow, Idle
<1>2. job'[j] = Idle => JobInv(j)'
  BY <1>1 DEF JobInv
<1>3. QED BY <1>2, OneSyncMoves

\* Every step keeps the invariant.
LEMMA PricesInductive == PricesInv /\ [PricesNext]_priceVars => PricesInv'
<1> SUFFICES ASSUME PricesInv, [PricesNext]_priceVars PROVE PricesInv'
  OBVIOUS
<1>0. UNCHANGED <<clock, prices, faults>> => Grows
  BY DEF Grows, PricesInv
<1>1. ASSUME NEW j \in Jobs, NEW market \in Markets,
             StartDaily(j, market) \/ StartBackfill(j, market)
      PROVE  PricesInv'
  BY <1>1, BeginKeeps DEF StartDaily, StartBackfill
<1>2. ASSUME NEW j \in Jobs, StartRefresh(j) PROVE PricesInv'
  BY <1>2, BeginKeeps, HeldAssetsInOrder DEF StartRefresh
<1>3. ASSUME NEW j \in Jobs, EndSync(j) PROVE PricesInv'
  <2>1. Grows /\ "success" \in Outcomes /\ "success" # "failed"
    BY <1>0, <1>3 DEF EndSync, Outcomes
  <2>2. QED BY <1>3, <2>1, EndKeeps DEF EndSync
<1>4. ASSUME NEW j \in Jobs, AnswerRefresh(j) PROVE PricesInv'
  BY <1>0, <1>4, BecomesIdle DEF AnswerRefresh
<1>5. ASSUME NEW j \in Jobs, FetchFails(j) PROVE PricesInv'
  <2>1. Grows /\ "failed" \in Outcomes /\ "success" # "failed"
    BY <1>5, WriteSomeGrows DEF FetchFails, Outcomes
  <2>2. QED BY <1>5, <2>1, EndKeeps DEF FetchFails
<1>6. ASSUME NEW j \in Jobs, Interrupt(j) PROVE PricesInv'
  <2>1. Grows
    BY <1>6, WriteSomeGrows DEF Interrupt
  <2>2. QED BY <1>6, <2>1, BecomesIdle DEF Interrupt
<1>7. ASSUME Grows, UNCHANGED job PROVE PricesInv'
  <2>1. \A p \in Jobs : JobInv(p)'
    BY <1>7, OtherSyncsAreKept
  <2>2. QED BY <1>7, <2>1 DEF PricesInv, Grows
<1>8. ASSUME NEW x \in Assets, NEW d, ChangeFirstBuy(x, d) PROVE PricesInv'
  BY <1>0, <1>7, <1>8 DEF ChangeFirstBuy
<1>9. ASSUME Tick PROVE PricesInv'
  <2>1. Grows
    BY <1>9 DEF Tick, Grows, PricesInv
  <2>2. QED BY <1>7, <1>9, <2>1 DEF Tick
<1>10. ASSUME UNCHANGED priceVars PROVE PricesInv'
  BY <1>0, <1>7, <1>10 DEF priceVars
<1>11. QED
  BY <1>1, <1>2, <1>3, <1>4, <1>5, <1>6, <1>8, <1>9, <1>10, FetchKeeps
     DEF PricesNext, SyncStep

-----------------------------------------------------------------------------
(***************************************************************************)
(* A refresh answers the truth: "success" when both markets ended so, and  *)
(* then everything it has resolved is stored; "failed" only when each of   *)
(* the markets has met a failure.                                          *)
(***************************************************************************)
LEMMA AnswersAreTrue == PricesInv => RefreshStatusTruthful
<1> SUFFICES ASSUME PricesInv, NEW j \in Jobs, job[j].phase = "done"
             PROVE  CASE OverallStatus(job[j].ended) = "success" ->
                           \A x \in job[j].assets : Due(j, x) \subseteq prices[x]
                      [] OverallStatus(job[j].ended) = "failed" -> faults >= 2
                      [] OTHER -> \E i \in {1, 2} : \A x \in job[j].assets :
                           x \in MarketAssets(IF i = 1 THEN "tw" ELSE "us")
                             => Due(j, x) \subseteq prices[x]
  BY DEF RefreshStatusTruthful
<1>1. PICK tw \in Outcomes, us \in Outcomes :
        /\ job[j].ended = <<tw, us>>
        /\ tw = "success" => Stored(j, "tw")
        /\ us = "success" => Stored(j, "us")
        /\ tw = "failed" /\ us = "failed" => faults >= 2
  BY DEF PricesInv, JobInv, RefreshDone
<1>2. /\ tw = "success" /\ us = "success" => OverallStatus(job[j].ended) = "success"
      /\ tw = "failed" /\ us = "failed" => OverallStatus(job[j].ended) = "failed"
      /\ tw # us => OverallStatus(job[j].ended) = "partial_success"
  BY <1>1 DEF OverallStatus, Outcomes
<1>3. CASE tw = "success" /\ us = "success"
  <2>1. job[j].assets \subseteq Assets
    BY DEF PricesInv, JobInv
  <2>2. \A x \in job[j].assets : Due(j, x) \subseteq prices[x]
    BY <1>1, <1>3, <2>1 DEF Stored, MarketAssets
  <2>3. QED BY <1>2, <1>3, <2>2
<1>4. CASE tw = "failed" /\ us = "failed"
  BY <1>1, <1>2, <1>4
<1>5. CASE tw # us
  <2>1. tw = "success" \/ us = "success"
    BY <1>5 DEF Outcomes
  <2>2. \E i \in {1, 2} : \A x \in job[j].assets :
          x \in MarketAssets(IF i = 1 THEN "tw" ELSE "us")
            => Due(j, x) \subseteq prices[x]
    BY <1>1, <2>1 DEF Stored
  <2>3. QED BY <1>2, <1>5, <2>2
<1>6. QED BY <1>3, <1>4, <1>5 DEF Outcomes

\* So does every refresh, next to other syncs, failures, crashes and buys.
THEOREM RefreshTellsTheTruth == PricesSpec => []RefreshStatusTruthful
<1>1. QED BY PricesInitial, PricesInductive, AnswersAreTrue, PTL DEF PricesSpec
=============================================================================
