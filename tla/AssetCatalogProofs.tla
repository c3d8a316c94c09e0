------------------------- MODULE AssetCatalogProofs -------------------------
(***************************************************************************)
(* The asset catalog for any number of requests, any requests and any      *)
(* catalogs: aliases have assets, symbols are unique, classes fit types, a *)
(* name keeps its asset, and a dry run counts what the run does.           *)
(***************************************************************************)
EXTENDS AssetCatalog, FiniteSetTheorems, WellFoundedInduction, TLAPS

(***************************************************************************)
(* Nonempty sets of the first numbers have a greatest one, and nonempty    *)
(* sets of numbers a least one.                                            *)
(***************************************************************************)
LEMMA LeastNumber ==
  ASSUME NEW S \in SUBSET Nat, S # {}
  PROVE  \E k \in S : \A m \in S : k <= m
<1>1. PICK k \in S : \A m \in S : ~ (<<m, k>> \in OpToRel(<, Nat))
  BY NatLessThanWellFounded, WFMin
<1>2. ASSUME NEW m \in S PROVE k <= m
  <2>1. k \in Nat /\ m \in Nat /\ ~ (<<m, k>> \in OpToRel(<, Nat))
    BY <1>1
  <2>2. QED BY <2>1 DEF OpToRel
<1>3. QED BY <1>2

\* The greatest of some of the first n numbers.
LEMMA GreatestNumber ==
  ASSUME NEW n \in Nat, NEW s \in SUBSET (1..n), s # {}
  PROVE  Max(s) \in s /\ \A m \in s : m <= Max(s)
<1> DEFINE T == {n - m : m \in s}
<1>1. T \in SUBSET Nat /\ T # {}
  <2>1. \A m \in s : n - m \in Nat
    OBVIOUS
  <2>2. QED BY <2>1
<1>2. PICK x \in T : \A y \in T : x <= y
  <2> HIDE DEF T
  <2>1. QED BY <1>1, LeastNumber
<1>3. PICK k \in s : x = n - k
  BY <1>2
<1>4. ASSUME NEW m \in s PROVE k >= m
  <2>1. n - m \in T /\ k \in 1..n /\ m \in 1..n
    OBVIOUS
  <2> HIDE DEF T
  <2>2. n - k <= n - m
    BY <1>2, <1>3, <2>1
  <2>3. QED BY <2>1, <2>2
<1>5. QED BY <1>3, <1>4 DEF Max

-----------------------------------------------------------------------------
(***************************************************************************)
(* Folds.  FoldLeft is a function on the sets of places, defined by its    *)
(* greatest place: that there is such a function when every step stays in  *)
(* a set T, and that each such function stays in T.                        *)
(***************************************************************************)
Folds(g, n, base, step) ==
  \A s \in SUBSET (1..n) :
    g[s] = IF s = {} THEN base ELSE step[Max(s)][g[s \ {Max(s)}]]

\* There is a function that folds in a set T.
LEMMA FoldExists ==
  ASSUME NEW n \in Nat, NEW T, NEW base \in T, NEW step \in [1..n -> [T -> T]]
  PROVE  \E g \in [SUBSET (1..n) -> T] : Folds(g, n, base, step)
<1> USE DEF Folds
<1> DEFINE Fold(k, g) == \A s \in SUBSET (1..k) :
             g[s] = IF s = {} THEN base ELSE step[Max(s)][g[s \ {Max(s)}]]
           Bad == {k \in 0..n : ~ \E g \in [SUBSET (1..k) -> T] : Fold(k, g)}
<1>1. SUFFICES ASSUME Bad # {} PROVE FALSE
  <2>1. ASSUME n \notin Bad PROVE \E g \in [SUBSET (1..n) -> T] : Fold(n, g)
    <3> HIDE DEF Fold
    <3>1. n \in 0..n
      OBVIOUS
    <3>2. QED BY <2>1, <3>1
  <2>2. n \in Bad => Bad # {}
    OBVIOUS
  <2> HIDE DEF Bad
  <2>3. QED BY <2>1, <2>2
<1>2. PICK k \in Bad : \A m \in Bad : k <= m
  <2>1. Bad \in SUBSET Nat
    OBVIOUS
  <2> HIDE DEF Bad
  <2>2. QED BY <1>1, <2>1, LeastNumber
<1>3. CASE k = 0
  <2> DEFINE g == [s \in SUBSET (1..k) |-> base]
  <2>1. SUBSET (1..k) = {{}}
    BY <1>3
  <2>2. g \in [SUBSET (1..k) -> T] /\ Fold(k, g)
    BY <2>1
  <2>3. QED BY <1>2, <2>2
<1>4. CASE k # 0
  <2>1. k - 1 \in 0..n /\ k \in 1..n /\ k - 1 \notin Bad
    <3>1. k \in 0..n
      BY <1>2
    <3>2. k - 1 \in 0..n /\ k \in 1..n /\ ~ (k <= k - 1)
      BY <1>4, <3>1
    <3> HIDE DEF Bad
    <3>3. QED BY <1>2, <3>2
  <2>2. PICK g \in [SUBSET (1..(k - 1)) -> T] : Fold(k - 1, g)
    BY <2>1
  <2> DEFINE h == [s \in SUBSET (1..k) |->
                     IF k \in s THEN step[k][g[s \ {k}]] ELSE g[s]]
  <2>3. ASSUME NEW s \in SUBSET (1..k)
        PROVE  /\ k \notin s => s \in SUBSET (1..(k - 1))
               /\ s \ {k} \in SUBSET (1..(k - 1))
    BY <2>1
  <2>4. h \in [SUBSET (1..k) -> T]
    <3>1. ASSUME NEW s \in SUBSET (1..k) PROVE h[s] \in T
      <4>1. CASE k \in s
        BY <2>1, <2>3, <4>1
      <4>2. CASE k \notin s
        BY <2>3, <4>2
      <4>3. QED BY <4>1, <4>2
    <3>2. QED BY <3>1
  <2>5. ASSUME NEW s \in SUBSET (1..k)
        PROVE  h[s] = IF s = {} THEN base ELSE step[Max(s)][h[s \ {Max(s)}]]
    <3>1. CASE k \in s
      <4>1. Max(s) = k
        <5>0. k \in Nat /\ s # {}
          BY <2>1, <3>1
        <5>1. Max(s) \in s /\ k <= Max(s) /\ k \in Nat
          BY <3>1, <5>0, GreatestNumber
        <5>2. Max(s) \in 1..k
          BY <5>1
        <5>3. QED BY <5>1, <5>2
      <4>2. h[s \ {k}] = g[s \ {k}]
        OBVIOUS
      <4>3. QED BY <3>1, <4>1, <4>2
    <3>2. CASE k \notin s
      <4>1. h[s] = g[s] /\ s \in SUBSET (1..(k - 1))
        BY <2>3, <3>2
      <4>2. g[s] = IF s = {} THEN base ELSE step[Max(s)][g[s \ {Max(s)}]]
        BY <2>2, <4>1
      <4>3. h[s \ {Max(s)}] = g[s \ {Max(s)}]
        BY <3>2
      <4>4. QED BY <4>1, <4>2, <4>3
    <3>3. QED BY <3>1, <3>2
  <2> HIDE DEF h
  <2>6. QED BY <1>2, <2>4, <2>5
<1>5. QED BY <1>3, <1>4

\* Each function that folds in T stays there.
LEMMA FoldStays ==
  ASSUME NEW n \in Nat, NEW T, NEW g, g[{}] \in T,
         \A s \in (SUBSET (1..n)) \ {{}} : g[s \ {Max(s)}] \in T => g[s] \in T
  PROVE  g[1..n] \in T
<1> DEFINE Bad == {k \in 0..n : \E s \in SUBSET (1..k) : g[s] \notin T}
<1>1. ASSUME Bad # {} PROVE FALSE
  <2>1. PICK k \in Bad : \A m \in Bad : k <= m
    <3>1. Bad \in SUBSET Nat
      OBVIOUS
    <3> HIDE DEF Bad
    <3>2. QED BY <1>1, <3>1, LeastNumber
  <2>2. PICK s \in SUBSET (1..k) : g[s] \notin T
    BY <2>1
  <2>3. s # {} /\ s \in SUBSET (1..n) /\ k \in 0..n
    <3>1. k \in 0..n
      BY <2>1
    <3>2. 1..k \subseteq 1..n /\ s \in SUBSET (1..k)
      BY <3>1
    <3>3. s # {}
      BY <2>2
    <3>4. QED BY <3>1, <3>2, <3>3
  <2>4. Max(s) \in s /\ \A m \in s : m <= Max(s)
    BY <2>3, GreatestNumber
  <2>5. Max(s) - 1 \in 0..n /\ Max(s) - 1 < k
        /\ s \ {Max(s)} \in SUBSET (1..(Max(s) - 1))
    <3>1. Max(s) \in 1..k /\ k <= n
      <4>1. Max(s) \in 1..k
        BY <2>4
      <4>2. k <= n
        BY <2>3
      <4>3. QED BY <4>1, <4>2
    <3>2. Max(s) - 1 \in 0..n /\ Max(s) - 1 < k /\ Max(s) \in Nat
      BY <2>3, <3>1
    <3>3. ASSUME NEW m \in s \ {Max(s)} PROVE m \in 1..(Max(s) - 1)
      <4>1. m \in 1..k /\ m <= Max(s) /\ m # Max(s)
        BY <2>2, <2>4
      <4>2. QED BY <3>1, <4>1
    <3>4. QED BY <3>2, <3>3
  <2>6. Max(s) - 1 \notin Bad
    <3> HIDE DEF Bad
    <3>1. ~ (k <= Max(s) - 1)
      BY <2>3, <2>5
    <3>2. QED BY <2>1, <3>1
  <2>7. g[s \ {Max(s)}] \in T
    BY <2>5, <2>6
  <2>8. QED BY <2>2, <2>3, <2>7
<1>2. QED BY <1>1

\* What holds first and is passed on from each number to the next holds up to n.
LEMMA HoldsUpTo ==
  ASSUME NEW n \in Nat, NEW A, 0 \in A, \A i \in 1..n : i - 1 \in A => i \in A
  PROVE  \A i \in 0..n : i \in A
<1> DEFINE Bad == {i \in 0..n : i \notin A}
<1>1. ASSUME Bad # {} PROVE FALSE
  <2>1. Bad \in SUBSET Nat
    OBVIOUS
  <2>2. PICK k \in Bad : \A m \in Bad : k <= m
    <3> HIDE DEF Bad
    <3>1. QED BY <1>1, <2>1, LeastNumber
  <2>3. k \in 1..n /\ k - 1 \in 0..n /\ ~ (k <= k - 1)
    BY <2>2
  <2>4. k - 1 \notin Bad
    <3> HIDE DEF Bad
    <3>1. QED BY <2>2, <2>3
  <2>5. QED BY <2>2, <2>3, <2>4
<1>2. QED BY <1>1

\* As long as a fold is in T it goes by the steps.
StepsIn(g, n, T, step) ==
  \A s \in (SUBSET (1..n)) \ {{}} :
    g[s \ {Max(s)}] \in T => g[s] = step[Max(s)][g[s \ {Max(s)}]]

GoesThrough(r, n, base, last, step) ==
  /\ r[0] = base /\ r[n] = last
  /\ \A i \in 1..n : r[i] = step[i][r[i - 1]]

\* The states that a fold in T goes through.
LEMMA FoldGoesThrough ==
  ASSUME NEW n \in Nat, NEW T, NEW base \in T, NEW step \in [1..n -> [T -> T]],
         NEW g, g[{}] = base, StepsIn(g, n, T, step)
  PROVE  \E r \in [0..n -> T] : GoesThrough(r, n, base, g[1..n], step)
<1> DEFINE r == [i \in 0..n |-> g[1..i]]
           A == {i \in 0..n : g[1..i] \in T}
<1>1. ASSUME NEW i \in 1..n
      PROVE  /\ Max(1..i) = i /\ (1..i) \ {i} = 1..(i - 1)
             /\ 1..i \in (SUBSET (1..n)) \ {{}}
  <2>1. i \in 1..i /\ i \in Nat /\ 1..i \in SUBSET (1..i)
    OBVIOUS
  <2>2. Max(1..i) \in 1..i /\ \A m \in 1..i : m <= Max(1..i)
    BY <2>1, GreatestNumber
  <2>3. i <= Max(1..i) /\ Max(1..i) \in 1..i
    BY <2>1, <2>2
  <2>4. Max(1..i) = i
    BY <2>3
  <2>5. QED BY <2>4
<1>2. 1..0 = {} /\ 0 \in A
  BY DEF A
<1>3. ASSUME NEW i \in 1..n, i - 1 \in A PROVE i \in A /\ g[1..i] = step[i][g[1..(i - 1)]]
  <2>1. g[1..(i - 1)] \in T
    BY <1>3
  <2>2. g[1..i] = step[i][g[1..(i - 1)]]
    BY ZenonT(60), <1>1, <2>1 DEF StepsIn
  <2>3. step[i] \in [T -> T]
    OBVIOUS
  <2>4. g[1..i] \in T
    BY <2>1, <2>2, <2>3
  <2>5. QED BY <2>2, <2>4
<1>4. \A i \in 0..n : i \in A
  <2> HIDE DEF A
  <2>1. QED BY <1>2, <1>3, HoldsUpTo
<1>5. r \in [0..n -> T] /\ r[0] = base /\ r[n] = g[1..n]
  BY <1>2, <1>4
<1>6. \A i \in 1..n : r[i] = step[i][r[i - 1]]
  <2> SUFFICES ASSUME NEW i \in 1..n PROVE r[i] = step[i][r[i - 1]]
    OBVIOUS
  <2>1. i - 1 \in A /\ i \in 0..n /\ i - 1 \in 0..n
    BY <1>4
  <2>2. QED BY <1>3, <2>1
<1>7. QED BY <1>5, <1>6 DEF GoesThrough

-----------------------------------------------------------------------------
(***************************************************************************)
(* What the bootstrap collects: records with a class that fits their type. *)
(***************************************************************************)
CatalogRecords ==
  {r \in [symbol : Names, type : AssetTypes, class : AssetClasses,
          aliases : SUBSET Names] :
     Compatible(r.type, r.class) /\ IsFiniteSet(r.aliases)}

\* A row of a source that is not left out becomes a record that fits.
LEMMA RecordsFit ==
  ASSUME NEW catalog \in Catalogs, NEW source \in Sources,
         NEW row \in Range(catalog[source]), TwRecord(source, row).class # None
  PROVE  TwRecord(source, row) \in CatalogRecords
<1>1. /\ row.symbol \in Names
      /\ {row.shortName, row.fullName} \subseteq Names \cup {None}
  BY CatalogsHaveNames DEF TwRecord
<1>2. LET r == TwRecord(source, row) IN
        /\ r.type \in AssetTypes /\ r.class \in AssetClasses
        /\ Compatible(r.type, r.class)
  BY DEF TwRecord, Classify, FundClass, Compatible, ExpectedClass, AssetTypes,
         AssetClasses
<1>3. LET names == {row.symbol, row.shortName, row.fullName} IN
        names \ {None} \subseteq Names /\ IsFiniteSet(names \ {None})
  <2>1. IsFiniteSet({row.symbol, row.shortName, row.fullName})
    <3>1. IsFiniteSet({row.symbol} \cup {row.shortName})
      BY FS_Singleton, FS_AddElement
    <3>2. IsFiniteSet(({row.symbol} \cup {row.shortName}) \cup {row.fullName})
      BY <3>1, FS_AddElement
    <3>3. {row.symbol, row.shortName, row.fullName}
            = ({row.symbol} \cup {row.shortName}) \cup {row.fullName}
      OBVIOUS
    <3>4. QED BY <3>2, <3>3
  <2>2. IsFiniteSet({row.symbol, row.shortName, row.fullName} \ {None})
    BY <2>1, FS_RemoveElement
  <2>3. QED BY <1>1, <2>2
<1>4. LET r == TwRecord(source, row) IN
        r = [symbol |-> row.symbol, type |-> r.type, class |-> r.class,
             aliases |-> {row.symbol, row.shortName, row.fullName} \ {None}]
  BY DEF TwRecord
<1>5. QED BY <1>1, <1>2, <1>3, <1>4 DEF CatalogRecords

\* Records of which no two have one symbol.
DistinctRecords ==
  {seq \in Seq(CatalogRecords) :
     \A i, j \in 1..Len(seq) : seq[i].symbol = seq[j].symbol => i = j}

\* So the bootstrap collects such records, one for each symbol.
LEMMA CollectIsDistinct ==
  ASSUME NEW catalog \in Catalogs
  PROVE  Collect(catalog) \in DistinctRecords
<1> DEFINE of(source) == [k \in DOMAIN catalog[source] |->
                            TwRecord(source, catalog[source][k])]
           Records == {TwRecord(source, row) :
                         source \in Sources,
                         row \in UNION {Range(catalog[x]) : x \in Sources}}
           Good == {r \in Records : r.class # None => r \in CatalogRecords}
           all == of("twse_listed_stock") \o of("tpex_otc_stock")
                    \o of("twse_listed_etf")
           n == Len(all)
           T == DistinctRecords
           step == [i \in 1..n |-> [kept \in T |-> KeepRecord(kept, all[i])]]
           IsFold(g) == g = [s \in SUBSET (DOMAIN all) |->
                               IF s = {} THEN <<>>
                               ELSE KeepRecord(g[s \ {Max(s)}], all[Max(s)])]
<1>1. ASSUME NEW source \in Sources PROVE of(source) \in Seq(Good)
  <2>1. catalog[source] \in Seq(Range(catalog[source]))
    BY CatalogsHaveNames
  <2>2. \A row \in Range(catalog[source]) : TwRecord(source, row) \in Good
    BY RecordsFit
  <2> HIDE DEF Good
  <2>3. QED BY <2>1, <2>2
<1>2. all \in Seq(Good)
  <2>1. /\ of("twse_listed_stock") \in Seq(Good)
        /\ of("tpex_otc_stock") \in Seq(Good)
        /\ of("twse_listed_etf") \in Seq(Good)
    BY <1>1 DEF Sources
  <2> HIDE DEF of, Good
  <2>2. QED BY <2>1
<1>3. n \in Nat /\ DOMAIN all = 1..n /\ \A i \in 1..n : all[i] \in Good
  <2> HIDE DEF all, Good
  <2>1. QED BY <1>2
<1>4. Collect(catalog) = (CHOOSE g : IsFold(g))[DOMAIN all]
  BY DEF Collect, FoldLeft, MapThenFoldSet
<1> HIDE DEF all, n
<1>0. n \in Nat
  BY <1>3
<1>5. \A kept \in T, i \in 1..n : KeepRecord(kept, all[i]) \in T
  <2> SUFFICES ASSUME NEW kept \in T, NEW i \in 1..n
               PROVE  KeepRecord(kept, all[i]) \in T
    OBVIOUS
  <2>1. /\ kept \in Seq(CatalogRecords)
        /\ \A k, j \in 1..Len(kept) : kept[k].symbol = kept[j].symbol => k = j
    BY DEF DistinctRecords
  <2>2. CASE all[i].class = None \/ \E k \in ToSet(kept) : k.symbol = all[i].symbol
    BY <2>2 DEF KeepRecord
  <2>3. CASE ~ (all[i].class = None \/ \E k \in ToSet(kept) : k.symbol = all[i].symbol)
    <3> DEFINE x == all[i]
               new == Append(kept, x)
    <3>1. x \in CatalogRecords
      BY <1>3, <2>3
    <3>2. \A j \in 1..Len(kept) : kept[j].symbol # x.symbol
      <4>1. DOMAIN kept = 1..Len(kept)
        BY <2>1
      <4>2. QED BY <2>3, <4>1 DEF ToSet
    <3> HIDE DEF x
    <3>3. /\ new \in Seq(CatalogRecords) /\ Len(new) = Len(kept) + 1 /\ Len(kept) \in Nat
          /\ \A j \in 1..Len(kept) : new[j] = kept[j]
          /\ new[Len(kept) + 1] = x
      BY <2>1, <3>1
    <3> HIDE DEF new
    <3>4. ASSUME NEW k \in 1..Len(new), NEW j \in 1..Len(new),
                 new[k].symbol = new[j].symbol
          PROVE  k = j
      <4>1. (k \in 1..Len(kept) \/ k = Len(kept) + 1)
            /\ (j \in 1..Len(kept) \/ j = Len(kept) + 1)
        BY <3>3
      <4>2. QED BY <2>1, <3>2, <3>3, <3>4, <4>1
    <3>5. new \in T
      BY <3>3, <3>4 DEF DistinctRecords
    <3>6. QED BY <2>3, <3>5 DEF KeepRecord, new, x
  <2>4. QED BY <2>2, <2>3
<1>none. <<>> \in T
  BY DEF DistinctRecords
<1>6. \E g : IsFold(g)
  <2>1. step \in [1..n -> [T -> T]] /\ <<>> \in T
    <3> HIDE DEF T
    <3>1. QED BY <1>5, <1>none
  <2>2. PICK g \in [SUBSET (1..n) -> T] : \A s \in SUBSET (1..n) :
          g[s] = IF s = {} THEN <<>> ELSE step[Max(s)][g[s \ {Max(s)}]]
    <3> HIDE DEF T, step
    <3>1. \E g \in [SUBSET (1..n) -> T] : Folds(g, n, <<>>, step)
      BY <1>0, <2>1, FoldExists
    <3>2. QED BY <3>1 DEF Folds
  <2>3. ASSUME NEW s \in SUBSET (1..n), s # {}
        PROVE  step[Max(s)][g[s \ {Max(s)}]]
                 = KeepRecord(g[s \ {Max(s)}], all[Max(s)])
    <3>1. Max(s) \in 1..n
      <4>1. Max(s) \in s
        BY <1>0, <2>3, GreatestNumber
      <4>2. QED BY <4>1
    <3>2. g[s \ {Max(s)}] \in T
      BY <2>2
    <3> HIDE DEF T
    <3>3. QED BY <3>1, <3>2
  <2>4. g = [s \in SUBSET (1..n) |->
               IF s = {} THEN <<>> ELSE KeepRecord(g[s \ {Max(s)}], all[Max(s)])]
    <3> HIDE DEF T, step
    <3>1. QED BY <2>2, <2>3
  <2>5. QED BY <1>3, <2>4
<1>7. PICK g : g = (CHOOSE h : IsFold(h)) /\ IsFold(g)
  BY <1>6
<1>8. g[1..n] \in T
  <2>1. \A s \in SUBSET (1..n) :
          g[s] = IF s = {} THEN <<>> ELSE KeepRecord(g[s \ {Max(s)}], all[Max(s)])
    BY <1>3, <1>7
  <2>2. g[{}] \in T
    <3>1. {} \in SUBSET (1..n) /\ <<>> \in T
      BY <1>none
    <3> HIDE DEF T
    <3>2. QED BY <2>1, <3>1
  <2>3. ASSUME NEW s \in (SUBSET (1..n)) \ {{}}, g[s \ {Max(s)}] \in T
        PROVE  g[s] \in T
    <3>1. Max(s) \in 1..n
      <4>1. Max(s) \in s
        <5>1. s \in SUBSET (1..n) /\ s # {}
          OBVIOUS
        <5>2. QED BY <1>0, <5>1, GreatestNumber
      <4>2. QED BY <4>1
    <3> HIDE DEF T
    <3>2. QED BY <1>5, <2>1, <2>3, <3>1
  <2> HIDE DEF T
  <2>4. QED BY <1>0, <2>2, <2>3, FoldStays
<1>9. QED BY <1>3, <1>4, <1>7, <1>8

-----------------------------------------------------------------------------
(***************************************************************************)
(* The inductive invariant.  Rows up to the last id, of unique symbols and *)
(* with classes that fit; aliases of rows that are there.  What a request  *)
(* will write fits too.                                                    *)
(***************************************************************************)
Keys == Names \X Brokers

TablesOK(table, last, owner) ==
  /\ \A k \in Keys : owner[k] # None => owner[k] \in Ids /\ table[owner[k]] # None
  /\ \A i, j \in Ids :
       table[i] # None /\ table[j] # None /\ table[i].symbol = table[j].symbol
         => i = j
  /\ \A i \in Ids : table[i] # None => i <= last /\ Compatible(table[i].type, table[i].class)

RequestRows ==
  [phase : {"idle", "create", "update", "alias", "raced", "mapped"},
   id : Ids \cup {0}, row : AssetRows \cup {None}, key : Keys \cup {None}]

RequestOK(r) ==
  /\ request[r].phase \in {"create", "update"} =>
       request[r].row \in AssetRows /\ Compatible(request[r].row.type, request[r].row.class)
  /\ request[r].phase = "update" => request[r].id \in Ids
  /\ request[r].phase \in {"alias", "raced"} =>
       /\ request[r].id \in Ids
       /\ request[r].key \in Names \X {"cathay"}

CatalogInv ==
  /\ assets \in [Ids -> AssetRows \cup {None}]
  /\ created \in Ids \cup {0}
  /\ aliases \in [Keys -> Nat \cup {None}]
  /\ request \in [Requests -> RequestRows]
  /\ TablesOK(assets, created, aliases)
  /\ \A r \in Requests : RequestOK(r)

(***************************************************************************)
(* The states of a run of the bootstrap: names of db stay, and the tables  *)
(* are in order as long as there are ids.                                  *)
(***************************************************************************)
Counts == [assetsCreated : Nat, assetsSkipped : Nat, aliasesCreated : Nat,
           aliasesSkipped : Nat, conflicts : Nat]

RunStates(owner) ==
  {db \in [assets : [Ids -> AssetRows \cup {None}], created : Nat,
           aliases : [Keys -> Nat \cup {None}], counts : Counts] :
     /\ \A k \in Keys : owner[k] # None => db.aliases[k] = owner[k]
     /\ db.created \in Ids \cup {0} => TablesOK(db.assets, db.created, db.aliases)}

\* What a record adds to the counts are numbers.
LEMMA CountsGrow ==
  ASSUME NEW counts \in Counts, NEW names, IsFiniteSet(names), NEW owner, NEW id,
         NEW isNew \in BOOLEAN
  PROVE  CountAliases(CountAsset(counts, isNew), names, owner, id) \in Counts
<1> DEFINE free  == {a \in names : owner[a] = None}
           known == {a \in names : owner[a] = id}
           other == names \ (free \cup known)
<1>1. /\ Cardinality(free) \in Nat /\ Cardinality(known) \in Nat
      /\ Cardinality(other) \in Nat
  <2>1. free \in SUBSET names /\ known \in SUBSET names /\ other \in SUBSET names
    OBVIOUS
  <2> HIDE DEF free, known, other
  <2>2. IsFiniteSet(free) /\ IsFiniteSet(known) /\ IsFiniteSet(other)
    BY <2>1, FS_Subset
  <2>3. QED BY <2>2, FS_CardinalityType
<1>2. CountAsset(counts, isNew) \in Counts
  BY DEF CountAsset, Counts
<1>3. PICK c \in Counts : c = CountAsset(counts, isNew)
  BY <1>2
<1>4. CountAliases(c, names, owner, id)
        = [c EXCEPT !.aliasesCreated = @ + Cardinality(free),
                    !.aliasesSkipped = @ + Cardinality(known),
                    !.conflicts = @ + Cardinality(other)]
  BY DEF CountAliases
<1> HIDE DEF free, known, other
<1>5. ASSUME NEW x \in Nat, NEW y \in Nat, NEW z \in Nat
      PROVE  [c EXCEPT !.aliasesCreated = @ + x, !.aliasesSkipped = @ + y,
                       !.conflicts = @ + z] \in Counts
  <2>1. /\ c.aliasesCreated + x \in Nat /\ c.aliasesSkipped + y \in Nat
        /\ c.conflicts + z \in Nat
    BY DEF Counts
  <2>2. QED BY <2>1 DEF Counts
<1>6. CountAliases(c, names, owner, id) \in Counts
  <2> DEFINE x == Cardinality(free)
             y == Cardinality(known)
             z == Cardinality(other)
  <2>1. x \in Nat /\ y \in Nat /\ z \in Nat
    BY <1>1
  <2>2. CountAliases(c, names, owner, id)
          = [c EXCEPT !.aliasesCreated = @ + x, !.aliasesSkipped = @ + y,
                      !.conflicts = @ + z]
    BY <1>4
  <2> HIDE DEF x, y, z
  <2>3. [c EXCEPT !.aliasesCreated = @ + x, !.aliasesSkipped = @ + y,
                  !.conflicts = @ + z] \in Counts
    BY <1>5, <2>1
  <2>4. QED BY <2>2, <2>3
<1>7. QED BY <1>3, <1>6

\* A record of the bootstrap keeps the tables in order: a new asset takes a
\* free symbol and the next id, and only free names are mapped.
LEMMA RecordStays ==
  ASSUME NEW owner, NEW db \in RunStates(owner), NEW record \in CatalogRecords
  PROVE  ApplyRecord(db, record) \in RunStates(owner)
<1> DEFINE same  == WithSymbol(db.assets, record.symbol)
           isNew == same = {}
           id    == IF isNew THEN db.created + 1 ELSE Min(same)
           row   == AssetRow(record, record.class)
           after == ApplyRecord(db, record)
<1>1. /\ db.assets \in [Ids -> AssetRows \cup {None}] /\ db.created \in Nat
      /\ db.aliases \in [Keys -> Nat \cup {None}] /\ db.counts \in Counts
      /\ \A k \in Keys : owner[k] # None => db.aliases[k] = owner[k]
      /\ db.created \in Ids \cup {0} => TablesOK(db.assets, db.created, db.aliases)
  BY DEF RunStates
<1>2. /\ row \in AssetRows /\ row.symbol = record.symbol
      /\ Compatible(row.type, row.class)
      /\ record.aliases \subseteq Names /\ IsFiniteSet(record.aliases)
  BY DEF CatalogRecords, AssetRow, AssetRows
<1>3. id \in Nat /\ (~isNew => id \in same)
  <2>1. CASE isNew
    BY <1>1, <2>1
  <2>2. CASE ~isNew
    <3>1. same \in SUBSET Nat /\ same # {}
      BY <2>2, IdsInOrder DEF WithSymbol
    <3>2. Min(same) \in same
      <4> HIDE DEF same
      <4>1. \E k \in same : \A m \in same : k <= m
        BY <3>1, LeastNumber
      <4>2. QED BY <4>1 DEF Min
    <3> HIDE DEF same
    <3>3. QED BY <2>2, <3>1, <3>2
  <2>3. QED BY <2>1, <2>2
<1>4. /\ after.assets = IF isNew THEN [i \in DOMAIN db.assets |->
                                         IF i = id THEN row ELSE db.assets[i]]
                                 ELSE db.assets
      /\ after.created = IF isNew THEN id ELSE db.created
      /\ after.aliases = MapNames(db.aliases, record.aliases, id)
      /\ after.counts = CountAliases(CountAsset(db.counts, isNew), record.aliases,
                                     GlobalOwners(db.aliases), id)
      /\ after = [assets |-> after.assets, created |-> after.created,
                  aliases |-> after.aliases, counts |-> after.counts]
  BY DEF ApplyRecord
<1>5. after.counts \in Counts
  <2> HIDE DEF after, id, isNew
  <2>1. isNew \in BOOLEAN
    BY DEF isNew
  <2>2. QED BY <1>1, <1>2, <1>4, <2>1, CountsGrow
<1> HIDE DEF after, row, id
<1>6. after.assets \in [Ids -> AssetRows \cup {None}] /\ after.created \in Nat
  BY <1>1, <1>2, <1>3, <1>4
<1>7. /\ after.aliases \in [Keys -> Nat \cup {None}]
      /\ \A k \in Keys : \/ after.aliases[k] = db.aliases[k]
                         \/ db.aliases[k] = None /\ after.aliases[k] = id
  BY <1>1, <1>3, <1>4 DEF MapNames
<1>8. \A k \in Keys : owner[k] # None => after.aliases[k] = owner[k]
  BY <1>1, <1>7
<1>9. ASSUME after.created \in Ids \cup {0}
      PROVE  TablesOK(after.assets, after.created, after.aliases)
  <2>1. /\ db.created \in Ids \cup {0} /\ after.created >= db.created
        /\ isNew => id \in Ids /\ id = db.created + 1 /\ after.created = id
    <3>1. CASE isNew
      <4>1. id = db.created + 1 /\ after.created = id /\ id \in Ids
        BY <1>1, <1>4, <1>9, <3>1 DEF id
      <4>2. db.created = 0 \/ db.created \in 1..id
        BY <1>1, <4>1
      <4>3. QED BY <1>1, <4>1, <4>2, IdsInOrder
    <3>2. CASE ~isNew
      BY <1>1, <1>4, <1>9, <3>2
    <3>3. QED BY <3>1, <3>2
  <2>2. TablesOK(db.assets, db.created, db.aliases)
    BY <1>1, <2>1
  <2>3. /\ \A i \in Ids : i # id \/ ~isNew => after.assets[i] = db.assets[i]
        /\ isNew => after.assets[id] = row
        /\ id \in Ids /\ after.assets[id] # None
    <3>1. CASE isNew
      BY <1>1, <1>2, <1>4, <2>1, <3>1, NoneIsNoRow
    <3>2. CASE ~isNew
      BY <1>3, <1>4, <3>2 DEF WithSymbol
    <3>3. QED BY <3>1, <3>2
  <2>4. \A i \in Ids : db.assets[i] # None => after.assets[i] # None
    BY <2>3
  <2>5. \A k \in Keys : after.aliases[k] # None =>
          after.aliases[k] \in Ids /\ after.assets[after.aliases[k]] # None
    BY <1>7, <2>2, <2>3, <2>4 DEF TablesOK
  <2>6. isNew => \A i \in Ids : db.assets[i] # None => db.assets[i].symbol # record.symbol
    BY DEF WithSymbol
  <2>7. \A i, j \in Ids :
          after.assets[i] # None /\ after.assets[j] # None
            /\ after.assets[i].symbol = after.assets[j].symbol => i = j
    BY <1>2, <2>2, <2>3, <2>6 DEF TablesOK
  <2>8. \A i \in Ids : after.assets[i] # None =>
          i <= after.created /\ Compatible(after.assets[i].type, after.assets[i].class)
    <3>1. ASSUME NEW i \in Ids, after.assets[i] # None, i = id, isNew
          PROVE  i <= after.created
                 /\ Compatible(after.assets[i].type, after.assets[i].class)
      BY <1>2, <1>3, <2>1, <2>3, <3>1
    <3>2. ASSUME NEW i \in Ids, after.assets[i] # None, i # id \/ ~isNew
          PROVE  i <= after.created
                 /\ Compatible(after.assets[i].type, after.assets[i].class)
      <4>1. i <= db.created /\ i \in Nat
            /\ Compatible(db.assets[i].type, db.assets[i].class)
        BY <2>2, <2>3, <3>2, IdsInOrder DEF TablesOK
      <4>2. after.created \in Nat /\ db.created \in Nat
        BY <1>1, <1>6
      <4>3. QED BY <2>1, <2>3, <3>2, <4>1, <4>2
    <3>3. QED BY <3>1, <3>2
  <2>9. QED BY <2>5, <2>7, <2>8 DEF TablesOK
<1>10. after \in [assets : [Ids -> AssetRows \cup {None}], created : Nat,
                 aliases : [Keys -> Nat \cup {None}], counts : Counts]
  BY <1>4, <1>5, <1>6, <1>7
<1>11. after \in RunStates(owner)
  BY <1>8, <1>9, <1>10 DEF RunStates
<1>12. QED BY <1>11 DEF after

\* The records of a run, one after the other.
IsApplyRun(r, base, records) ==
  /\ r[0] = base
  /\ \A i \in 1..Len(records) : r[i] = ApplyRecord(r[i - 1], records[i])
  /\ r[Len(records)] = FoldLeft(ApplyRecord, base, records)

\* The run of a catalog is the fold of its records, and its states are states of runs.
LEMMA ApplyRuns ==
  ASSUME NEW owner, NEW base \in RunStates(owner),
         NEW records \in Seq(CatalogRecords)
  PROVE  \E r \in [0..Len(records) -> RunStates(owner)] : IsApplyRun(r, base, records)
<1> DEFINE n == Len(records)
           T == RunStates(owner)
           step == [i \in 1..n |-> [db \in T |-> ApplyRecord(db, records[i])]]
           IsFold(g) == g = [s \in SUBSET (DOMAIN records) |->
                               IF s = {} THEN base
                               ELSE ApplyRecord(g[s \ {Max(s)}], records[Max(s)])]
<1>1. n \in Nat /\ DOMAIN records = 1..n /\ \A i \in 1..n : records[i] \in CatalogRecords
  OBVIOUS
<1>2. FoldLeft(ApplyRecord, base, records) = (CHOOSE g : IsFold(g))[DOMAIN records]
  BY DEF FoldLeft, MapThenFoldSet
<1> HIDE DEF n
<1>3. n \in Nat
  BY <1>1
<1>4. \A db \in T, i \in 1..n : ApplyRecord(db, records[i]) \in T
  BY <1>1, RecordStays
<1>5. \A s \in SUBSET (1..n) : s # {} => Max(s) \in 1..n
  <2> SUFFICES ASSUME NEW s \in SUBSET (1..n), s # {} PROVE Max(s) \in 1..n
    OBVIOUS
  <2>1. Max(s) \in s
    BY <1>3, GreatestNumber
  <2>2. QED BY <2>1
<1>6. step \in [1..n -> [T -> T]] /\ base \in T
  <2> HIDE DEF T
  <2>1. \A i \in 1..n : [db \in T |-> ApplyRecord(db, records[i])] \in [T -> T]
    BY <1>4
  <2>2. base \in T
    BY DEF T
  <2>3. QED BY <2>1, <2>2
<1>7. \A i \in 1..n, db \in T : step[i][db] = ApplyRecord(db, records[i])
  OBVIOUS
<1> HIDE DEF T, step
<1>8. \E g : IsFold(g)
  <2>1. PICK g \in [SUBSET (1..n) -> T] : Folds(g, n, base, step)
    BY <1>3, <1>6, FoldExists
  <2>2. ASSUME NEW s \in SUBSET (1..n), s # {}
        PROVE  step[Max(s)][g[s \ {Max(s)}]]
                 = ApplyRecord(g[s \ {Max(s)}], records[Max(s)])
    <3>1. Max(s) \in 1..n /\ g[s \ {Max(s)}] \in T
      BY <1>5, <2>1, <2>2
    <3>2. QED BY <1>7, <3>1
  <2>3. g = [s \in SUBSET (1..n) |->
               IF s = {} THEN base
               ELSE ApplyRecord(g[s \ {Max(s)}], records[Max(s)])]
    BY <2>1, <2>2 DEF Folds
  <2>4. QED BY <1>1, <2>3
<1>9. PICK g : g = (CHOOSE h : IsFold(h)) /\ IsFold(g)
  BY <1>8
<1>10. \A s \in SUBSET (1..n) :
         g[s] = IF s = {} THEN base
                ELSE ApplyRecord(g[s \ {Max(s)}], records[Max(s)])
  BY <1>1, <1>9
<1>11. \E r \in [0..n -> T] : GoesThrough(r, n, base, g[1..n], step)
  <2>1. g[{}] = base
    BY <1>10
  <2>2. ASSUME NEW s \in (SUBSET (1..n)) \ {{}}, g[s \ {Max(s)}] \in T
        PROVE  g[s] = step[Max(s)][g[s \ {Max(s)}]]
    <3>1. Max(s) \in 1..n
      BY <1>5
    <3>2. QED BY <1>7, <1>10, <2>2, <3>1
  <2>3. StepsIn(g, n, T, step)
    BY <2>2 DEF StepsIn
  <2> HIDE DEF IsFold
  <2>4. QED BY <1>3, <1>6, <2>1, <2>3, FoldGoesThrough
<1>12. PICK r \in [0..n -> T] :
         /\ r[0] = base /\ r[n] = g[1..n]
         /\ \A i \in 1..n : r[i] = step[i][r[i - 1]]
  BY <1>11 DEF GoesThrough
<1>13. ASSUME NEW i \in 1..n PROVE r[i] = ApplyRecord(r[i - 1], records[i])
  <2>1. i - 1 \in 0..n /\ r[i - 1] \in T
    BY <1>3
  <2>2. QED BY <1>7, <1>12, <2>1
<1>14. r[n] = FoldLeft(ApplyRecord, base, records)
  <2> HIDE DEF IsFold
  <2>1. QED BY <1>1, <1>2, <1>9, <1>12
<1>15. QED BY <1>12, <1>13, <1>14 DEF IsApplyRun, n, T

(***************************************************************************)
(* A run of the bootstrap keeps the tables in order and every name.        *)
(***************************************************************************)
LEMMA BootstrapKeeps ==
  ASSUME CatalogInv, NEW catalog \in Catalogs, Bootstrap(catalog)
  PROVE  /\ CatalogInv'
         /\ \A k \in Keys : aliases[k] # None => aliases'[k] = aliases[k]
<1> DEFINE base == [Database EXCEPT !.counts = NoCounts]
           after == ApplyCatalog(Database, Collect(catalog))
<1>1. /\ assets \in [Ids -> AssetRows \cup {None}] /\ created \in Ids \cup {0}
      /\ aliases \in [Keys -> Nat \cup {None}] /\ TablesOK(assets, created, aliases)
      /\ created \in Nat
  BY IdsInOrder DEF CatalogInv
<1>2. base \in RunStates(aliases)
  <2>1. base = [assets |-> assets, created |-> created, aliases |-> aliases,
                counts |-> NoCounts]
    BY DEF Database
  <2>2. NoCounts \in Counts
    BY DEF NoCounts, Counts
  <2>3. QED BY <1>1, <2>1, <2>2 DEF RunStates
<1>3. after \in RunStates(aliases)
  <2> HIDE DEF base
  <2>1. Collect(catalog) \in Seq(CatalogRecords) /\ Len(Collect(catalog)) \in Nat
    BY CollectIsDistinct DEF DistinctRecords
  <2>2. PICK r \in [0..Len(Collect(catalog)) -> RunStates(aliases)] :
          IsApplyRun(r, base, Collect(catalog))
    BY <1>2, <2>1, ApplyRuns
  <2>3. after = r[Len(Collect(catalog))]
    BY <2>2 DEF IsApplyRun, ApplyCatalog, base
  <2>4. QED BY <2>1, <2>3
<1>4. /\ after.created \in Ids /\ assets' = after.assets
      /\ created' = after.created /\ aliases' = after.aliases
      /\ UNCHANGED request
  BY DEF Bootstrap
<1> HIDE DEF after
<1>5. /\ assets' \in [Ids -> AssetRows \cup {None}]
      /\ aliases' \in [Keys -> Nat \cup {None}]
      /\ TablesOK(assets', created', aliases')
      /\ \A k \in Keys : aliases[k] # None => aliases'[k] = aliases[k]
  BY <1>3, <1>4 DEF RunStates
<1>6. TablesOK(assets, created, aliases)'
  BY <1>5 DEF TablesOK, Keys
<1>7. QED BY <1>4, <1>5, <1>6 DEF CatalogInv, RequestOK

-----------------------------------------------------------------------------
(***************************************************************************)
(* The requests.  Each moves alone and keeps the tables in order.          *)
(***************************************************************************)
LEMMA RequestMoves ==
  ASSUME CatalogInv, NEW r \in Requests, NEW q \in RequestRows,
         request' = [request EXCEPT ![r] = q], request'[r] = q => RequestOK(r)'
  PROVE  /\ request' \in [Requests -> RequestRows]
         /\ request'[r] = q
         /\ \A p \in Requests : RequestOK(p)'
<1>1. /\ request' \in [Requests -> RequestRows]
      /\ request'[r] = q /\ \A p \in Requests \ {r} : request'[p] = request[p]
  BY DEF CatalogInv
<1>2. \A p \in Requests : RequestOK(p)'
  BY <1>1 DEF CatalogInv, RequestOK
<1>3. QED BY <1>1, <1>2

\* A request that is answered is idle.
LEMMA IdleIsARow ==
  ASSUME NEW r \in Requests
  PROVE  Idle \in RequestRows /\ (request'[r] = Idle => RequestOK(r)')
BY DEF Idle, RequestRows, RequestOK

\* A class that create or update resolve fits the type that they write.
LEMMA ClassIsChecked ==
  ASSUME NEW dto \in Payloads, NEW fallback \in AssetClasses \cup {None},
         ResolveAssetClass(dto, fallback) # None
  PROVE  LET row == AssetRow(dto, ResolveAssetClass(dto, fallback)) IN
         row \in AssetRows /\ Compatible(row.type, row.class)
<1> DEFINE class == ResolveAssetClass(dto, fallback)
<1>1. dto \in PayloadRows
  BY PayloadsAreRows
<1>2. /\ dto.symbol \in Names /\ dto.type \in AssetTypes
      /\ dto.class \in AssetClasses \cup {None} /\ dto.hint \in AssetClasses \cup {None}
  BY <1>1 DEF PayloadRows
<1>3. InferAssetClass(dto) # None =>
        InferAssetClass(dto) \in AssetClasses /\ Compatible(dto.type, InferAssetClass(dto))
  BY <1>2 DEF InferAssetClass, Compatible, ExpectedClass, AssetClasses, AssetTypes
<1>4. class \in AssetClasses /\ Compatible(dto.type, class)
  BY <1>2, <1>3 DEF ResolveAssetClass
<1> HIDE DEF class
<1>5. AssetRow(dto, class) \in AssetRows
      /\ AssetRow(dto, class).type = dto.type /\ AssetRow(dto, class).class = class
  BY <1>2, <1>4 DEF AssetRow, AssetRows
<1>6. QED BY <1>4, <1>5 DEF class

\* create, after its checks.
LEMMA CreateKeeps ==
  ASSUME CatalogInv, NEW r \in Requests, NEW dto \in Payloads, StartCreate(r, dto)
  PROVE  CatalogInv' /\ UNCHANGED <<assets, aliases>> /\ request'[r].phase = "create"
         /\ \A p \in Requests \ {r} : request'[p] = request[p]
<1> DEFINE row == AssetRow(dto, ResolveAssetClass(dto, None))
           q == [Idle EXCEPT !.phase = "create", !.row = row]
<1>1. /\ request' = [request EXCEPT ![r] = q]
      /\ UNCHANGED <<assets, created, aliases, runs>>
      /\ ResolveAssetClass(dto, None) # None
  BY DEF StartCreate, Begin
<1>2. row \in AssetRows /\ Compatible(row.type, row.class)
  BY <1>1, ClassIsChecked
<1> HIDE DEF row
<1>3. q \in RequestRows /\ q.phase = "create" /\ q.row = row
  BY <1>2 DEF Idle, RequestRows
<1> HIDE DEF q
<1>4. request'[r] = q => RequestOK(r)'
  BY <1>2, <1>3 DEF RequestOK
<1>5. /\ request' \in [Requests -> RequestRows] /\ request'[r] = q
      /\ \A p \in Requests : RequestOK(p)'
  BY <1>1, <1>3, <1>4, RequestMoves
<1>6. \A p \in Requests \ {r} : request'[p] = request[p]
  BY <1>1 DEF CatalogInv
<1>7. QED BY <1>1, <1>3, <1>5, <1>6 DEF CatalogInv, TablesOK

\* update, after its checks.
LEMMA UpdateKeeps ==
  ASSUME CatalogInv, NEW r \in Requests, NEW i \in Ids, NEW dto \in Payloads,
         StartUpdate(r, i, dto)
  PROVE  CatalogInv' /\ UNCHANGED <<assets, aliases>> /\ request'[r].phase = "update"
         /\ \A p \in Requests \ {r} : request'[p] = request[p]
<1> DEFINE row == AssetRow(dto, ResolveAssetClass(dto, assets[i].class))
           q == [Idle EXCEPT !.phase = "update", !.id = i, !.row = row]
<1>1. /\ request' = [request EXCEPT ![r] = q]
      /\ UNCHANGED <<assets, created, aliases, runs>>
      /\ ResolveAssetClass(dto, assets[i].class) # None /\ assets[i] # None
  BY DEF StartUpdate, Begin
<1>2. row \in AssetRows /\ Compatible(row.type, row.class)
  <2>1. assets[i].class \in AssetClasses \cup {None}
    BY <1>1 DEF CatalogInv, AssetRows
  <2>2. QED BY <1>1, <2>1, ClassIsChecked
<1> HIDE DEF row
<1>3. q \in RequestRows /\ q.phase = "update" /\ q.row = row /\ q.id = i
  BY <1>2 DEF Idle, RequestRows
<1> HIDE DEF q
<1>4. request'[r] = q => RequestOK(r)'
  BY <1>2, <1>3 DEF RequestOK
<1>5. /\ request' \in [Requests -> RequestRows] /\ request'[r] = q
      /\ \A p \in Requests : RequestOK(p)'
  BY <1>1, <1>3, <1>4, RequestMoves
<1>6. \A p \in Requests \ {r} : request'[p] = request[p]
  BY <1>1 DEF CatalogInv
<1>7. QED BY <1>1, <1>3, <1>5, <1>6 DEF CatalogInv, TablesOK

\* create writes, unless the symbol was taken meanwhile.
LEMMA InsertKeeps ==
  ASSUME CatalogInv, NEW r \in Requests, Insert(r)
  PROVE  CatalogInv' /\ UNCHANGED aliases /\ request'[r] = Idle
         /\ \A p \in Requests \ {r} : request'[p] = request[p]
<1> DEFINE row == request[r].row
<1>1. /\ request[r].phase = "create" /\ request' = [request EXCEPT ![r] = Idle]
      /\ UNCHANGED aliases
  BY DEF Insert, End
<1>2. row \in AssetRows /\ Compatible(row.type, row.class)
  BY <1>1 DEF CatalogInv, RequestOK
<1>3. /\ request' \in [Requests -> RequestRows] /\ request'[r] = Idle
      /\ \A p \in Requests : RequestOK(p)'
  BY <1>1, IdleIsARow, RequestMoves
<1>4. \A p \in Requests \ {r} : request'[p] = request[p]
  BY <1>1 DEF CatalogInv
<1>5. CASE WithSymbol(assets, row.symbol) # {}
  BY <1>1, <1>3, <1>4, <1>5 DEF Insert, CatalogInv, TablesOK
<1>6. CASE WithSymbol(assets, row.symbol) = {}
  <2> DEFINE n == created + 1
  <2>1. n \in Ids /\ created' = n /\ assets' = [assets EXCEPT ![n] = row]
    BY <1>6 DEF Insert
  <2> HIDE DEF row, n
  <2>2. /\ assets' \in [Ids -> AssetRows \cup {None}]
        /\ \A i \in Ids : assets'[i] = IF i = n THEN row ELSE assets[i]
        /\ aliases' \in [Keys -> Nat \cup {None}]
    BY <1>1, <1>2, <2>1 DEF CatalogInv
  <2>3. row # None /\ \A i \in Ids : assets[i] # None => assets[i].symbol # row.symbol
    BY <1>2, <1>6, NoneIsNoRow DEF WithSymbol
  <2>4. \A i \in Ids : assets'[i] # None =>
          i <= n /\ Compatible(assets'[i].type, assets'[i].class)
    <3>1. \A i \in Ids : assets[i] # None =>
            i <= n /\ Compatible(assets[i].type, assets[i].class)
      BY IdsInOrder DEF CatalogInv, TablesOK, n
    <3>2. n <= n
      BY <2>1, IdsInOrder
    <3>3. QED BY <1>2, <2>2, <3>1, <3>2
  <2>5. \A i, j \in Ids : assets'[i] # None /\ assets'[j] # None
          /\ assets'[i].symbol = assets'[j].symbol => i = j
    BY <2>2, <2>3 DEF CatalogInv, TablesOK
  <2>6. \A k \in Keys : aliases[k] # None =>
          aliases[k] \in Ids /\ assets'[aliases[k]] # None
    BY <2>2, <2>3 DEF CatalogInv, TablesOK
  <2>7. TablesOK(assets, created, aliases)'
    BY <1>1, <2>1, <2>4, <2>5, <2>6 DEF TablesOK, Keys
  <2>8. QED BY <1>1, <1>3, <1>4, <2>1, <2>2, <2>7 DEF CatalogInv
<1>7. QED BY <1>5, <1>6

\* update writes, unless the symbol was taken or the asset removed meanwhile.
LEMMA ApplyKeeps ==
  ASSUME CatalogInv, NEW r \in Requests, ApplyUpdate(r)
  PROVE  CatalogInv' /\ UNCHANGED aliases /\ request'[r] = Idle
         /\ \A p \in Requests \ {r} : request'[p] = request[p]
<1> DEFINE i == request[r].id
           row == request[r].row
<1>1. /\ request[r].phase = "update" /\ request' = [request EXCEPT ![r] = Idle]
      /\ UNCHANGED <<created, aliases>>
  BY DEF ApplyUpdate, End
<1>2. row \in AssetRows /\ Compatible(row.type, row.class) /\ i \in Ids
  BY <1>1 DEF CatalogInv, RequestOK
<1>3. /\ request' \in [Requests -> RequestRows] /\ request'[r] = Idle
      /\ \A p \in Requests : RequestOK(p)'
  BY <1>1, IdleIsARow, RequestMoves
<1>4. \A p \in Requests \ {r} : request'[p] = request[p]
  BY <1>1 DEF CatalogInv
<1>5. CASE assets[i] = None \/ WithSymbol(assets, row.symbol) \ {i} # {}
  BY <1>1, <1>3, <1>4, <1>5 DEF ApplyUpdate, CatalogInv, TablesOK
<1>6. CASE assets[i] # None /\ WithSymbol(assets, row.symbol) \ {i} = {}
  <2>1. assets' = [assets EXCEPT ![i] = row]
    BY <1>6 DEF ApplyUpdate
  <2> HIDE DEF row, i
  <2>2. /\ assets' \in [Ids -> AssetRows \cup {None}]
        /\ \A j \in Ids : assets'[j] = IF j = i THEN row ELSE assets[j]
    BY <1>2, <2>1 DEF CatalogInv
  <2>3. row # None /\ \A j \in Ids : j # i /\ assets[j] # None
                                      => assets[j].symbol # row.symbol
    BY <1>2, <1>6, NoneIsNoRow DEF WithSymbol
  <2>4. TablesOK(assets', created, aliases)
    BY <1>2, <1>6, <2>2, <2>3 DEF CatalogInv, TablesOK
  <2>5. TablesOK(assets, created, aliases)'
    BY <1>1, <2>4 DEF TablesOK, Keys
  <2>6. QED BY <1>1, <1>3, <1>4, <2>2, <2>5 DEF CatalogInv
<1>7. QED BY <1>5, <1>6

\* remove: no alias is left of the asset.
LEMMA RemoveKeeps ==
  ASSUME CatalogInv, NEW i \in Ids, RemoveAsset(i)
  PROVE  /\ CatalogInv' /\ UNCHANGED request
         /\ \A k \in Keys : aliases[k] # None /\ aliases'[k] # aliases[k]
                              => assets'[aliases[k]] = None
<1>1. /\ assets' = [assets EXCEPT ![i] = None]
      /\ aliases' = [k \in Keys |-> IF aliases[k] = i THEN None ELSE aliases[k]]
      /\ UNCHANGED <<created, request>>
  BY DEF RemoveAsset, CatalogInv
<1>2. /\ assets' \in [Ids -> AssetRows \cup {None}]
      /\ \A j \in Ids : assets'[j] = IF j = i THEN None ELSE assets[j]
      /\ aliases' \in [Keys -> Nat \cup {None}]
  BY <1>1 DEF CatalogInv
<1>3. TablesOK(assets', created, aliases')
  BY <1>1, <1>2 DEF CatalogInv, TablesOK
<1>4. TablesOK(assets, created, aliases)'
  BY <1>1, <1>3 DEF TablesOK, Keys
<1>5. \A p \in Requests : RequestOK(p)'
  BY <1>1 DEF CatalogInv, RequestOK
<1>6. QED BY <1>1, <1>2, <1>4, <1>5 DEF CatalogInv

(***************************************************************************)
(* What a request is answered with after it has mapped a name: the import  *)
(* of the broker finds the asset by it.                                    *)
(***************************************************************************)
AnsweredRow(i, key) == [Idle EXCEPT !.phase = "mapped", !.id = i, !.key = key]

\* An answer that a name is mapped.
LEMMA NameIsFound ==
  ASSUME CatalogInv, NEW r \in Requests, NEW i \in Ids,
         NEW key \in Names \X {"cathay"}, Mapped(r, i, key), aliases'[key] = i
  PROVE  /\ request' \in [Requests -> RequestRows]
         /\ \A p \in Requests : RequestOK(p)'
         /\ \A p \in Requests \ {r} : request'[p] = request[p]
         /\ ResolveName(request[r].key[1], "cathay")' = request'[r].id
<1>1. key \in Keys /\ key = <<key[1], "cathay">>
  BY DEF Keys, Brokers
<1>2. request' = [request EXCEPT ![r] = AnsweredRow(i, key)]
  BY DEF Mapped, AnsweredRow
<1>3. /\ AnsweredRow(i, key) \in RequestRows /\ AnsweredRow(i, key).phase = "mapped"
      /\ AnsweredRow(i, key).id = i /\ AnsweredRow(i, key).key = key
  BY <1>1 DEF AnsweredRow, Idle, RequestRows
<1>4. request'[r] = AnsweredRow(i, key) => RequestOK(r)'
  BY <1>3 DEF RequestOK
<1>5. /\ request' \in [Requests -> RequestRows] /\ request'[r] = AnsweredRow(i, key)
      /\ \A p \in Requests : RequestOK(p)'
  BY <1>2, <1>3, <1>4, RequestMoves
<1>6. \A p \in Requests \ {r} : request'[p] = request[p]
  BY <1>2 DEF CatalogInv
<1>7. i # None
  BY IdsInOrder, NoneIsNoRow
<1>8. aliases'[<<request'[r].key[1], "cathay">>] = i /\ request'[r].id = i
  BY <1>1, <1>3, <1>5
<1>9. QED BY <1>5, <1>6, <1>7, <1>8 DEF ResolveName

Found(r) == ResolveName(request[r].key[1], "cathay")' = request'[r].id

\* createAlias, after its look at the pair.
LEMMA AliasKeeps ==
  ASSUME CatalogInv, NEW r \in Requests, NEW i \in Ids, NEW name \in Names,
         StartAlias(r, i, <<name, "cathay">>)
  PROVE  /\ CatalogInv' /\ UNCHANGED <<assets, aliases>>
         /\ \A p \in Requests \ {r} : request'[p] = request[p]
         /\ request'[r].phase = "mapped" => Found(r)
<1> DEFINE key == <<name, "cathay">>
           q == [Idle EXCEPT !.phase = "alias", !.id = i, !.key = key]
<1>1. key \in Names \X {"cathay"} /\ key \in Keys
  BY DEF Keys, Brokers
<1>2. UNCHANGED <<assets, created, aliases, runs>>
  BY DEF StartAlias
<1>3. CASE aliases[key] = i
  <2>1. Mapped(r, i, key) /\ aliases'[key] = i
    BY <1>2, <1>3 DEF StartAlias
  <2> HIDE DEF key
  <2>2. QED BY <1>1, <1>2, <2>1, NameIsFound DEF CatalogInv, TablesOK, Found
<1>4. CASE aliases[key] # i
  <2>1. request' = [request EXCEPT ![r] = q]
    BY <1>4 DEF StartAlias
  <2> HIDE DEF key
  <2>2. q \in RequestRows /\ q.phase = "alias" /\ q.id = i /\ q.key = key
    BY <1>1 DEF Idle, RequestRows
  <2> HIDE DEF q
  <2>3. request'[r] = q => RequestOK(r)'
    BY <1>1, <2>2 DEF RequestOK
  <2>4. /\ request' \in [Requests -> RequestRows] /\ request'[r] = q
        /\ \A p \in Requests : RequestOK(p)'
    BY <2>1, <2>2, <2>3, RequestMoves
  <2>5. \A p \in Requests \ {r} : request'[p] = request[p]
    BY <2>1 DEF CatalogInv
  <2>6. QED BY <1>2, <2>2, <2>4, <2>5 DEF CatalogInv, TablesOK
<1>5. QED BY <1>3, <1>4

\* createAlias writes a free pair of an asset that is there.
LEMMA InsertAliasKeeps ==
  ASSUME CatalogInv, NEW r \in Requests, InsertAlias(r)
  PROVE  /\ CatalogInv' /\ UNCHANGED assets
         /\ \A k \in Keys : aliases[k] # None => aliases'[k] = aliases[k]
         /\ \A p \in Requests \ {r} : request'[p] = request[p]
         /\ Found(r)
<1> DEFINE i == request[r].id
           key == request[r].key
<1>1. /\ request[r].phase = "alias" /\ assets[i] # None /\ aliases[key] = None
      /\ aliases' = [aliases EXCEPT ![key] = i] /\ Mapped(r, i, key)
      /\ UNCHANGED <<assets, created>>
  BY DEF InsertAlias
<1>2. i \in Ids /\ i \in Nat /\ key \in Names \X {"cathay"} /\ key \in Keys
  BY <1>1, IdsInOrder DEF CatalogInv, RequestOK, Keys, Brokers
<1> HIDE DEF i, key
<1>3. /\ aliases' \in [Keys -> Nat \cup {None}] /\ aliases'[key] = i
      /\ \A k \in Keys : aliases'[k] = IF k = key THEN i ELSE aliases[k]
  BY <1>1, <1>2 DEF CatalogInv
<1>4. TablesOK(assets, created, aliases')
  BY <1>1, <1>2, <1>3 DEF CatalogInv, TablesOK
<1>5. TablesOK(assets, created, aliases)'
  BY <1>1, <1>4 DEF TablesOK, Keys
<1>6. /\ request' \in [Requests -> RequestRows] /\ \A p \in Requests : RequestOK(p)'
      /\ \A p \in Requests \ {r} : request'[p] = request[p]
  BY <1>1, <1>2, <1>3, NameIsFound
<1>7. Found(r)
  BY <1>1, <1>2, <1>3, NameIsFound DEF Found
<1>8. QED BY <1>1, <1>3, <1>5, <1>6, <1>7 DEF CatalogInv

\* createAlias when the asset is gone or another request was faster.
LEMMA AliasAnswersKeep ==
  ASSUME CatalogInv, NEW r \in Requests,
         AliasFails(r) \/ AliasRaced(r) \/ ResolveRaced(r)
  PROVE  /\ CatalogInv' /\ UNCHANGED <<assets, aliases>>
         /\ \A p \in Requests \ {r} : request'[p] = request[p]
         /\ request'[r].phase = "mapped" => Found(r)
<1>1. UNCHANGED <<assets, created, aliases>>
  BY DEF AliasFails, AliasRaced, ResolveRaced
<1>2. ASSUME request' = [request EXCEPT ![r] = Idle]
      PROVE  /\ request' \in [Requests -> RequestRows]
             /\ \A p \in Requests : RequestOK(p)'
             /\ \A p \in Requests \ {r} : request'[p] = request[p]
             /\ request'[r].phase # "mapped"
  <2>1. \A p \in Requests \ {r} : request'[p] = request[p]
    BY <1>2 DEF CatalogInv
  <2>2. Idle.phase # "mapped"
    BY DEF Idle
  <2>3. QED BY <1>2, <2>1, <2>2, IdleIsARow, RequestMoves
<1>3. CASE AliasFails(r)
  BY <1>1, <1>2, <1>3 DEF AliasFails, End, CatalogInv, TablesOK
<1>4. CASE AliasRaced(r)
  <2> DEFINE q == [request[r] EXCEPT !.phase = "raced"]
  <2>1. request' = [request EXCEPT ![r] = q] /\ request[r].phase = "alias"
    BY <1>4 DEF AliasRaced
  <2>2. /\ q \in RequestRows /\ q.phase = "raced"
        /\ q.id = request[r].id /\ q.key = request[r].key
    BY DEF CatalogInv, RequestRows
  <2>3. request[r].id \in Ids /\ request[r].key \in Names \X {"cathay"}
    BY <2>1 DEF CatalogInv, RequestOK
  <2> HIDE DEF q
  <2>4. request'[r] = q => RequestOK(r)'
    BY <2>2, <2>3 DEF RequestOK
  <2>5. /\ request' \in [Requests -> RequestRows] /\ request'[r] = q
        /\ \A p \in Requests : RequestOK(p)'
    BY <2>1, <2>2, <2>4, RequestMoves
  <2>6. \A p \in Requests \ {r} : request'[p] = request[p]
    BY <2>1 DEF CatalogInv
  <2>7. QED BY <1>1, <2>2, <2>5, <2>6 DEF CatalogInv, TablesOK
<1>5. CASE ResolveRaced(r)
  <2> DEFINE i == request[r].id
             key == request[r].key
  <2>1. i \in Ids /\ key \in Names \X {"cathay"} /\ request[r].phase = "raced"
    BY <1>5 DEF ResolveRaced, CatalogInv, RequestOK
  <2>2. CASE aliases[key] = i
    <3>1. Mapped(r, i, key) /\ aliases'[key] = i
      BY <1>1, <1>5, <2>2 DEF ResolveRaced
    <3> HIDE DEF i, key
    <3>2. QED BY <1>1, <2>1, <3>1, NameIsFound DEF CatalogInv, TablesOK, Found
  <2>3. CASE aliases[key] # i
    <3>1. request' = [request EXCEPT ![r] = Idle]
      BY <1>5, <2>3 DEF ResolveRaced
    <3>2. QED BY <1>1, <1>2, <3>1 DEF CatalogInv, TablesOK
  <2>4. QED BY <2>2, <2>3
<1>6. QED BY <1>3, <1>4, <1>5

-----------------------------------------------------------------------------
(***************************************************************************)
(* Every step keeps the invariant, and the names as MappingsStay says.     *)
(***************************************************************************)
LEMMA CatalogInitial == CatalogInit => CatalogInv
<1> SUFFICES ASSUME CatalogInit PROVE CatalogInv
  OBVIOUS
<1>1. \A r \in Requests : request[r] = Idle
  BY DEF CatalogInit
<1>2. Idle \in RequestRows /\ Idle.phase = "idle"
  BY DEF Idle, RequestRows
<1>3. request \in [Requests -> RequestRows] /\ \A r \in Requests : RequestOK(r)
  BY <1>1, <1>2 DEF CatalogInit, RequestOK
<1>4. QED BY <1>3 DEF CatalogInit, CatalogInv, TablesOK, Keys

\* A step keeps the invariant and the mappings.
LEMMA CatalogInductive ==
  ASSUME CatalogInv, [CatalogNext]_catalogVars
  PROVE  CatalogInv' /\ (MappingsStayStep \/ UNCHANGED catalogVars)
<1> USE DEF Keys
<1>1. ASSUME NEW r \in Requests, NEW dto \in Payloads, StartCreate(r, dto)
      PROVE  CatalogInv' /\ MappingsStayStep
  BY <1>1, CreateKeeps DEF MappingsStayStep
<1>2. ASSUME NEW r \in Requests, NEW i \in Ids, NEW dto \in Payloads,
             StartUpdate(r, i, dto)
      PROVE  CatalogInv' /\ MappingsStayStep
  BY <1>2, UpdateKeeps DEF MappingsStayStep
<1>3. ASSUME NEW r \in Requests, NEW i \in Ids, NEW name \in Names,
             StartAlias(r, i, <<name, "cathay">>)
      PROVE  CatalogInv' /\ MappingsStayStep
  BY <1>3, AliasKeeps DEF MappingsStayStep, Found
<1>4. ASSUME NEW r \in Requests, Insert(r) \/ ApplyUpdate(r)
      PROVE  CatalogInv' /\ MappingsStayStep
  <2>1. Idle.phase # "mapped"
    BY DEF Idle
  <2>2. QED BY <1>4, <2>1, InsertKeeps, ApplyKeeps DEF MappingsStayStep
<1>5. ASSUME NEW r \in Requests, InsertAlias(r)
      PROVE  CatalogInv' /\ MappingsStayStep
  BY <1>5, InsertAliasKeeps DEF MappingsStayStep, Found
<1>6. ASSUME NEW r \in Requests, AliasFails(r) \/ AliasRaced(r) \/ ResolveRaced(r)
      PROVE  CatalogInv' /\ MappingsStayStep
  BY <1>6, AliasAnswersKeep DEF MappingsStayStep, Found
<1>7. ASSUME NEW i \in Ids, RemoveAsset(i)
      PROVE  CatalogInv' /\ MappingsStayStep
  BY <1>7, RemoveKeeps DEF MappingsStayStep
<1>8. ASSUME NEW catalog \in Catalogs, Bootstrap(catalog)
      PROVE  CatalogInv' /\ MappingsStayStep
  <2>1. UNCHANGED request
    BY <1>8 DEF Bootstrap
  <2>2. QED BY <1>8, <2>1, BootstrapKeeps DEF MappingsStayStep
<1>9. CASE UNCHANGED catalogVars
  BY <1>9 DEF catalogVars, CatalogInv, TablesOK, RequestOK
<1>10. QED
  BY <1>1, <1>2, <1>3, <1>4, <1>5, <1>6, <1>7, <1>8, <1>9 DEF CatalogNext

(***************************************************************************)
(* Aliases have assets and symbols are unique, although requests check and *)
(* write apart from each other.                                            *)
(***************************************************************************)
THEOREM CatalogTypeCorrect == CatalogSpec => []CatalogTypeOK
<1>1. CatalogInv => CatalogTypeOK
  BY DEF CatalogInv, TablesOK, CatalogTypeOK, Keys
<1>2. QED BY <1>1, CatalogInitial, CatalogInductive, PTL DEF CatalogSpec

(***************************************************************************)
(* The class of an asset fits its type, because what a request will write  *)
(* was checked as a whole, and so is what the bootstrap collects.          *)
(***************************************************************************)
THEOREM ClassesFit == CatalogSpec => []ClassFitsType
<1>1. CatalogInv => ClassFitsType
  BY DEF CatalogInv, TablesOK, ClassFitsType
<1>2. QED BY <1>1, CatalogInitial, CatalogInductive, PTL DEF CatalogSpec

(***************************************************************************)
(* A mapped name keeps its asset until the asset is removed, and an answer *)
(* that a name is mapped is true when it is given.                         *)
(***************************************************************************)
THEOREM NamesKeepTheirAssets == CatalogSpec => MappingsStay
<1>1. CatalogInv /\ [CatalogNext]_catalogVars => [MappingsStayStep]_catalogVars
  BY CatalogInductive
<1>2. QED
  BY <1>1, CatalogInitial, CatalogInductive, PTL DEF CatalogSpec, MappingsStay

-----------------------------------------------------------------------------
(***************************************************************************)
(* The dry run.  It reads the tables as they are, a run reads those that its*)
(* earlier records have left: record by record the owner that a name has in*)
(* the plan is the one it has in the run, or the symbol of an asset that the*)
(* run has created, so the counts agree.                                   *)
(***************************************************************************)
PlanStates == [owner : [Names -> Nat \cup Names \cup {None}], counts : Counts]

\* A record of a dry run plans owners of names.
LEMMA PlanStays ==
  ASSUME NEW plan \in PlanStates, NEW record \in CatalogRecords
  PROVE  PlanRecord(plan, record) \in PlanStates
<1> DEFINE same == WithSymbol(assets, record.symbol)
           id   == IF same = {} THEN record.symbol ELSE Min(same)
           isNew == same = {}
<1>1. record.symbol \in Names /\ record.aliases \subseteq Names /\ IsFiniteSet(record.aliases)
  BY DEF CatalogRecords
<1>2. id \in Nat \cup Names
  <2>1. CASE same = {}
    BY <1>1, <2>1
  <2>2. CASE same # {}
    <3>1. same \in SUBSET Nat
      BY IdsInOrder DEF WithSymbol
    <3>2. Min(same) \in same
      <4> HIDE DEF same
      <4>1. \E k \in same : \A m \in same : k <= m
        BY <2>2, <3>1, LeastNumber
      <4>2. QED BY <4>1 DEF Min
    <3> HIDE DEF same
    <3>3. QED BY <2>2, <3>1, <3>2
  <2>3. QED BY <2>1, <2>2
<1>3. plan.owner \in [Names -> Nat \cup Names \cup {None}] /\ plan.counts \in Counts
  BY DEF PlanStates
<1>4. CountAliases(CountAsset(plan.counts, isNew), record.aliases, plan.owner, id) \in Counts
  <2>1. isNew \in BOOLEAN
    OBVIOUS
  <2> HIDE DEF id, isNew
  <2>2. QED BY <1>1, <1>3, <2>1, CountsGrow
<1>5. PlanRecord(plan, record)
        = [owner |-> [a \in Names |-> IF a \in record.aliases /\ plan.owner[a] = None
                                        THEN id ELSE plan.owner[a]],
           counts |-> CountAliases(CountAsset(plan.counts, isNew), record.aliases,
                                   plan.owner, id)]
  BY DEF PlanRecord
<1> HIDE DEF id, isNew
<1>6. QED BY <1>2, <1>3, <1>4, <1>5 DEF PlanStates

\* The records of a dry run.
IsPlanRun(r, base, records) ==
  /\ r[0] = base
  /\ \A i \in 1..Len(records) : r[i] = PlanRecord(r[i - 1], records[i])
  /\ r[Len(records)] = FoldLeft(PlanRecord, base, records)

\* A dry run is the fold of its records, and its states are states of plans.
LEMMA PlanRuns ==
  ASSUME NEW base \in PlanStates, NEW records \in Seq(CatalogRecords)
  PROVE  \E r \in [0..Len(records) -> PlanStates] : IsPlanRun(r, base, records)
<1> DEFINE n == Len(records)
           T == PlanStates
           step == [i \in 1..n |-> [plan \in T |-> PlanRecord(plan, records[i])]]
           IsFold(g) == g = [s \in SUBSET (DOMAIN records) |->
                               IF s = {} THEN base
                               ELSE PlanRecord(g[s \ {Max(s)}], records[Max(s)])]
<1>1. n \in Nat /\ DOMAIN records = 1..n /\ \A i \in 1..n : records[i] \in CatalogRecords
  OBVIOUS
<1>2. FoldLeft(PlanRecord, base, records) = (CHOOSE g : IsFold(g))[DOMAIN records]
  BY DEF FoldLeft, MapThenFoldSet
<1> HIDE DEF n
<1>3. n \in Nat
  BY <1>1
<1>4. \A plan \in T, i \in 1..n : PlanRecord(plan, records[i]) \in T
  BY <1>1, PlanStays
<1>5. \A s \in SUBSET (1..n) : s # {} => Max(s) \in 1..n
  <2> SUFFICES ASSUME NEW s \in SUBSET (1..n), s # {} PROVE Max(s) \in 1..n
    OBVIOUS
  <2>1. Max(s) \in s
    BY <1>3, GreatestNumber
  <2>2. QED BY <2>1
<1>6. step \in [1..n -> [T -> T]] /\ base \in T
  <2> HIDE DEF T
  <2>1. \A i \in 1..n : [plan \in T |-> PlanRecord(plan, records[i])] \in [T -> T]
    BY <1>4
  <2>2. base \in T
    BY DEF T
  <2>3. QED BY <2>1, <2>2
<1>7. \A i \in 1..n, plan \in T : step[i][plan] = PlanRecord(plan, records[i])
  OBVIOUS
<1> HIDE DEF T, step
<1>8. \E g : IsFold(g)
  <2>1. PICK g \in [SUBSET (1..n) -> T] : Folds(g, n, base, step)
    BY <1>3, <1>6, FoldExists
  <2>2. ASSUME NEW s \in SUBSET (1..n), s # {}
        PROVE  step[Max(s)][g[s \ {Max(s)}]]
                 = PlanRecord(g[s \ {Max(s)}], records[Max(s)])
    <3>1. Max(s) \in 1..n /\ g[s \ {Max(s)}] \in T
      BY <1>5, <2>1, <2>2
    <3>2. QED BY <1>7, <3>1
  <2>3. g = [s \in SUBSET (1..n) |->
               IF s = {} THEN base
               ELSE PlanRecord(g[s \ {Max(s)}], records[Max(s)])]
    BY <2>1, <2>2 DEF Folds
  <2>4. QED BY <1>1, <2>3
<1>9. PICK g : g = (CHOOSE h : IsFold(h)) /\ IsFold(g)
  BY <1>8
<1>10. \A s \in SUBSET (1..n) :
         g[s] = IF s = {} THEN base
                ELSE PlanRecord(g[s \ {Max(s)}], records[Max(s)])
  BY <1>1, <1>9
<1>11. \E r \in [0..n -> T] : GoesThrough(r, n, base, g[1..n], step)
  <2>1. g[{}] = base
    BY <1>10
  <2>2. ASSUME NEW s \in (SUBSET (1..n)) \ {{}}, g[s \ {Max(s)}] \in T
        PROVE  g[s] = step[Max(s)][g[s \ {Max(s)}]]
    <3>1. Max(s) \in 1..n
      BY <1>5
    <3>2. QED BY <1>7, <1>10, <2>2, <3>1
  <2>3. StepsIn(g, n, T, step)
    BY <2>2 DEF StepsIn
  <2> HIDE DEF IsFold
  <2>4. QED BY <1>3, <1>6, <2>1, <2>3, FoldGoesThrough
<1>12. PICK r \in [0..n -> T] :
         /\ r[0] = base /\ r[n] = g[1..n]
         /\ \A i \in 1..n : r[i] = step[i][r[i - 1]]
  BY <1>11 DEF GoesThrough
<1>13. ASSUME NEW i \in 1..n PROVE r[i] = PlanRecord(r[i - 1], records[i])
  <2>1. i - 1 \in 0..n /\ r[i - 1] \in T
    BY <1>3
  <2>2. QED BY <1>7, <1>12, <2>1
<1>14. r[n] = FoldLeft(PlanRecord, base, records)
  <2> HIDE DEF IsFold
  <2>1. QED BY <1>1, <1>2, <1>9, <1>12
<1>15. QED BY <1>12, <1>13, <1>14 DEF IsPlanRun, n, T

\* Names that are free in one account of owners and in the other, and known in
\* one and in the other, count alike.
LEMMA NamesCountAlike ==
  ASSUME NEW c, NEW names, NEW one, NEW id, NEW other, NEW same,
         \A a \in names : /\ one[a] = None <=> other[a] = None
                          /\ one[a] = id <=> other[a] = same
  PROVE  CountAliases(c, names, one, id) = CountAliases(c, names, other, same)
<1> DEFINE free(o) == {a \in names : o[a] = None}
           known(o, k) == {a \in names : o[a] = k}
           Count(f, k) == [c EXCEPT !.aliasesCreated = @ + Cardinality(f),
                                    !.aliasesSkipped = @ + Cardinality(k),
                                    !.conflicts = @ + Cardinality(names \ (f \cup k))]
<1>1. /\ CountAliases(c, names, one, id) = Count(free(one), known(one, id))
      /\ CountAliases(c, names, other, same) = Count(free(other), known(other, same))
  BY DEF CountAliases
<1>2. free(one) = free(other) /\ known(one, id) = known(other, same)
  OBVIOUS
<1> HIDE DEF free, known, Count
<1>3. QED BY <1>1, <1>2

\* What a plan calls an owner: an asset that was there before is itself, one
\* that is created is called by its symbol.
Planned(table, x) ==
  IF x = None THEN None ELSE IF x <= created THEN x ELSE table[x].symbol

\* The plan of the first records and the run of them agree.
Agrees(plan, db, records, i) ==
  /\ plan.counts = db.counts
  /\ created <= db.created /\ db.created <= created + i
  /\ \A j \in Ids : j <= created => db.assets[j] = assets[j]
  /\ \A j \in Ids : j > created /\ db.assets[j] # None =>
       \E m \in 1..i : db.assets[j].symbol = records[m].symbol
  /\ \A a \in Names :
       plan.owner[a] = Planned(db.assets, db.aliases[<<a, "global">>])

\* The tables in a run that has ids enough.
LEMMA RunHasIds ==
  ASSUME NEW owner, NEW db \in RunStates(owner), NEW n \in Nat, created \in Nat,
         created + n \in Ids, NEW i \in 1..n, db.created <= created + (i - 1)
  PROVE  /\ db.created \in Nat /\ db.created + 1 \in Ids
         /\ db.assets \in [Ids -> AssetRows \cup {None}]
         /\ db.aliases \in [Keys -> Nat \cup {None}]
         /\ TablesOK(db.assets, db.created, db.aliases)
<1>1. /\ db.created \in Nat
      /\ db.assets \in [Ids -> AssetRows \cup {None}]
      /\ db.aliases \in [Keys -> Nat \cup {None}]
      /\ db.created \in Ids \cup {0} => TablesOK(db.assets, db.created, db.aliases)
  BY DEF RunStates
<1>2. /\ db.created + 1 \in 1..(created + n)
      /\ db.created = 0 \/ db.created \in 1..(created + n)
  BY <1>1
<1>3. 1..(created + n) \subseteq Ids
  BY IdsInOrder
<1>4. QED BY <1>1, <1>2, <1>3

\* A record is planned as it is applied.
LEMMA RecordAsPlanned ==
  ASSUME CatalogInv, NEW records \in DistinctRecords, created + Len(records) \in Ids,
         NEW i \in 1..Len(records), NEW db \in RunStates(aliases),
         NEW plan \in PlanStates, Agrees(plan, db, records, i - 1)
  PROVE  Agrees(PlanRecord(plan, records[i]), ApplyRecord(db, records[i]), records, i)
<1> DEFINE rec == records[i]
           n == Len(records)
           same == WithSymbol(assets, rec.symbol)
           isNew == same = {}
           planId == IF same = {} THEN rec.symbol ELSE Min(same)
           id == IF isNew THEN db.created + 1 ELSE Min(same)
           owned(a) == db.aliases[<<a, "global">>]
           next == ApplyRecord(db, rec)
           planned == PlanRecord(plan, rec)
<1>1. /\ records \in Seq(CatalogRecords) /\ n \in Nat
      /\ \A k, j \in 1..n : records[k].symbol = records[j].symbol => k = j
  BY DEF DistinctRecords
<1>2. /\ created \in Nat /\ TablesOK(assets, created, aliases)
      /\ assets \in [Ids -> AssetRows \cup {None}]
  BY IdsInOrder DEF CatalogInv
<1>3. /\ plan.counts = db.counts
      /\ created <= db.created /\ db.created <= created + (i - 1)
      /\ \A j \in Ids : j <= created => db.assets[j] = assets[j]
      /\ \A j \in Ids : j > created /\ db.assets[j] # None =>
           \E m \in 1..(i - 1) : db.assets[j].symbol = records[m].symbol
      /\ \A a \in Names : plan.owner[a] = Planned(db.assets, owned(a))
  BY DEF Agrees
<1>4. /\ db.created \in Nat /\ db.created + 1 \in Ids
      /\ db.assets \in [Ids -> AssetRows \cup {None}]
      /\ db.aliases \in [Keys -> Nat \cup {None}]
      /\ TablesOK(db.assets, db.created, db.aliases)
  <2> HIDE DEF n
  <2>1. i \in 1..n
    BY DEF n
  <2>2. created + n \in Ids
    BY DEF n
  <2>3. QED BY <1>1, <1>2, <1>3, <2>1, <2>2, RunHasIds
<1>5. /\ rec.symbol \in Names /\ rec.aliases \subseteq Names
      /\ AssetRow(rec, rec.class) \in AssetRows
      /\ AssetRow(rec, rec.class).symbol = rec.symbol
  <2>1. rec \in CatalogRecords
    BY <1>1
  <2>2. QED BY <2>1 DEF CatalogRecords, AssetRow, AssetRows
<1>6. Ids \subseteq Nat /\ i \in Nat /\ \A j \in Ids : j # None
  BY IdsInOrder, NoneIsNoRow
<1>7. WithSymbol(db.assets, rec.symbol) = same
  <2>1. ASSUME NEW j \in Ids
        PROVE  db.assets[j] # None /\ db.assets[j].symbol = rec.symbol
                 <=> assets[j] # None /\ assets[j].symbol = rec.symbol
    <3>1. CASE j <= created
      BY <1>3, <3>1
    <3>2. CASE j > created
      <4>1. assets[j] = None
        BY <1>2, <1>6, <3>2 DEF TablesOK
      <4>2. ASSUME db.assets[j] # None PROVE db.assets[j].symbol # rec.symbol
        <5>1. PICK m \in 1..(i - 1) : db.assets[j].symbol = records[m].symbol
          BY <1>3, <3>2, <4>2
        <5>2. m \in 1..n /\ m # i
          BY <1>1
        <5>3. QED BY <1>1, <5>1, <5>2
      <4>3. QED BY <4>1, <4>2
    <3>3. QED BY <1>2, <1>6, <3>1, <3>2
  <2>2. QED BY <2>1 DEF WithSymbol
<1>8. /\ next.assets = IF isNew THEN [j \in DOMAIN db.assets |->
                                        IF j = id THEN AssetRow(rec, rec.class)
                                                  ELSE db.assets[j]]
                       ELSE db.assets
      /\ next.created = IF isNew THEN id ELSE db.created
      /\ next.aliases = MapNames(db.aliases, rec.aliases, id)
      /\ next.counts = CountAliases(CountAsset(db.counts, isNew), rec.aliases,
                                    GlobalOwners(db.aliases), id)
  <2> HIDE DEF rec, same
  <2>1. QED BY <1>7 DEF ApplyRecord
<1>9. /\ planned.owner = [a \in Names |-> IF a \in rec.aliases /\ plan.owner[a] = None
                                          THEN planId ELSE plan.owner[a]]
      /\ planned.counts = CountAliases(CountAsset(plan.counts, isNew), rec.aliases,
                                       plan.owner, planId)
  BY DEF PlanRecord
<1>10. /\ isNew => /\ id = db.created + 1 /\ id \in Ids /\ id > created
                   /\ planId = rec.symbol
       /\ ~isNew => /\ planId = id /\ id \in Ids /\ id <= created
                    /\ id \in same
  <2>1. CASE isNew
    BY <1>2, <1>3, <1>4, <2>1
  <2>2. CASE ~isNew
    <3>1. same \in SUBSET Ids
      BY DEF WithSymbol
    <3>2. Min(same) \in same
      <4> HIDE DEF same
      <4>1. \E k \in same : \A m \in same : k <= m
        BY <1>6, <2>2, <3>1, LeastNumber
      <4>2. QED BY <4>1 DEF Min
    <3>3. assets[Min(same)] # None
      BY <3>2 DEF WithSymbol
    <3> HIDE DEF same
    <3>4. QED BY <1>2, <2>2, <3>1, <3>2, <3>3 DEF TablesOK
  <2>3. QED BY <2>1, <2>2
<1> HIDE DEF rec, n, next, planned, id, planId, isNew
<1>11. ASSUME NEW a \in Names
       PROVE  \/ owned(a) = None
              \/ /\ owned(a) \in Ids /\ db.assets[owned(a)] # None
                 /\ owned(a) <= db.created
                 /\ owned(a) > created => db.assets[owned(a)].symbol \in Names
  <2>1. <<a, "global">> \in Keys
    BY DEF Keys, Brokers
  <2>2. owned(a) # None => /\ owned(a) \in Ids /\ db.assets[owned(a)] # None
                           /\ owned(a) <= db.created
    BY <1>4, <2>1 DEF TablesOK
  <2>3. \A j \in Ids : db.assets[j] # None => db.assets[j].symbol \in Names
    BY <1>4 DEF AssetRows
  <2> HIDE DEF owned
  <2>4. QED BY <2>2, <2>3
<1>12. ASSUME NEW a \in Names
       PROVE  /\ plan.owner[a] = None <=> owned(a) = None
              /\ plan.owner[a] = planId <=> owned(a) = id
  <2> DEFINE o == owned(a)
  <2>1. plan.owner[a] = Planned(db.assets, o)
    BY <1>3
  <2>2. \/ o = None
        \/ /\ o \in Ids /\ db.assets[o] # None /\ o <= db.created
           /\ o > created => db.assets[o].symbol \in Names
    BY <1>11
  <2>3. isNew /\ o # None => db.assets[o].symbol # rec.symbol
    BY <1>7, <2>2 DEF isNew, WithSymbol
  <2> HIDE DEF owned, o, same
  <2>4. None \notin Names /\ None \notin Ids /\ Names \cap Ids = {}
    BY <1>6, NoneIsNoRow, NamesAreNoIds
  <2>5. CASE o = None
    <3>1. id # None /\ planId # None
      BY <1>5, <1>10, <2>4
    <3>2. QED BY <2>1, <2>5, <3>1 DEF Planned, o
  <2>6. CASE o # None /\ o <= created
    <3>1. plan.owner[a] = o /\ o \in Ids
      BY <2>1, <2>2, <2>6 DEF Planned
    <3>2. CASE isNew
      <4>1. o # id
        BY <1>2, <1>4, <1>6, <1>10, <2>6, <3>1, <3>2
      <4>2. o # planId
        BY <1>5, <1>10, <2>4, <3>1, <3>2
      <4>3. QED BY <2>6, <3>1, <4>1, <4>2 DEF o
    <3>3. CASE ~isNew
      BY <1>10, <2>6, <3>1, <3>3 DEF o
    <3>4. QED BY <3>2, <3>3
  <2>7. CASE o # None /\ ~(o <= created)
    <3>0. o > created
      BY SMTT(60), <1>2, <1>6, <2>2, <2>7
    <3>1. plan.owner[a] = db.assets[o].symbol /\ plan.owner[a] \in Names
      BY <2>1, <2>2, <2>7, <3>0 DEF Planned
    <3>2. CASE isNew
      <4>1. o # id
        BY <1>4, <1>6, <1>10, <2>2, <2>7, <3>2
      <4>2. plan.owner[a] # planId
        BY <1>10, <2>3, <2>7, <3>1, <3>2
      <4>3. QED BY <2>4, <2>7, <3>1, <4>1, <4>2 DEF o
    <3>3. CASE ~isNew
      <4>1. o # id
        BY <1>10, <2>7, <3>3
      <4>2. plan.owner[a] # planId
        BY <1>10, <2>4, <3>1, <3>3
      <4>3. QED BY <2>4, <2>7, <3>1, <4>1, <4>2 DEF o
    <3>4. QED BY <3>2, <3>3
  <2>8. QED BY <2>5, <2>6, <2>7
<1>13. planned.counts = next.counts
  <2>1. \A a \in rec.aliases :
          /\ plan.owner[a] = None <=> GlobalOwners(db.aliases)[a] = None
          /\ plan.owner[a] = planId <=> GlobalOwners(db.aliases)[a] = id
    BY <1>5, <1>12 DEF GlobalOwners
  <2> DEFINE c == CountAsset(db.counts, isNew)
  <2>2. CountAliases(c, rec.aliases, plan.owner, planId)
          = CountAliases(c, rec.aliases, GlobalOwners(db.aliases), id)
    <3> HIDE DEF c
    <3>1. QED BY <2>1, NamesCountAlike
  <2>3. QED BY <1>3, <1>8, <1>9, <2>2
<1>14. /\ next.assets \in [Ids -> AssetRows \cup {None}]
       /\ \A j \in Ids : j # id \/ ~isNew => next.assets[j] = db.assets[j]
       /\ isNew => next.assets[id] = AssetRow(rec, rec.class)
  BY <1>4, <1>5, <1>8, <1>10
<1>15. created <= next.created /\ next.created <= created + i
  BY <1>2, <1>3, <1>4, <1>6, <1>8, <1>10
<1>16. \A j \in Ids : j <= created => next.assets[j] = assets[j]
  <2> SUFFICES ASSUME NEW j \in Ids, j <= created PROVE next.assets[j] = assets[j]
    OBVIOUS
  <2>1. j # id \/ ~isNew
    BY <1>2, <1>6, <1>10
  <2>2. QED BY <1>3, <1>14, <2>1
<1>17. ASSUME NEW j \in Ids, j > created, next.assets[j] # None
       PROVE  \E m \in 1..i : next.assets[j].symbol = records[m].symbol
  <2>1. CASE j = id /\ isNew
    <3>1. next.assets[j].symbol = records[i].symbol /\ i \in 1..i
      BY <1>5, <1>6, <1>14, <2>1 DEF rec
    <3>2. QED BY <3>1
  <2>2. CASE ~(j = id /\ isNew)
    <3>1. next.assets[j] = db.assets[j]
      BY <1>14, <2>2
    <3>2. PICK m \in 1..(i - 1) : db.assets[j].symbol = records[m].symbol
      BY <1>3, <1>17, <3>1
    <3>3. m \in 1..i
      BY <1>6
    <3>4. QED BY <3>1, <3>2, <3>3
  <2>3. QED BY <2>1, <2>2
<1>18. ASSUME NEW a \in Names
       PROVE  planned.owner[a] = Planned(next.assets, next.aliases[<<a, "global">>])
  <2> DEFINE o == owned(a)
  <2>1. next.aliases[<<a, "global">>]
          = IF a \in rec.aliases /\ o = None THEN id ELSE o
    <3>1. <<a, "global">> \in DOMAIN db.aliases
      BY <1>4 DEF Keys, Brokers
    <3>2. QED BY <1>8, <3>1 DEF MapNames
  <2>2. \/ o = None
        \/ /\ o \in Ids /\ o <= db.created
    BY <1>11
  <2>3. plan.owner[a] = Planned(db.assets, o) /\ (plan.owner[a] = None <=> o = None)
    BY <1>3, <1>12
  <2>4. planned.owner[a]
          = IF a \in rec.aliases /\ plan.owner[a] = None THEN planId ELSE plan.owner[a]
    BY <1>9
  <2> HIDE DEF owned, o
  <2>5. Planned(next.assets, id) = planId
    <3>1. id # None
      BY <1>6, <1>10
    <3>2. CASE isNew
      <4>1. ~ (id <= created)
        BY <1>2, <1>4, <1>10, <3>2
      <4>2. next.assets[id].symbol = rec.symbol
        BY <1>5, <1>14, <3>2
      <4>3. QED BY <1>10, <3>1, <3>2, <4>1, <4>2 DEF Planned
    <3>3. CASE ~isNew
      BY <1>10, <3>1, <3>3 DEF Planned
    <3>4. QED BY <3>2, <3>3
  <2>6. Planned(next.assets, o) = Planned(db.assets, o)
    <3>1. CASE o = None
      BY <3>1 DEF Planned
    <3>2. CASE o # None
      <4>1. o \in Ids /\ (o # id \/ ~isNew)
        BY <1>4, <1>6, <1>10, <2>2, <3>2
      <4>2. next.assets[o] = db.assets[o]
        BY <1>14, <4>1
      <4>3. QED BY <4>2 DEF Planned
    <3>3. QED BY <3>1, <3>2
  <2>7. QED BY <2>1, <2>3, <2>4, <2>5, <2>6
<1>19. Agrees(planned, next, records, i)
  BY <1>13, <1>15, <1>16, <1>17, <1>18 DEF Agrees
<1>20. QED BY <1>19 DEF planned, next, rec

\* The tables and the empty counts start a run and its plan, and these agree.
LEMMA RunsStartAlike ==
  ASSUME CatalogInv, NEW records
  PROVE  LET db == [Database EXCEPT !.counts = NoCounts]
             plan == [owner |-> GlobalOwners(aliases), counts |-> NoCounts] IN
         db \in RunStates(aliases) /\ plan \in PlanStates /\ Agrees(plan, db, records, 0)
<1> DEFINE db == [Database EXCEPT !.counts = NoCounts]
           plan == [owner |-> GlobalOwners(aliases), counts |-> NoCounts]
<1>1. /\ assets \in [Ids -> AssetRows \cup {None}] /\ created \in Ids \cup {0}
      /\ aliases \in [Keys -> Nat \cup {None}] /\ TablesOK(assets, created, aliases)
      /\ created \in Nat
  BY IdsInOrder DEF CatalogInv
<1>2. db = [assets |-> assets, created |-> created, aliases |-> aliases,
            counts |-> NoCounts]
  BY DEF Database
<1>3. NoCounts \in Counts
  BY DEF NoCounts, Counts
<1>4. db \in RunStates(aliases)
  BY <1>1, <1>2, <1>3 DEF RunStates
<1>5. \A a \in Names : <<a, "global">> \in Keys
  BY DEF Keys, Brokers
<1>6. plan \in PlanStates
  BY <1>1, <1>3, <1>5 DEF PlanStates, GlobalOwners
<1>7. ASSUME NEW a \in Names
      PROVE  plan.owner[a] = Planned(db.assets, db.aliases[<<a, "global">>])
  <2>1. plan.owner[a] = aliases[<<a, "global">>]
    BY DEF GlobalOwners
  <2>2. aliases[<<a, "global">>] # None => aliases[<<a, "global">>] <= created
    BY <1>1, <1>5 DEF TablesOK
  <2>3. QED BY <1>2, <2>1, <2>2 DEF Planned
<1>8. \A j \in Ids : j > created => assets[j] = None
  BY <1>1, IdsInOrder DEF TablesOK
<1>9. Agrees(plan, db, records, 0)
  BY <1>1, <1>2, <1>7, <1>8 DEF Agrees
<1>10. QED BY <1>4, <1>6, <1>9

\* A run and its plan agree from record to record.
RunsAgree(p, r, records) ==
  /\ IsPlanRun(p, [owner |-> GlobalOwners(aliases), counts |-> NoCounts], records)
  /\ IsApplyRun(r, [Database EXCEPT !.counts = NoCounts], records)
  /\ \A i \in 0..Len(records) : Agrees(p[i], r[i], records, i)

\* A catalog that is applied goes as its dry run says, record by record.
LEMMA RunGoesAsPlanned ==
  ASSUME CatalogInv, NEW records \in DistinctRecords, created + Len(records) \in Ids
  PROVE  \E p \in [0..Len(records) -> PlanStates],
            r \in [0..Len(records) -> RunStates(aliases)] : RunsAgree(p, r, records)
<1> DEFINE n == Len(records)
           db == [Database EXCEPT !.counts = NoCounts]
           plan == [owner |-> GlobalOwners(aliases), counts |-> NoCounts]
<1>1. records \in Seq(CatalogRecords) /\ n \in Nat
  BY DEF DistinctRecords
<1>2. db \in RunStates(aliases) /\ plan \in PlanStates /\ Agrees(plan, db, records, 0)
  BY RunsStartAlike
<1> HIDE DEF db, plan
<1>3. PICK r \in [0..n -> RunStates(aliases)] : IsApplyRun(r, db, records)
  BY <1>1, <1>2, ApplyRuns
<1>4. PICK p \in [0..n -> PlanStates] : IsPlanRun(p, plan, records)
  BY <1>1, <1>2, PlanRuns
<1> DEFINE A == {i \in 0..n : Agrees(p[i], r[i], records, i)}
<1>5. 0 \in A
  BY <1>1, <1>2, <1>3, <1>4 DEF IsApplyRun, IsPlanRun
<1>6. ASSUME NEW i \in 1..n, i - 1 \in A PROVE i \in A
  <2>1. /\ Agrees(p[i - 1], r[i - 1], records, i - 1)
        /\ p[i - 1] \in PlanStates /\ r[i - 1] \in RunStates(aliases)
    BY <1>6
  <2>2. r[i] = ApplyRecord(r[i - 1], records[i]) /\ p[i] = PlanRecord(p[i - 1], records[i])
    BY <1>3, <1>4 DEF IsApplyRun, IsPlanRun
  <2>3. Agrees(PlanRecord(p[i - 1], records[i]), ApplyRecord(r[i - 1], records[i]),
               records, i)
    BY <2>1, RecordAsPlanned
  <2>4. QED BY <1>1, <2>2, <2>3
<1>7. \A i \in 0..n : i \in A
  <2> HIDE DEF A, n
  <2>1. QED BY <1>1, <1>5, <1>6, HoldsUpTo
<1>8. RunsAgree(p, r, records)
  BY <1>3, <1>4, <1>7 DEF RunsAgree, db, plan
<1>9. QED BY <1>8

-----------------------------------------------------------------------------
\* Rows and names of one state are still there in another.
Remains(db, later) ==
  /\ \A j \in Ids : db.assets[j] # None => later.assets[j] = db.assets[j]
  /\ \A k \in Keys : db.aliases[k] # None => later.aliases[k] = db.aliases[k]

\* The tables are well formed and in order.
InOrder(db) ==
  /\ db.created \in Nat /\ db.assets \in [Ids -> AssetRows \cup {None}]
  /\ db.aliases \in [Keys -> Nat \cup {None}]
  /\ TablesOK(db.assets, db.created, db.aliases)

\* What a record leaves: its symbol has an asset, its names have owners, and
\* a name conflicts when its owner is another asset.
Settled(db, record, later) ==
  \E id \in Ids :
    /\ later.assets[id] # None /\ later.assets[id].symbol = record.symbol
    /\ \A a \in record.aliases : later.aliases[<<a, "global">>] # None
    /\ \E isNew \in BOOLEAN :
         ApplyRecord(db, record).counts
           = CountAliases(CountAsset(db.counts, isNew), record.aliases,
                          GlobalOwners(db.aliases), id)
    /\ \A a \in record.aliases :
         \/ db.aliases[<<a, "global">>] = None /\ later.aliases[<<a, "global">>] = id
         \/ /\ db.aliases[<<a, "global">>] # None
            /\ later.aliases[<<a, "global">>] = db.aliases[<<a, "global">>]

\* A record that was applied is settled, and takes nothing away that stood before.
LEMMA RecordSettles ==
  ASSUME NEW db, InOrder(db), db.created + 1 \in Ids, NEW record \in CatalogRecords
  PROVE  /\ Remains(db, ApplyRecord(db, record))
         /\ Settled(db, record, ApplyRecord(db, record))
<1> DEFINE same  == WithSymbol(db.assets, record.symbol)
           isNew == same = {}
           id    == IF isNew THEN db.created + 1 ELSE Min(same)
           row   == AssetRow(record, record.class)
           next  == ApplyRecord(db, record)
<1>1. /\ db.created \in Nat /\ db.assets \in [Ids -> AssetRows \cup {None}]
      /\ db.aliases \in [Keys -> Nat \cup {None}]
      /\ TablesOK(db.assets, db.created, db.aliases)
  BY DEF InOrder
<1>2. Ids \subseteq Nat /\ None \notin Ids
  BY IdsInOrder, NoneIsNoRow
<1>3. /\ row \in AssetRows /\ row.symbol = record.symbol /\ row # None
      /\ record.aliases \subseteq Names
  <2>1. row \in AssetRows /\ row.symbol = record.symbol /\ record.aliases \subseteq Names
    BY DEF CatalogRecords, AssetRow, AssetRows
  <2> HIDE DEF row
  <2>2. QED BY <2>1, NoneIsNoRow
<1>4. /\ id \in Ids /\ id # None
      /\ isNew => id = db.created + 1 /\ db.assets[id] = None
      /\ ~isNew => id \in same
  <2>1. CASE isNew
    <3>1. id = db.created + 1 /\ ~ (id <= db.created)
      BY <1>1, <2>1
    <3>2. db.assets[id] = None
      BY <1>1, <3>1 DEF TablesOK
    <3>3. QED BY <1>2, <2>1, <3>1, <3>2
  <2>2. CASE ~isNew
    <3>1. same \in SUBSET Ids
      BY DEF WithSymbol
    <3>2. Min(same) \in same
      <4> HIDE DEF same
      <4>1. \E k \in same : \A m \in same : k <= m
        BY <1>2, <2>2, <3>1, LeastNumber
      <4>2. QED BY <4>1 DEF Min
    <3> HIDE DEF same
    <3>3. QED BY <1>2, <2>2, <3>1, <3>2
  <2>3. QED BY <2>1, <2>2
<1>5. /\ next.assets = IF isNew THEN [i \in DOMAIN db.assets |->
                                        IF i = id THEN row ELSE db.assets[i]]
                       ELSE db.assets
      /\ next.aliases = MapNames(db.aliases, record.aliases, id)
      /\ next.counts = CountAliases(CountAsset(db.counts, isNew), record.aliases,
                                    GlobalOwners(db.aliases), id)
  BY DEF ApplyRecord
<1>6. ~isNew => db.assets[id] # None /\ db.assets[id].symbol = record.symbol
  BY <1>4 DEF WithSymbol
<1>7. isNew \in BOOLEAN
  OBVIOUS
<1> HIDE DEF next, row, id, isNew
<1>8. /\ \A j \in Ids : db.assets[j] # None => next.assets[j] = db.assets[j]
      /\ next.assets[id] # None /\ next.assets[id].symbol = record.symbol
  <2>1. CASE isNew
    BY <1>1, <1>3, <1>4, <1>5, <2>1
  <2>2. CASE ~isNew
    BY <1>5, <1>6, <2>2
  <2>3. QED BY <2>1, <2>2
<1>9. /\ \A k \in Keys : db.aliases[k] # None => next.aliases[k] = db.aliases[k]
      /\ \A k \in Keys : k[2] = "global" /\ k[1] \in record.aliases
                           /\ db.aliases[k] = None => next.aliases[k] = id
  BY <1>1, <1>5 DEF MapNames
<1>10. ASSUME NEW a \in record.aliases
       PROVE  /\ next.aliases[<<a, "global">>] # None
              /\ \/ db.aliases[<<a, "global">>] = None /\ next.aliases[<<a, "global">>] = id
                 \/ /\ db.aliases[<<a, "global">>] # None
                    /\ next.aliases[<<a, "global">>] = db.aliases[<<a, "global">>]
  <2> DEFINE k == <<a, "global">>
  <2>1. k \in Keys /\ k[2] = "global" /\ k[1] = a
    BY <1>3 DEF Keys, Brokers
  <2> HIDE DEF k
  <2>2. next.aliases[k] = IF db.aliases[k] = None THEN id ELSE db.aliases[k]
    BY <1>9, <2>1
  <2>3. QED BY <1>4, <2>2 DEF k
<1>11. Remains(db, next)
  BY <1>8, <1>9 DEF Remains
<1>12. Settled(db, record, next)
  BY <1>4, <1>5, <1>7, <1>8, <1>10 DEF Settled, next
<1>13. QED BY <1>11, <1>12 DEF next

\* It is settled for good.
LEMMA SettledRemains ==
  ASSUME NEW db, NEW record \in CatalogRecords, NEW later, NEW last,
         Settled(db, record, later), Remains(later, last)
  PROVE  Settled(db, record, last)
<1>1. PICK id \in Ids :
        /\ later.assets[id] # None /\ later.assets[id].symbol = record.symbol
        /\ \A a \in record.aliases : later.aliases[<<a, "global">>] # None
        /\ \E isNew \in BOOLEAN :
             ApplyRecord(db, record).counts
               = CountAliases(CountAsset(db.counts, isNew), record.aliases,
                              GlobalOwners(db.aliases), id)
        /\ \A a \in record.aliases :
             \/ db.aliases[<<a, "global">>] = None /\ later.aliases[<<a, "global">>] = id
             \/ /\ db.aliases[<<a, "global">>] # None
                /\ later.aliases[<<a, "global">>] = db.aliases[<<a, "global">>]
  BY DEF Settled
<1>2. \A a \in record.aliases : <<a, "global">> \in Keys
  BY DEF CatalogRecords, Keys, Brokers
<1>3. /\ last.assets[id] = later.assets[id]
      /\ \A a \in record.aliases :
           last.aliases[<<a, "global">>] = later.aliases[<<a, "global">>]
  BY <1>1, <1>2 DEF Remains
<1>4. /\ last.assets[id] # None /\ last.assets[id].symbol = record.symbol
      /\ \A a \in record.aliases : last.aliases[<<a, "global">>] # None
  BY <1>1, <1>3
<1>5. \A a \in record.aliases :
        \/ db.aliases[<<a, "global">>] = None /\ last.aliases[<<a, "global">>] = id
        \/ /\ db.aliases[<<a, "global">>] # None
           /\ last.aliases[<<a, "global">>] = db.aliases[<<a, "global">>]
  <2> SUFFICES ASSUME NEW a \in record.aliases
               PROVE  \/ db.aliases[<<a, "global">>] = None
                           /\ last.aliases[<<a, "global">>] = id
                      \/ /\ db.aliases[<<a, "global">>] # None
                         /\ last.aliases[<<a, "global">>] = db.aliases[<<a, "global">>]
    OBVIOUS
  <2>1. last.aliases[<<a, "global">>] = later.aliases[<<a, "global">>]
    BY <1>3
  <2>2. QED BY <1>1, <2>1
<1>6. QED BY <1>1, <1>4, <1>5 DEF Settled

\* The names that a record takes, and those that are counted a conflict.
FreeOf(names, owner) == {a \in names : owner[a] = None}

ConflictsOf(names, owner, id) ==
  names \ ({a \in names : owner[a] = None} \cup {a \in names : owner[a] = id})

\* The counts after a record, one by one.
LEMMA CountFields ==
  ASSUME NEW counts \in Counts, NEW isNew \in BOOLEAN, NEW names, NEW owner, NEW id,
         NEW after, after = CountAliases(CountAsset(counts, isNew), names, owner, id)
  PROVE  /\ ~isNew => after.assetsCreated = counts.assetsCreated
         /\ after.aliasesCreated
              = counts.aliasesCreated + Cardinality(FreeOf(names, owner))
         /\ after.conflicts
              = counts.conflicts + Cardinality(ConflictsOf(names, owner, id))
<1> DEFINE free == {a \in names : owner[a] = None}
           known == {a \in names : owner[a] = id}
           c == CountAsset(counts, isNew)
<1>1. /\ c \in Counts
      /\ ~isNew => c.assetsCreated = counts.assetsCreated
      /\ c.aliasesCreated = counts.aliasesCreated /\ c.conflicts = counts.conflicts
  BY DEF CountAsset, Counts
<1>2. after = [c EXCEPT !.aliasesCreated = @ + Cardinality(free),
                        !.aliasesSkipped = @ + Cardinality(known),
                        !.conflicts = @ + Cardinality(names \ (free \cup known))]
  BY DEF CountAliases
<1> HIDE DEF c, free, known
<1>3. /\ after.assetsCreated = c.assetsCreated
      /\ after.aliasesCreated = c.aliasesCreated + Cardinality(free)
      /\ after.conflicts = c.conflicts + Cardinality(names \ (free \cup known))
  BY <1>1, <1>2 DEF Counts
<1>4. names \ (free \cup known) = ConflictsOf(names, owner, id)
  BY DEF free, known, ConflictsOf
<1>5. QED BY <1>1, <1>3, <1>4 DEF free, FreeOf

\* A record that is settled changes nothing when it is applied again, and
\* has the conflicts that it had.
LEMMA AppliedAgain ==
  ASSUME NEW db, db.counts \in Counts, NEW record \in CatalogRecords,
         NEW last, InOrder(last), Settled(db, record, last),
         NEW again, again.assets = last.assets, again.aliases = last.aliases,
         again.created = last.created, again.counts \in Counts,
         again.counts.conflicts = db.counts.conflicts
  PROVE  LET next == ApplyRecord(again, record) IN
         /\ next.assets = last.assets /\ next.aliases = last.aliases
         /\ next.created = last.created
         /\ next.counts.assetsCreated = again.counts.assetsCreated
         /\ next.counts.aliasesCreated = again.counts.aliasesCreated
         /\ next.counts.conflicts = ApplyRecord(db, record).counts.conflicts
<1> DEFINE next == ApplyRecord(again, record)
           names == record.aliases
           before(a) == db.aliases[<<a, "global">>]
           owner(a) == last.aliases[<<a, "global">>]
<1>1. PICK id \in Ids :
        /\ last.assets[id] # None /\ last.assets[id].symbol = record.symbol
        /\ \A a \in names : owner(a) # None
        /\ \E isNew \in BOOLEAN :
             ApplyRecord(db, record).counts
               = CountAliases(CountAsset(db.counts, isNew), names,
                              GlobalOwners(db.aliases), id)
        /\ \A a \in names : \/ before(a) = None /\ owner(a) = id
                            \/ before(a) # None /\ owner(a) = before(a)
  BY DEF Settled
<1>2. /\ last.aliases \in [Keys -> Nat \cup {None}]
      /\ TablesOK(last.assets, last.created, last.aliases)
  BY DEF InOrder
<1>3. names \subseteq Names
  BY DEF CatalogRecords
<1>4. /\ WithSymbol(again.assets, record.symbol) = {id}
      /\ Min(WithSymbol(again.assets, record.symbol)) = id
  <2>1. \A i \in Ids : last.assets[i] # None /\ last.assets[i].symbol = record.symbol
                         => i = id
    BY <1>1, <1>2 DEF TablesOK
  <2>2. WithSymbol(again.assets, record.symbol) = {id}
    BY <1>1, <2>1 DEF WithSymbol
  <2>3. id \in Nat
    BY IdsInOrder
  <2>4. Min({id}) = id
    BY <2>3 DEF Min
  <2>5. QED BY <2>2, <2>4
<1>5. /\ next.assets = last.assets /\ next.created = last.created
      /\ next.aliases = MapNames(last.aliases, names, id)
      /\ next.counts = CountAliases(CountAsset(again.counts, FALSE), names,
                                    GlobalOwners(last.aliases), id)
  BY <1>4 DEF ApplyRecord
<1>6. MapNames(last.aliases, names, id) = last.aliases
  <2>1. ASSUME NEW k \in Keys, k[2] = "global", k[1] \in names
        PROVE  last.aliases[k] # None
    <3>1. k = <<k[1], "global">>
      BY <2>1 DEF Keys
    <3>2. QED BY <1>1, <2>1, <3>1
  <2>2. QED BY <1>2, <2>1 DEF MapNames
<1>7. \A a \in names : /\ GlobalOwners(db.aliases)[a] = before(a)
                       /\ GlobalOwners(last.aliases)[a] = owner(a)
  BY <1>3 DEF GlobalOwners
<1> HIDE DEF next, names, before, owner
<1>8. FreeOf(names, GlobalOwners(last.aliases)) = {}
  BY <1>1, <1>7 DEF FreeOf
<1>9. ConflictsOf(names, GlobalOwners(last.aliases), id)
        = ConflictsOf(names, GlobalOwners(db.aliases), id)
  BY <1>1, <1>7 DEF ConflictsOf
<1> DEFINE old == GlobalOwners(db.aliases)
           new == GlobalOwners(last.aliases)
<1> HIDE DEF old, new
<1>10. /\ next.counts.assetsCreated = again.counts.assetsCreated
       /\ next.counts.aliasesCreated
            = again.counts.aliasesCreated + Cardinality(FreeOf(names, new))
       /\ next.counts.conflicts
            = again.counts.conflicts + Cardinality(ConflictsOf(names, new, id))
  <2>1. PICK isNew \in BOOLEAN : ~isNew
    OBVIOUS
  <2>2. CountAsset(again.counts, FALSE) = CountAsset(again.counts, isNew)
    BY <2>1 DEF CountAsset
  <2>3. next.counts = CountAliases(CountAsset(again.counts, isNew), names, new, id)
    BY <1>5, <2>2 DEF new
  <2>4. QED BY <2>1, <2>3, CountFields
<1>11. next.counts.aliasesCreated = again.counts.aliasesCreated
  <2>1. Cardinality(FreeOf(names, new)) = 0
    BY <1>8, FS_EmptySet DEF new
  <2>2. again.counts.aliasesCreated \in Nat
    BY DEF Counts
  <2>3. QED BY <1>10, <2>1, <2>2
<1>12. ApplyRecord(db, record).counts.conflicts
         = db.counts.conflicts + Cardinality(ConflictsOf(names, old, id))
  <2>1. PICK isNew \in BOOLEAN :
          ApplyRecord(db, record).counts
            = CountAliases(CountAsset(db.counts, isNew), names, old, id)
    BY <1>1 DEF old
  <2>2. QED BY <2>1, CountFields
<1>13. next.counts.conflicts = ApplyRecord(db, record).counts.conflicts
  BY <1>9, <1>10, <1>12 DEF old, new
<1>14. QED BY <1>5, <1>6, <1>10, <1>11, <1>13 DEF next

-----------------------------------------------------------------------------
\* What a run leaves of each of its records.
LEMMA RunSettles ==
  ASSUME CatalogInv, NEW records \in DistinctRecords, created + Len(records) \in Ids,
         NEW p \in [0..Len(records) -> PlanStates],
         NEW r \in [0..Len(records) -> RunStates(aliases)], RunsAgree(p, r, records)
  PROVE  /\ InOrder(r[Len(records)])
         /\ \A i \in 1..Len(records) :
              Settled(r[i - 1], records[i], r[Len(records)])
<1> DEFINE n == Len(records)
           Kept(i, j) == Remains(r[i], r[j])
           A == {j \in 0..n : \A i \in 0..j : Kept(i, j)}
<1>1. /\ n \in Nat /\ \A i \in 1..n : records[i] \in CatalogRecords
      /\ created \in Nat /\ created + n \in Ids
  BY IdsInOrder DEF DistinctRecords, CatalogInv
<1>2. \A i \in 0..n : /\ r[i] \in RunStates(aliases)
                      /\ created <= r[i].created /\ r[i].created <= created + i
  BY DEF RunsAgree, Agrees
<1>3. \A i \in 1..n : r[i] = ApplyRecord(r[i - 1], records[i])
  BY DEF RunsAgree, IsApplyRun
<1> HIDE DEF n
<1>4. ASSUME NEW i \in 0..n PROVE InOrder(r[i])
  <2>1. r[i].created \in Nat /\ r[i].created <= created + n
    BY <1>1, <1>2 DEF RunStates
  <2>2. r[i].created = 0 \/ r[i].created \in 1..(created + n)
    BY <1>1, <2>1
  <2>3. r[i].created \in Ids \cup {0}
    BY <1>1, <2>2, IdsInOrder
  <2>4. QED BY <1>2, <2>3 DEF RunStates, InOrder
<1>5. ASSUME NEW i \in 1..n
      PROVE  Remains(r[i - 1], r[i]) /\ Settled(r[i - 1], records[i], r[i])
  <2>1. i - 1 \in 0..n
    BY <1>1
  <2>2. r[i - 1].created \in Nat /\ r[i - 1].created <= created + (i - 1)
    BY <1>2, <2>1 DEF RunStates
  <2>3. r[i - 1].created + 1 \in 1..(created + n)
    BY <1>1, <2>2
  <2>4. r[i - 1].created + 1 \in Ids
    BY <1>1, <2>3, IdsInOrder
  <2>5. QED BY <1>1, <1>3, <1>4, <2>1, <2>4, RecordSettles
<1>6. 0 \in A
  <2>1. Kept(0, 0)
    BY DEF Remains
  <2>2. QED BY <1>1, <2>1
<1>7. ASSUME NEW j \in 1..n, j - 1 \in A PROVE j \in A
  <2>1. ASSUME NEW i \in 0..j PROVE Kept(i, j)
    <3>1. CASE i = j
      BY <3>1 DEF Remains
    <3>2. CASE i # j
      <4>1. i \in 0..(j - 1)
        BY <1>1, <3>2
      <4>2. Remains(r[i], r[j - 1]) /\ Remains(r[j - 1], r[j])
        BY <1>5, <1>7, <4>1
      <4>3. QED BY <4>2 DEF Remains
    <3>3. QED BY <3>1, <3>2
  <2> HIDE DEF Kept
  <2>2. QED BY <1>1, <2>1
<1>8. \A j \in 0..n : j \in A
  <2> HIDE DEF A
  <2>1. QED BY <1>1, <1>6, <1>7, HoldsUpTo
<1>9. \A i \in 1..n : Settled(r[i - 1], records[i], r[n])
  <2> SUFFICES ASSUME NEW i \in 1..n PROVE Settled(r[i - 1], records[i], r[n])
    OBVIOUS
  <2>1. n \in A /\ i \in 0..n
    BY <1>1, <1>8
  <2>2. Remains(r[i], r[n])
    BY <2>1
  <2>3. QED BY <1>1, <1>5, <2>2, SettledRemains
<1>10. QED BY <1>1, <1>4, <1>9 DEF n

\* A second run of the same records creates nothing.
LEMMA SecondRun ==
  ASSUME CatalogInv, NEW records \in DistinctRecords, created + Len(records) \in Ids,
         NEW p \in [0..Len(records) -> PlanStates],
         NEW r \in [0..Len(records) -> RunStates(aliases)], RunsAgree(p, r, records)
  PROVE  LET again == ApplyCatalog(r[Len(records)], records) IN
         /\ again.counts.assetsCreated = 0 /\ again.counts.aliasesCreated = 0
         /\ again.counts.conflicts = r[Len(records)].counts.conflicts
<1> DEFINE n == Len(records)
           last == r[n]
           base == [last EXCEPT !.counts = NoCounts]
           Same(db) == /\ db.assets = last.assets /\ db.aliases = last.aliases
                       /\ db.created = last.created
           Nothing(db, first) == /\ db.counts.assetsCreated = 0
                                 /\ db.counts.aliasesCreated = 0
                                 /\ db.counts.conflicts = first.counts.conflicts
<1>1. /\ n \in Nat /\ records \in Seq(CatalogRecords)
      /\ \A i \in 1..n : records[i] \in CatalogRecords
  BY DEF DistinctRecords
<1>2. InOrder(last) /\ \A i \in 1..n : Settled(r[i - 1], records[i], last)
  BY RunSettles
<1>3. /\ r[0] = [Database EXCEPT !.counts = NoCounts]
      /\ \A i \in 1..n : r[i] = ApplyRecord(r[i - 1], records[i])
  BY DEF RunsAgree, IsApplyRun
<1>4. \A i \in 0..n : r[i] \in RunStates(aliases) /\ r[i].counts \in Counts
  BY DEF RunStates
<1>5. NoCounts \in Counts /\ NoCounts.conflicts = 0 /\ NoCounts.assetsCreated = 0
      /\ NoCounts.aliasesCreated = 0
  BY DEF NoCounts, Counts
<1>6. r[0].counts = NoCounts
  BY <1>3 DEF Database
<1>7. base \in RunStates(aliases) /\ base.counts = NoCounts /\ Same(base)
  <2>1. last \in RunStates(aliases)
    BY <1>1, <1>4
  <2> HIDE DEF last
  <2>2. QED BY <1>5, <2>1 DEF RunStates
<1> HIDE DEF n, base, last
<1>8. PICK q \in [0..n -> RunStates(aliases)] : IsApplyRun(q, base, records)
  BY <1>1, <1>7, ApplyRuns DEF n
<1>9. /\ q[0] = base /\ q[n] = FoldLeft(ApplyRecord, base, records)
      /\ \A i \in 1..n : q[i] = ApplyRecord(q[i - 1], records[i])
  BY <1>8 DEF IsApplyRun, n
<1> DEFINE A == {i \in 0..n : Same(q[i]) /\ Nothing(q[i], r[i])}
<1>10. 0 \in A
  BY <1>1, <1>5, <1>6, <1>7, <1>9
<1>11. ASSUME NEW i \in 1..n, i - 1 \in A PROVE i \in A
  <2>1. i - 1 \in 0..n /\ i \in 0..n /\ Same(q[i - 1]) /\ Nothing(q[i - 1], r[i - 1])
    BY <1>1, <1>11
  <2>2. q[i - 1].counts \in Counts /\ r[i - 1].counts \in Counts
    BY <1>4, <2>1 DEF RunStates
  <2>3. Settled(r[i - 1], records[i], last) /\ records[i] \in CatalogRecords
    BY <1>1, <1>2
  <2> DEFINE next == ApplyRecord(q[i - 1], records[i])
  <2>4. /\ next.assets = last.assets /\ next.aliases = last.aliases
        /\ next.created = last.created
        /\ next.counts.assetsCreated = q[i - 1].counts.assetsCreated
        /\ next.counts.aliasesCreated = q[i - 1].counts.aliasesCreated
        /\ next.counts.conflicts = ApplyRecord(r[i - 1], records[i]).counts.conflicts
    BY <1>2, <2>1, <2>2, <2>3, AppliedAgain
  <2> HIDE DEF next
  <2>5. q[i] = next /\ r[i] = ApplyRecord(r[i - 1], records[i])
    BY <1>3, <1>9 DEF next
  <2>6. QED BY <2>1, <2>4, <2>5
<1>12. \A i \in 0..n : i \in A
  <2> HIDE DEF A
  <2>1. QED BY <1>1, <1>10, <1>11, HoldsUpTo
<1>13. Nothing(q[n], last)
  <2>1. n \in A
    BY <1>1, <1>12
  <2>2. QED BY <2>1 DEF last
<1>14. q[n] = ApplyCatalog(last, records)
  BY <1>9 DEF ApplyCatalog, base
<1>15. QED BY <1>13, <1>14 DEF last, n

\* What the invariant says of dry runs.
LEMMA PlansAreTrue ==
  ASSUME CatalogInv
  PROVE  DryRunIsTrue
<1> SUFFICES ASSUME NEW catalog \in Catalogs,
                    created + Len(Collect(catalog)) \in Ids
             PROVE  LET records == Collect(catalog)
                        after   == ApplyCatalog(Database, records)
                        again   == ApplyCatalog(after, records) IN
                    /\ PlanCatalog(records).counts = after.counts
                    /\ again.counts.assetsCreated = 0
                    /\ again.counts.aliasesCreated = 0
                    /\ again.counts.conflicts = after.counts.conflicts
  BY DEF DryRunIsTrue
<1> DEFINE records == Collect(catalog)
           n == Len(records)
<1>1. records \in DistinctRecords /\ created + n \in Ids
  BY CollectIsDistinct
<1> HIDE DEF records
<1>2. PICK p \in [0..n -> PlanStates], r \in [0..n -> RunStates(aliases)] :
        RunsAgree(p, r, records)
  BY <1>1, RunGoesAsPlanned
<1>3. n \in Nat
  BY <1>1 DEF DistinctRecords
<1>4. p[n] = PlanCatalog(records) /\ r[n] = ApplyCatalog(Database, records)
  BY <1>2 DEF RunsAgree, IsPlanRun, IsApplyRun, PlanCatalog, ApplyCatalog
<1>5. p[n].counts = r[n].counts
  BY <1>2, <1>3 DEF RunsAgree, Agrees
<1>6. LET again == ApplyCatalog(r[n], records) IN
      /\ again.counts.assetsCreated = 0 /\ again.counts.aliasesCreated = 0
      /\ again.counts.conflicts = r[n].counts.conflicts
  BY <1>1, <1>2, SecondRun
<1>7. QED BY <1>4, <1>5, <1>6 DEF records

(***************************************************************************)
(* tw-catalog-upsert.ts: planTwCatalogUpserts counts what                  *)
(* applyTwCatalogUpserts does, for any catalog and any tables that users   *)
(* and earlier runs have left, and applying the same records once more     *)
(* creates nothing and finds the same conflicts.                           *)
(***************************************************************************)
THEOREM DryRunsAreTrue == CatalogSpec => []DryRunIsTrue
<1> QED BY CatalogInitial, CatalogInductive, PlansAreTrue, PTL DEF CatalogSpec
=============================================================================
