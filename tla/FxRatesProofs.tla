---------------------------- MODULE FxRatesProofs ---------------------------
(***************************************************************************)
(* The cache of exchange rates for any number of requests, any calendar    *)
(* and any number of faults: an answer fits its question, a stored rate is *)
(* lost only by a fault, and the doubled rows of a day are few.            *)
(***************************************************************************)
EXTENDS FxRates, FiniteSetTheorems, WellFoundedInduction, TLAPS

(***************************************************************************)
(* The days of a calendar have a latest one, so that the newest stored or  *)
(* published rate of a nonempty choice is one of them.                     *)
(***************************************************************************)
LEMMA LatestDay ==
  ASSUME NEW D \in SUBSET (1..LastDay), D # {}
  PROVE  Max(D) \in D /\ \A d \in D : d <= Max(D)
<1> DEFINE T == {LastDay - d : d \in D}
<1>1. D \subseteq 1..LastDay
  OBVIOUS
<1>2. T \subseteq Nat /\ T # {}
  <2>1. \A d \in D : LastDay - d \in Nat
    BY <1>1, LastDayIsADay
  <2>2. QED BY <2>1
<1>3. PICK x \in T : \A y \in T : ~ (<<y, x>> \in OpToRel(<, Nat))
  <2> HIDE DEF T
  <2>1. QED BY <1>2, NatLessThanWellFounded, WFMin
<1>4. ASSUME NEW y \in T PROVE x <= y
  <2>1. x \in Nat /\ y \in Nat /\ ~ (<<y, x>> \in OpToRel(<, Nat))
    BY <1>2, <1>3, <1>4
  <2> HIDE DEF T
  <2>2. QED BY <2>1 DEF OpToRel
<1>5. PICK d \in D : x = LastDay - d
  BY <1>3
<1>6. \A e \in D : d >= e
  BY <1>1, <1>4, <1>5, LastDayIsADay
<1>7. QED BY <1>1, <1>5, <1>6 DEF Max

-----------------------------------------------------------------------------
(***************************************************************************)
(* The inductive invariant.  Only published days have rows, what a request *)
(* has fetched is a published day that answers its question, and so is     *)
(* what it has answered.                                                   *)
(***************************************************************************)
RequestRow ==
  [phase : {"idle", "fetch", "delete", "create", "answered"},
   exact : BOOLEAN, target : 0..LastDay, rate : 0..LastDay]

Asking(r) == request[r].phase # "idle"

Fits(r) ==
  /\ request[r].rate \in ProviderDays(request[r].target)
  /\ request[r].exact =>
       \A d \in ProviderDays(request[r].target) : d <= request[r].rate

FxInv ==
  /\ day \in 1..LastDay
  /\ rows \in [1..LastDay -> Nat]
  /\ request \in [Requests -> RequestRow]
  /\ faults \in Nat
  /\ StoredDays \subseteq Published
  /\ \A r \in Requests :
       /\ Asking(r) => request[r].target \in 1..day
       /\ request[r].phase \in {"delete", "create", "answered"} => Fits(r)

\* The invariant holds at first.
LEMMA FxInitial == FxInit => FxInv
BY LastDayIsADay DEF FxInit, FxInv, Idle, RequestRow, StoredDays, Published, Asking

\* Every step keeps it.
LEMMA FxInductive == FxInv /\ [FxNext]_fxVars => FxInv'
<1> SUFFICES ASSUME FxInv, [FxNext]_fxVars PROVE FxInv'
  OBVIOUS
<1> USE LastDayIsADay, RateDaysAreDays
<1>1. ASSUME NEW r \in Requests, NEW target \in 1..day, NEW exact \in BOOLEAN,
             Ask(r, exact, target)
      PROVE  FxInv'
  <2> DEFINE found == FindStored(exact, target)
  <2>1. found \subseteq 1..LastDay /\ found \subseteq Published
    BY DEF FxInv, FindStored, StoredDays
  <2>2. found # {} => Max(found) \in found
    BY <2>1, LatestDay
  <2>3. request' \in [Requests -> RequestRow]
    BY SMTT(60), <1>1, <2>1, <2>2 DEF Ask, FxInv, RequestRow
  <2>4. request'[r].target = target /\ request'[r].exact = exact
    BY <1>1 DEF Ask, FxInv
  <2>5. CASE found = {}
    BY <1>1, <2>3, <2>4, <2>5
    DEF Ask, FxInv, Asking, Fits, ProviderDays, Published, StoredDays
  <2>6. CASE found # {}
    <3>1. request'[r].rate = Max(found)
      BY <1>1, <2>6 DEF Ask, FxInv
    <3>2. Max(found) \in {d \in Published : d <= target}
      BY <2>1, <2>2, <2>6 DEF FindStored, StoredDays, FxInv
    <3>3. exact => Max(found) = target
      BY <2>2, <2>6 DEF FindStored
    <3>4. Fits(r)'
      BY <1>1, <2>4, <3>1, <3>2, <3>3
      DEF Ask, Fits, ProviderDays, Published, FxInv
    <3>5. \A q \in Requests \ {r} : request'[q] = request[q]
      BY <1>1 DEF Ask, FxInv
    <3>6. \A q \in Requests :
            /\ Asking(q)' => request'[q].target \in 1..day
            /\ request'[q].phase \in {"delete", "create", "answered"} => Fits(q)'
      BY <1>1, <2>4, <3>4, <3>5
      DEF Ask, FxInv, Asking, Fits, ProviderDays, Published
    <3>7. QED BY <1>1, <2>3, <3>6 DEF Ask, FxInv, StoredDays, Published
  <2>7. QED BY <2>5, <2>6
<1>2. ASSUME NEW r \in Requests, Fetch(r) PROVE FxInv'
  <2> DEFINE days == ProviderDays(request[r].target)
  <2>1. days \subseteq 1..LastDay /\ days # {}
    BY <1>2 DEF Fetch, ProviderDays, Published
  <2>2. Max(days) \in days /\ \A d \in days : d <= Max(days)
    BY <2>1, LatestDay
  <2>3. request' \in [Requests -> RequestRow]
    <3>1. Max(days) \in 0..LastDay
      BY <2>1, <2>2
    <3>2. request' = [request EXCEPT ![r].phase = "delete", ![r].rate = Max(days)]
      BY <1>2 DEF Fetch, Step
    <3> HIDE DEF days
    <3>3. QED BY ZenonT(60), <3>1, <3>2 DEF FxInv, RequestRow
  <2>4. /\ request'[r].rate = Max(days)
        /\ request'[r].target = request[r].target
        /\ request[r].target \in 1..day
    BY <1>2 DEF Fetch, Step, FxInv, RequestRow, Asking
  <2>5. Fits(r)'
    BY <1>2, <2>2, <2>4 DEF Fetch, Fits, ProviderDays, Published
  <2>6. \A q \in Requests \ {r} : request'[q] = request[q]
    BY <1>2 DEF Fetch, Step, FxInv
  <2>7. \A q \in Requests :
          /\ Asking(q)' => request'[q].target \in 1..day
          /\ request'[q].phase \in {"delete", "create", "answered"} => Fits(q)'
    BY <1>2, <2>4, <2>5, <2>6
    DEF Fetch, FxInv, Asking, Fits, ProviderDays, Published
  <2>8. QED BY <1>2, <2>3, <2>7 DEF Fetch, FxInv, StoredDays, Published
<1>3. ASSUME NEW r \in Requests, NotFound(r) \/ RequestFails(r) PROVE FxInv'
  <2>1. request' = [request EXCEPT ![r] = Idle] /\ UNCHANGED <<day, rows>>
        /\ faults' \in Nat
    BY <1>3 DEF NotFound, RequestFails, FxInv
  <2>2. QED BY <2>1
    DEF FxInv, Idle, RequestRow, Asking, Fits, ProviderDays, Published, StoredDays
<1>4. ASSUME NEW r \in Requests, DeleteStored(r) PROVE FxInv'
  <2>1. request[r].rate \in 1..LastDay /\ Fits(r) /\ request[r].target \in 1..day
    BY <1>4 DEF DeleteStored, FxInv, Fits, ProviderDays, Published, Asking
  <2>2. /\ request' \in [Requests -> RequestRow]
        /\ rows' \in [1..LastDay -> Nat]
        /\ StoredDays' \subseteq StoredDays
    <3>1. request' \in [Requests -> RequestRow]
      BY ZenonT(60), <1>4, <2>1 DEF DeleteStored, Step, FxInv, RequestRow
    <3>2. rows' \in [1..LastDay -> Nat]
      BY <1>4 DEF DeleteStored, FxInv
    <3>3. \A d \in 1..LastDay : rows'[d] > 0 => rows[d] > 0
      BY <1>4 DEF DeleteStored, FxInv
    <3>4. QED BY <3>1, <3>2, <3>3 DEF StoredDays
  <2>3. \A q \in Requests :
          /\ request'[q].rate = request[q].rate
          /\ request'[q].target = request[q].target
          /\ request'[q].exact = request[q].exact
          /\ q # r => request'[q].phase = request[q].phase
    BY <1>4 DEF DeleteStored, Step, FxInv, RequestRow
  <2>4. QED BY <1>4, <2>1, <2>2, <2>3
    DEF DeleteStored, FxInv, Asking, Fits, ProviderDays, Published
<1>5. ASSUME NEW r \in Requests, CreateStored(r) PROVE FxInv'
  <2>1. /\ request[r].rate \in 1..LastDay /\ request[r].rate \in Published
        /\ Fits(r) /\ request[r].target \in 1..day
    BY <1>5 DEF CreateStored, FxInv, Fits, ProviderDays, Published, Asking
  <2>2. /\ request' \in [Requests -> RequestRow]
        /\ rows' \in [1..LastDay -> Nat]
        /\ StoredDays' \subseteq StoredDays \cup {request[r].rate}
    <3>1. request' \in [Requests -> RequestRow]
      BY ZenonT(60), <1>5, <2>1 DEF CreateStored, Step, FxInv, RequestRow
    <3>2. rows' \in [1..LastDay -> Nat]
      BY <1>5, <2>1 DEF CreateStored, FxInv
    <3>3. \A d \in 1..LastDay :
            rows'[d] > 0 => rows[d] > 0 \/ d = request[r].rate
      BY <1>5 DEF CreateStored, FxInv
    <3>4. QED BY <3>1, <3>2, <3>3 DEF StoredDays
  <2>3. \A q \in Requests :
          /\ request'[q].rate = request[q].rate
          /\ request'[q].target = request[q].target
          /\ request'[q].exact = request[q].exact
          /\ q # r => request'[q].phase = request[q].phase
    BY <1>5 DEF CreateStored, Step, FxInv, RequestRow
  <2>4. QED BY ZenonT(60), <1>5, <2>1, <2>2, <2>3
    DEF CreateStored, FxInv, Asking, Fits, ProviderDays, Published
<1>6. CASE NextDay
  <2>1. \A r \in Requests : Asking(r) =>
          ProviderDays(request[r].target)' = ProviderDays(request[r].target)
    <3> SUFFICES ASSUME NEW r \in Requests, Asking(r)
                 PROVE  {d \in Published' : d <= request[r].target}
                          = {d \in Published : d <= request[r].target}
      BY <1>6 DEF NextDay, ProviderDays
    <3>1. request[r].target \in 1..day /\ day \in 1..LastDay /\ day' = day + 1
      BY <1>6 DEF NextDay, FxInv
    <3>2. \A d \in RateDays : d <= request[r].target => d <= day /\ d <= day'
      BY <3>1
    <3>3. QED BY <3>2 DEF Published
  <2>2. QED BY <1>6, <2>1
    DEF NextDay, FxInv, Asking, Fits, Published, StoredDays
<1>7. CASE UNCHANGED fxVars
  BY <1>7
  DEF fxVars, FxInv, Asking, Fits, ProviderDays, Published, StoredDays
<1>8. QED BY <1>1, <1>2, <1>3, <1>4, <1>5, <1>6, <1>7 DEF FxNext

(***************************************************************************)
(* The invariant holds of every behaviour.                                 *)
(***************************************************************************)
THEOREM FxInvariant == FxSpec => []FxInv
BY FxInitial, FxInductive, PTL DEF FxSpec

(***************************************************************************)
(* An answer is a rate of the day asked for or of a day before it, and the *)
(* answer for today is the newest one of that day (fx-rate.service.ts:32,  *)
(* :66).                                                                   *)
(***************************************************************************)
THEOREM AnswersFit == FxSpec => []AnswersFitTheQuestion
<1>1. FxInv => AnswersFitTheQuestion
  <2> SUFFICES ASSUME FxInv, NEW r \in Requests, request[r].phase = "answered"
               PROVE  /\ request[r].rate \in ProviderDays(request[r].target)
                      /\ request[r].exact =>
                           request[r].rate = Max(ProviderDays(request[r].target))
    BY DEF AnswersFitTheQuestion
  <2> DEFINE days == ProviderDays(request[r].target)
  <2>1. Fits(r)
    BY DEF FxInv
  <2>2. days \subseteq 1..LastDay /\ days # {}
    BY <2>1, RateDaysAreDays DEF Fits, ProviderDays, Published
  <2>3. Max(days) \in days /\ \A d \in days : d <= Max(days)
    BY <2>2, LatestDay
  <2>4. QED BY <2>1, <2>2, <2>3, LastDayIsADay DEF Fits
<1>2. QED BY <1>1, FxInvariant, PTL

(***************************************************************************)
(* A stored rate is missing only while a request replaces it, and lost     *)
(* only when that request breaks off (fx-rate.service.ts:121).             *)
(***************************************************************************)
THEOREM RatesStay == FxSpec => StoredRatesStay
<1>1. FxInv /\ [FxNext]_fxVars => [StoredRatesStayStep]_fxVars
  <2> SUFFICES ASSUME FxInv, FxNext, NEW d \in 1..LastDay,
                      rows[d] > 0 \/ Writing(d)
               PROVE  rows'[d] > 0 \/ Writing(d)' \/ faults' > faults
    BY DEF StoredRatesStayStep, fxVars
  <2> USE LastDayIsADay
  <2>1. ASSUME NEW r \in Requests, NEW target \in 1..day, NEW exact \in BOOLEAN,
               Ask(r, exact, target)
        PROVE  rows'[d] > 0 \/ Writing(d)'
    BY <2>1 DEF Ask, Writing, FxInv
  <2>2. ASSUME NEW r \in Requests, Fetch(r) \/ NotFound(r)
        PROVE  rows'[d] > 0 \/ Writing(d)'
    BY <2>2 DEF Fetch, NotFound, Step, Writing, FxInv
  <2>3. ASSUME NEW r \in Requests, DeleteStored(r)
        PROVE  rows'[d] > 0 \/ Writing(d)'
    <3>1. CASE request[r].rate = d
      BY <2>3, <3>1 DEF DeleteStored, Step, Writing, FxInv, RequestRow
    <3>2. CASE request[r].rate # d
      BY <2>3, <3>2 DEF DeleteStored, Step, Writing, FxInv
    <3>3. QED BY <3>1, <3>2
  <2>4. ASSUME NEW r \in Requests, CreateStored(r)
        PROVE  rows'[d] > 0 \/ Writing(d)'
    <3>1. CASE request[r].rate = d
      BY <2>4, <3>1 DEF CreateStored, FxInv
    <3>2. CASE request[r].rate # d
      BY <2>4, <3>2 DEF CreateStored, Step, Writing, FxInv
    <3>3. QED BY <3>1, <3>2
  <2>5. ASSUME NEW r \in Requests, RequestFails(r)
        PROVE  faults' > faults
    BY <2>5 DEF RequestFails, FxInv
  <2>6. CASE NextDay
    BY <2>6 DEF NextDay, Writing
  <2>7. QED BY <2>1, <2>2, <2>3, <2>4, <2>5, <2>6 DEF FxNext
<1>2. QED BY <1>1, FxInvariant, PTL DEF FxSpec, StoredRatesStay

-----------------------------------------------------------------------------
(***************************************************************************)
(* Why doubled rows stay few: the rows of a day and the requests that are  *)
(* about to add one to it are together never more than the requests.       *)
(***************************************************************************)
Adding(d) == {r \in Requests : request[r].phase = "create" /\ request[r].rate = d}

RowsAreFew == \A d \in 1..LastDay : rows[d] + Cardinality(Adding(d)) <= Cardinality(Requests)

\* Nobody starts to add a row and no row is added: the sum does not grow.
LEMMA FewerAdd ==
  ASSUME FxInv, RowsAreFew, NEW d \in 1..LastDay,
         rows'[d] \in Nat, rows'[d] <= rows[d], Adding(d)' \subseteq Adding(d)
  PROVE  rows'[d] + Cardinality(Adding(d)') <= Cardinality(Requests)
<1>1. IsFiniteSet(Adding(d))
  BY RequestsAreFinite, FS_Subset DEF Adding
<1>2. /\ Cardinality(Adding(d)') <= Cardinality(Adding(d))
      /\ Cardinality(Adding(d)') \in Nat
  BY <1>1, FS_Subset, FS_CardinalityType
<1>3. /\ Cardinality(Adding(d)) \in Nat
      /\ Cardinality(Requests) \in Nat
  BY <1>1, RequestsAreFinite, FS_CardinalityType
<1>4. QED BY SMTT(60), <1>2, <1>3 DEF RowsAreFew, FxInv

\* Every step keeps their sum.
LEMMA RowsStayFew == FxInv /\ RowsAreFew /\ [FxNext]_fxVars => RowsAreFew'
<1> SUFFICES ASSUME FxInv, RowsAreFew, [FxNext]_fxVars, NEW d \in 1..LastDay
             PROVE  rows'[d] + Cardinality(Adding(d)') <= Cardinality(Requests)
  BY DEF RowsAreFew, Adding
<1> USE LastDayIsADay
<1>1. ASSUME NEW r \in Requests, NEW target \in 1..day, NEW exact \in BOOLEAN,
             Ask(r, exact, target)
      PROVE  rows'[d] = rows[d] /\ Adding(d)' \subseteq Adding(d)
  BY <1>1 DEF Ask, Adding, FxInv
<1>2. ASSUME NEW r \in Requests, Fetch(r) \/ NotFound(r) \/ RequestFails(r)
      PROVE  rows'[d] = rows[d] /\ Adding(d)' \subseteq Adding(d)
  <2>1. CASE Fetch(r)
    BY <2>1 DEF Fetch, Step, Adding, FxInv
  <2>2. CASE NotFound(r) \/ RequestFails(r)
    BY SMTT(60), <2>2 DEF NotFound, RequestFails, Idle, Adding, FxInv
  <2>3. QED BY <1>2, <2>1, <2>2
<1>3. ASSUME NEW r \in Requests, DeleteStored(r), request[r].rate # d
      PROVE  rows'[d] = rows[d] /\ Adding(d)' \subseteq Adding(d)
  BY <1>3 DEF DeleteStored, Step, Adding, FxInv
<1>4. ASSUME NEW r \in Requests, CreateStored(r), request[r].rate # d
      PROVE  rows'[d] = rows[d] /\ Adding(d)' \subseteq Adding(d)
  BY <1>4 DEF CreateStored, Step, Adding, FxInv
<1>5. CASE NextDay \/ UNCHANGED fxVars
  BY SMTT(60), <1>5, FewerAdd DEF NextDay, fxVars, Adding, FxInv
<1>6. ASSUME NEW r \in Requests, DeleteStored(r), request[r].rate = d
      PROVE  rows'[d] + Cardinality(Adding(d)') <= Cardinality(Requests)
  <2>1. rows'[d] = 0
    BY <1>6 DEF DeleteStored, FxInv
  <2>2. /\ Cardinality(Adding(d)') <= Cardinality(Requests)
        /\ Cardinality(Adding(d)') \in Nat
    <3>1. Adding(d)' \subseteq Requests
      BY DEF Adding
    <3>2. QED BY <3>1, RequestsAreFinite, FS_Subset, FS_CardinalityType
  <2>3. QED BY <2>1, <2>2
<1>7. ASSUME NEW r \in Requests, CreateStored(r), request[r].rate = d
      PROVE  rows'[d] + Cardinality(Adding(d)') <= Cardinality(Requests)
  <2>1. rows'[d] = rows[d] + 1
    BY <1>7 DEF CreateStored, FxInv
  <2>2. Adding(d)' = Adding(d) \ {r} /\ r \in Adding(d)
    BY <1>7 DEF CreateStored, Step, Adding, FxInv
  <2>3. IsFiniteSet(Adding(d))
    BY RequestsAreFinite, FS_Subset DEF Adding
  <2>4. /\ Cardinality(Adding(d)') = Cardinality(Adding(d)) - 1
        /\ Cardinality(Adding(d)) \in Nat
    BY <2>2, <2>3, FS_RemoveElement, FS_CardinalityType
  <2>5. QED BY <2>1, <2>4 DEF RowsAreFew, FxInv
<1>8. QED
  <2>1. rows[d] \in Nat
    BY DEF FxInv
  <2>2. QED BY <2>1, <1>1, <1>2, <1>3, <1>4, <1>5, <1>6, <1>7, FewerAdd DEF FxNext

(***************************************************************************)
(* Requests that replace the same rate at the same time never leave more   *)
(* rows than there are requests (fx-rate.service.ts:121: every replacement *)
(* starts by removing what earlier ones have left).                        *)
(***************************************************************************)
THEOREM DoublesAreFew == FxSpec => []DoubledRowsAreFew
<1>1. FxInit => RowsAreFew
  <2> SUFFICES ASSUME FxInit, NEW d \in 1..LastDay
               PROVE  rows[d] + Cardinality(Adding(d)) <= Cardinality(Requests)
    BY DEF RowsAreFew
  <2>1. rows[d] = 0 /\ Adding(d) = {}
    BY DEF FxInit, Adding, Idle
  <2>2. QED BY <2>1, FS_EmptySet, FS_CardinalityType, RequestsAreFinite
<1>2. FxInv /\ RowsAreFew => DoubledRowsAreFew
  <2> SUFFICES ASSUME FxInv, RowsAreFew, NEW d \in 1..LastDay
               PROVE  rows[d] <= Cardinality(Requests)
    BY DEF DoubledRowsAreFew
  <2>1. IsFiniteSet(Adding(d))
    BY RequestsAreFinite, FS_Subset DEF Adding
  <2>2. Cardinality(Adding(d)) \in Nat /\ Cardinality(Requests) \in Nat
    BY <2>1, RequestsAreFinite, FS_CardinalityType
  <2>3. QED BY <2>2 DEF FxInv, RowsAreFew
<1>3. QED BY <1>1, <1>2, FxInvariant, RowsStayFew, PTL DEF FxSpec
=============================================================================
