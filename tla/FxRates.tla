------------------------------- MODULE FxRates ------------------------------
(***************************************************************************)
(* Reference exchange rates: FxRateService, a cache of the Frankfurter     *)
(* provider in the table FxRate, for one pair of different currencies.     *)
(* Requests run at the same time and replace stored rates by a delete and  *)
(* a create that are no database transaction, in a table without a unique  *)
(* key.  A rate is the day it is of.                                       *)
(***************************************************************************)
EXTENDS Integers, FiniteSetsExt

CONSTANTS
  Requests,   \* requests that may run at the same time
  RateDays,   \* the days for which the provider publishes a rate
  LastDay,    \* bound on the calendar
  MaxFaults   \* bound on provider errors, database errors and crashes

ASSUME LastDayIsADay == LastDay \in Nat \ {0}
ASSUME RateDaysAreDays == RateDays \subseteq 1..LastDay
ASSUME RequestsAreFinite == IsFiniteSet(Requests)

VARIABLES
  day,        \* today
  rows,       \* the number of FxRate rows by day
  request,    \* the progress of each request
  faults

fxVars == <<day, rows, request, faults>>

Idle == [phase |-> "idle", exact |-> FALSE, target |-> 0, rate |-> 0]

\* The provider has the rate of a day on that day.
Published == {d \in RateDays : d <= day}

StoredDays == {d \in 1..LastDay : rows[d] > 0}

Step(r, phase, rate) ==
  request' = [request EXCEPT ![r].phase = phase, ![r].rate = rate]

-----------------------------------------------------------------------------
\* Mutant: the newest stored rate, whatever day is asked for.
FindNewestStored(exact, target) ==
  IF exact THEN StoredDays \cap {target} ELSE StoredDays

\* findStoredRateExact and findStoredRateOnOrBefore: where to look.
FindStored(exact, target) ==
  IF exact THEN StoredDays \cap {target}
           ELSE {d \in StoredDays : d <= target}

(***************************************************************************)
(* getTodayReferenceRate asks for exactly today's rate, a valuation        *)
(* (getReferenceRate) for the latest stored one of a day or before it.  A  *)
(* stored rate is the answer, and otherwise the provider is asked.         *)
(***************************************************************************)
Ask(r, exact, target) ==
  /\ request[r].phase \in {"idle", "answered"}
  /\ exact => target = day
  /\ LET found == FindStored(exact, target) IN
       request' = [request EXCEPT ![r] =
         [phase |-> IF found = {} THEN "fetch" ELSE "answered",
          exact |-> exact, target |-> target,
          rate  |-> IF found = {} THEN 0 ELSE Max(found)]]
  /\ UNCHANGED <<day, rows, faults>>

\* The provider's rate of a day: the last one it has published by then.
ProviderDays(target) == {d \in Published : d <= target}

\* Mutant: a fetched rate is added to the rows of its day.
FetchToAppend(r) ==
  /\ request[r].phase = "fetch"
  /\ ProviderDays(request[r].target) # {}
  /\ Step(r, "create", Max(ProviderDays(request[r].target)))
  /\ UNCHANGED <<day, rows, faults>>

Fetch(r) ==
  /\ request[r].phase = "fetch"
  /\ ProviderDays(request[r].target) # {}
  /\ Step(r, "delete", Max(ProviderDays(request[r].target)))
  /\ UNCHANGED <<day, rows, faults>>

\* "FX rate not found"
NotFound(r) ==
  /\ request[r].phase = "fetch"
  /\ ProviderDays(request[r].target) = {}
  /\ request' = [request EXCEPT ![r] = Idle]
  /\ UNCHANGED <<day, rows, faults>>

\* Mutant: every day of the pair.
DeleteStoredOfPair(r) ==
  /\ request[r].phase = "delete"
  /\ rows' = [d \in 1..LastDay |-> 0]
  /\ Step(r, "create", request[r].rate)
  /\ UNCHANGED <<day, faults>>

\* replaceStoredRates: deleteMany, then create.
DeleteStored(r) ==
  /\ request[r].phase = "delete"
  /\ rows' = [rows EXCEPT ![request[r].rate] = 0]
  /\ Step(r, "create", request[r].rate)
  /\ UNCHANGED <<day, faults>>

CreateStored(r) ==
  /\ request[r].phase = "create"
  /\ rows' = [rows EXCEPT ![request[r].rate] = @ + 1]
  /\ Step(r, "answered", request[r].rate)
  /\ UNCHANGED <<day, faults>>

\* An error of the provider or of the database, or a crash.
RequestFails(r) ==
  /\ faults < MaxFaults
  /\ request[r].phase \in {"fetch", "delete", "create"}
  /\ request' = [request EXCEPT ![r] = Idle]
  /\ faults' = faults + 1
  /\ UNCHANGED <<day, rows>>

NextDay ==
  /\ day < LastDay
  /\ day' = day + 1
  /\ UNCHANGED <<rows, request, faults>>

-----------------------------------------------------------------------------
FxInit ==
  /\ day = 1
  /\ rows = [d \in 1..LastDay |-> 0]
  /\ request = [r \in Requests |-> Idle]
  /\ faults = 0

FxNext ==
  \/ \E r \in Requests :
       \/ \E target \in 1..day, exact \in BOOLEAN : Ask(r, exact, target)
       \/ Fetch(r) \/ NotFound(r)
       \/ DeleteStored(r) \/ CreateStored(r)
       \/ RequestFails(r)
  \/ NextDay

FxSpec == FxInit /\ [][FxNext]_fxVars

-----------------------------------------------------------------------------
(***************************************************************************)
(* An answer is a rate of the day asked for or of a day before it, also    *)
(* when the calendar has moved on since, and the answer for today is the   *)
(* newest rate that was published by then, whatever other requests were    *)
(* replacing meanwhile (fx-rate.service.ts:32, :66).                       *)
(***************************************************************************)
AnswersFitTheQuestion ==
  \A r \in Requests :
    request[r].phase = "answered" =>
      /\ request[r].rate \in ProviderDays(request[r].target)
      /\ request[r].exact =>
           request[r].rate = Max(ProviderDays(request[r].target))

Writing(d) == \E r \in Requests : request[r].phase = "create" /\ request[r].rate = d

(***************************************************************************)
(* A rate once stored is only ever missing while a request replaces it:    *)
(* however the deletes and creates of several requests interleave, it is   *)
(* lost for good only when a request breaks off between the two.           *)
(***************************************************************************)
StoredRatesStayStep ==
  \A d \in 1..LastDay :
    rows[d] > 0 \/ Writing(d) =>
      rows'[d] > 0 \/ Writing(d)' \/ faults' > faults

StoredRatesStay == [][StoredRatesStayStep]_fxVars

(***************************************************************************)
(* Requests that replace the same rate at the same time leave doubled rows,*)
(* never more than one for each of them: every replacement starts by       *)
(* removing what earlier ones have left.                                   *)
(***************************************************************************)
DoubledRowsAreFew ==
  \A d \in 1..LastDay : rows[d] <= Cardinality(Requests)
=============================================================================
