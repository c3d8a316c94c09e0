---------------------------- MODULE AssetCatalog ----------------------------
(***************************************************************************)
(* The asset catalog: AssetsService (create, update, remove, aliases) and  *)
(* the bootstrap of the Taiwan catalog.  Operations of the service check   *)
(* and write in separate database statements, so requests interleave; the  *)
(* unique keys of the tables decide.  The bootstrap is one transaction.    *)
(*                                                                         *)
(* Text is normalized before it gets here.  What the inference of an asset *)
(* class reads from a symbol and a name is the field "hint".               *)
(***************************************************************************)
EXTENDS Integers, Sequences, FiniteSetsExt, SequencesExt

CONSTANTS
  Ids,          \* Asset.id: numbers, taken in order
  Names,        \* alias texts; the symbols are among them
  Requests,     \* requests that may run at the same time
  Payloads,     \* what create and update are called with
  Catalogs,     \* what the three Taiwan sources may return, by source
  MaxRequests,  \* bound on requests
  MaxRuns,      \* bound on runs of the bootstrap
  None

-----------------------------------------------------------------------------
(***************************************************************************)
(* The rows of the table and of what create and update are called with.    *)
(***************************************************************************)
AssetTypes == {"equity", "etf", "crypto", "cash"}

AssetClasses == {"equity", "bond", "cash", "crypto", "precious_metal"}

AssetRows == [symbol : Names, type : AssetTypes, class : AssetClasses]

PayloadRows == [symbol : Names, type : AssetTypes,
                class : AssetClasses \cup {None}, hint : AssetClasses \cup {None}]

ASSUME IdsInOrder == Ids \subseteq Nat \ {0} /\ \A i \in Ids : 1..i \subseteq Ids
ASSUME NoneIsNoRow == None \notin Nat \cup AssetRows \cup AssetClasses \cup Names
ASSUME PayloadsAreRows == Payloads \subseteq PayloadRows
\* A planned asset is named for its symbol ("planned-..."), which is no id.
ASSUME NamesAreNoIds == Names \cap Ids = {}

\* Users map the names of a broker, the bootstrap maps names for every broker.
Brokers == {"cathay", "global"}

VARIABLES
  assets,    \* Asset rows by id, or None
  created,   \* the number of assets created so far, the last id
  aliases,   \* AssetAlias rows: the asset of a pair <<alias, broker>>, or None
  request,   \* the progress of each request
  requests,  \* how many there were
  runs       \* how many runs of the bootstrap there were

catalogVars == <<assets, created, aliases, request, requests, runs>>

Idle == [phase |-> "idle", id |-> 0, row |-> None, key |-> None]

\* findUnique by symbol, in a table: the ids, at most one.
WithSymbol(table, symbol) ==
  {i \in Ids : table[i] # None /\ table[i].symbol = symbol}

-----------------------------------------------------------------------------
(***************************************************************************)
(* resolveAssetClass: the class asked for, or the one the asset has, or    *)
(* the inferred one; None when the request is rejected.                    *)
(***************************************************************************)
ExpectedClass == [equity |-> "equity", crypto |-> "crypto", cash |-> "cash"]

Compatible(type, class) ==
  type \in DOMAIN ExpectedClass => class = ExpectedClass[type]

InferAssetClass(dto) ==
  IF dto.type = "etf" THEN dto.hint ELSE ExpectedClass[dto.type]

\* Mutant: the class that the asset has is taken as it is.
ResolveAssetClassTrusting(dto, fallback) ==
  LET given == IF dto.class # None THEN dto.class ELSE fallback IN
  IF given = None THEN InferAssetClass(dto)
  ELSE IF dto.class = None \/ Compatible(dto.type, given) THEN given ELSE None

ResolveAssetClass(dto, fallback) ==
  LET given == IF dto.class # None THEN dto.class ELSE fallback IN
  IF given = None THEN InferAssetClass(dto)
  ELSE IF Compatible(dto.type, given) THEN given ELSE None

AssetRow(dto, class) == [symbol |-> dto.symbol, type |-> dto.type, class |-> class]

-----------------------------------------------------------------------------
(***************************************************************************)
(* create and update check that no other asset has the symbol, then write. *)
(***************************************************************************)
Begin(r, record) ==
  /\ requests < MaxRequests
  /\ request[r].phase \in {"idle", "mapped"}
  /\ request' = [request EXCEPT ![r] = record]
  /\ requests' = requests + 1
  /\ UNCHANGED <<assets, created, aliases, runs>>

StartCreate(r, dto) ==
  LET class == ResolveAssetClass(dto, None) IN
  /\ class # None
  /\ WithSymbol(assets, dto.symbol) = {}
  /\ Begin(r, [Idle EXCEPT !.phase = "create", !.row = AssetRow(dto, class)])

StartUpdate(r, i, dto) ==
  /\ assets[i] # None
  /\ LET class == ResolveAssetClass(dto, assets[i].class) IN
       /\ class # None
       /\ WithSymbol(assets, dto.symbol) \ {i} = {}
       /\ Begin(r, [Idle EXCEPT !.phase = "update", !.id = i,
                                !.row = AssetRow(dto, class)])

End(r) ==
  /\ request' = [request EXCEPT ![r] = Idle]
  /\ UNCHANGED <<requests, runs>>

\* The unique key of the symbol decides.
Insert(r) ==
  LET row == request[r].row IN
  /\ request[r].phase = "create"
  /\ IF WithSymbol(assets, row.symbol) # {} THEN UNCHANGED <<assets, created>>
     ELSE /\ created + 1 \in Ids
          /\ created' = created + 1
          /\ assets' = [assets EXCEPT ![created + 1] = row]
  /\ End(r)
  /\ UNCHANGED aliases

ApplyUpdate(r) ==
  LET i == request[r].id
      row == request[r].row IN
  /\ request[r].phase = "update"
  /\ assets' = IF assets[i] = None \/ WithSymbol(assets, row.symbol) \ {i} # {}
               THEN assets ELSE [assets EXCEPT ![i] = row]
  /\ End(r)
  /\ UNCHANGED <<created, aliases>>

\* Mutant: the aliases of the asset stay.
RemoveAssetAlone(i) ==
  /\ assets[i] # None
  /\ assets' = [assets EXCEPT ![i] = None]
  /\ UNCHANGED <<created, aliases, request, requests, runs>>

\* remove: the aliases of the asset cascade.
RemoveAsset(i) ==
  /\ assets[i] # None
  /\ assets' = [assets EXCEPT ![i] = None]
  /\ aliases' = [k \in DOMAIN aliases |->
                   IF aliases[k] = i THEN None ELSE aliases[k]]
  /\ UNCHANGED <<created, request, requests, runs>>

-----------------------------------------------------------------------------
(***************************************************************************)
(* createAlias: an existing pair is answered or refused; otherwise it is   *)
(* created, and when another request was faster its pair is looked at.     *)
(***************************************************************************)
Mapped(r, i, key) ==
  request' = [request EXCEPT ![r] =
                [Idle EXCEPT !.phase = "mapped", !.id = i, !.key = key]]

StartAlias(r, i, key) ==
  /\ requests < MaxRequests
  /\ request[r].phase \in {"idle", "mapped"}
  /\ assets[i] # None
  /\ aliases[key] \in {None, i}
  /\ IF aliases[key] = i THEN Mapped(r, i, key)
     ELSE request' = [request EXCEPT ![r] =
                        [Idle EXCEPT !.phase = "alias", !.id = i, !.key = key]]
  /\ requests' = requests + 1
  /\ UNCHANGED <<assets, created, aliases, runs>>

InsertAlias(r) ==
  LET i == request[r].id
      key == request[r].key IN
  /\ request[r].phase = "alias"
  /\ assets[i] # None
  /\ aliases[key] = None
  /\ aliases' = [aliases EXCEPT ![key] = i]
  /\ Mapped(r, i, key)
  /\ UNCHANGED <<assets, created, requests, runs>>

\* The asset is gone: the foreign key fails.
AliasFails(r) ==
  /\ request[r].phase = "alias"
  /\ assets[request[r].id] = None
  /\ End(r)
  /\ UNCHANGED <<assets, created, aliases>>

\* P2002: the pair was created meanwhile.
AliasRaced(r) ==
  /\ request[r].phase = "alias"
  /\ assets[request[r].id] # None
  /\ aliases[request[r].key] # None
  /\ request' = [request EXCEPT ![r].phase = "raced"]
  /\ UNCHANGED <<assets, created, aliases, requests, runs>>

\* Mutant: whatever the pair maps to.
ResolveRacedBlindly(r) ==
  /\ request[r].phase = "raced"
  /\ Mapped(r, request[r].id, request[r].key)
  /\ UNCHANGED <<assets, created, aliases, requests, runs>>

ResolveRaced(r) ==
  /\ request[r].phase = "raced"
  /\ IF aliases[request[r].key] = request[r].id
       THEN Mapped(r, request[r].id, request[r].key)
       ELSE request' = [request EXCEPT ![r] = Idle]
  /\ UNCHANGED <<assets, created, aliases, requests, runs>>

-----------------------------------------------------------------------------
(***************************************************************************)
(* The Taiwan catalog.  A row of a source has a symbol, which has the form *)
(* that is expected of the source or not, a short and perhaps a full name, *)
(* and in the list of funds the kind of fund it is.                        *)
(***************************************************************************)
\* classifyListedEtfFundType
FundClass(row) ==
  CASE row.fund = "bond fund"  -> "bond"
    [] row.fund = "stock fund" -> "equity"
    [] OTHER -> None    \* missing, an ETN, unrecognized

\* classifyTwCatalogRecord: the asset class, or None when it is left out.
Classify(source, row) ==
  IF ~row.fits THEN None
  ELSE IF source = "twse_listed_etf" THEN FundClass(row) ELSE "equity"

\* normalizeTwCatalogRecord
TwRecord(source, row) ==
  [symbol  |-> row.symbol,
   type    |-> IF source = "twse_listed_etf" THEN "etf" ELSE "equity",
   class   |-> Classify(source, row),
   aliases |-> {row.symbol, row.shortName, row.fullName} \ {None}]

Sources == {"twse_listed_stock", "tpex_otc_stock", "twse_listed_etf"}

\* What is not left out has names.
ASSUME CatalogsHaveNames ==
  \A catalog \in Catalogs, source \in Sources :
    /\ catalog[source] \in Seq(Range(catalog[source]))
    /\ \A row \in Range(catalog[source]) :
         Classify(source, row) # None =>
           /\ row.symbol \in Names
           /\ {row.shortName, row.fullName} \subseteq Names \cup {None}

\* dedupeRecordsBySymbol: of several records of a symbol the first stays.  A
\* record without a class was left out before.
KeepRecord(kept, record) ==
  IF record.class = None \/ \E k \in ToSet(kept) : k.symbol = record.symbol
    THEN kept ELSE Append(kept, record)

\* collectTwCatalogRecords, in SOURCE_ORDER.
Collect(catalog) ==
  LET recordsOf(source) == [k \in DOMAIN catalog[source] |->
                              TwRecord(source, catalog[source][k])]
  IN FoldLeft(KeepRecord, <<>>,
              recordsOf("twse_listed_stock") \o recordsOf("tpex_otc_stock")
                \o recordsOf("twse_listed_etf"))

-----------------------------------------------------------------------------
NoCounts == [assetsCreated |-> 0, assetsSkipped |-> 0, aliasesCreated |-> 0,
             aliasesSkipped |-> 0, conflicts |-> 0]

\* What the names of a record add to the counts: owner[a] is whom a name a
\* belongs to before, None when it is free, and id the asset of the record.
CountAliases(counts, names, owner, id) ==
  LET free  == {a \in names : owner[a] = None}
      known == {a \in names : owner[a] = id} IN
  [counts EXCEPT !.aliasesCreated = @ + Cardinality(free),
                 !.aliasesSkipped = @ + Cardinality(known),
                 !.conflicts = @ + Cardinality(names \ (free \cup known))]

CountAsset(counts, isNew) ==
  IF isNew THEN [counts EXCEPT !.assetsCreated = @ + 1]
           ELSE [counts EXCEPT !.assetsSkipped = @ + 1]

GlobalOwners(table) == [a \in Names |-> table[<<a, "global">>]]

\* upsertGlobalAliasesForRecord: only free names are mapped.
MapNames(table, names, id) ==
  [k \in DOMAIN table |->
     IF k[2] = "global" /\ k[1] \in names /\ table[k] = None THEN id ELSE table[k]]

\* One record of applyTwCatalogUpserts (resolveAssetId, its aliases).
ApplyRecord(db, record) ==
  LET same  == WithSymbol(db.assets, record.symbol)
      isNew == same = {}
      id    == IF isNew THEN db.created + 1 ELSE Min(same) IN
  [assets  |-> IF isNew THEN [i \in DOMAIN db.assets |->
                                IF i = id THEN AssetRow(record, record.class)
                                          ELSE db.assets[i]]
                        ELSE db.assets,
   created |-> IF isNew THEN id ELSE db.created,
   aliases |-> MapNames(db.aliases, record.aliases, id),
   counts  |-> CountAliases(CountAsset(db.counts, isNew), record.aliases,
                            GlobalOwners(db.aliases), id)]

ApplyCatalog(db, records) ==
  FoldLeft(ApplyRecord, [db EXCEPT !.counts = NoCounts], records)

\* Mutant: names that an earlier record of the run will take are not known.
PlanRecordAlone(plan, record) ==
  LET same == WithSymbol(assets, record.symbol)
      id   == IF same = {} THEN record.symbol ELSE Min(same) IN
  [plan EXCEPT !.counts = CountAliases(CountAsset(@, same = {}), record.aliases,
                                       GlobalOwners(aliases), id)]

\* One record of planTwCatalogUpserts.  The id of a planned asset is named
\* for its symbol.
PlanRecord(plan, record) ==
  LET same == WithSymbol(assets, record.symbol)
      id   == IF same = {} THEN record.symbol ELSE Min(same) IN
  [owner  |-> [a \in Names |-> IF a \in record.aliases /\ plan.owner[a] = None
                                 THEN id ELSE plan.owner[a]],
   counts |-> CountAliases(CountAsset(plan.counts, same = {}), record.aliases,
                           plan.owner, id)]

PlanCatalog(records) ==
  FoldLeft(PlanRecord, [owner |-> GlobalOwners(aliases), counts |-> NoCounts], records)

Database == [assets |-> assets, created |-> created, aliases |-> aliases,
             counts |-> NoCounts]

\* runTwCatalogUpsertTransaction: all records or none.
Bootstrap(catalog) ==
  LET after == ApplyCatalog(Database, Collect(catalog)) IN
  /\ runs < MaxRuns
  /\ after.created \in Ids
  /\ assets' = after.assets
  /\ created' = after.created
  /\ aliases' = after.aliases
  /\ runs' = runs + 1
  /\ UNCHANGED <<request, requests>>

-----------------------------------------------------------------------------
\* ImportAssetAliasResolver.resolve: the broker's name, else the global one.
ResolveName(name, broker) ==
  IF aliases[<<name, broker>>] # None THEN aliases[<<name, broker>>]
                                      ELSE aliases[<<name, "global">>]

CatalogInit ==
  /\ assets = [i \in Ids |-> None]
  /\ created = 0
  /\ aliases = [k \in Names \X Brokers |-> None]
  /\ request = [r \in Requests |-> Idle]
  /\ requests = 0
  /\ runs = 0

CatalogNext ==
  \/ \E r \in Requests :
       \/ \E dto \in Payloads : StartCreate(r, dto)
       \/ \E i \in Ids, dto \in Payloads : StartUpdate(r, i, dto)
       \/ \E i \in Ids, name \in Names : StartAlias(r, i, <<name, "cathay">>)
       \/ Insert(r) \/ ApplyUpdate(r)
       \/ InsertAlias(r) \/ AliasFails(r) \/ AliasRaced(r) \/ ResolveRaced(r)
  \/ \E i \in Ids : RemoveAsset(i)
  \/ \E catalog \in Catalogs : Bootstrap(catalog)

CatalogSpec == CatalogInit /\ [][CatalogNext]_catalogVars

-----------------------------------------------------------------------------
(***************************************************************************)
(* An alias belongs to an asset that is still there, also when the asset   *)
(* was removed while a request was about to map a name to it, and no two   *)
(* assets have the same symbol, although create and update check that      *)
(* before they write (assets.service.ts:143, :224, :237, :253).            *)
(***************************************************************************)
CatalogTypeOK ==
  /\ \A k \in Names \X Brokers :
       aliases[k] # None => aliases[k] \in Ids /\ assets[aliases[k]] # None
  /\ \A i, j \in Ids :
       assets[i] # None /\ assets[j] # None /\ assets[i].symbol = assets[j].symbol
         => i = j
  /\ \A i \in Ids : assets[i] # None => i <= created

(***************************************************************************)
(* The class of an asset fits its type, whichever requests and runs wrote  *)
(* it: an update without a class that changes the type is refused when the *)
(* class the asset has does not fit (assets.service.ts:65).                *)
(***************************************************************************)
ClassFitsType ==
  \A i \in Ids : assets[i] # None => Compatible(assets[i].type, assets[i].class)

(***************************************************************************)
(* A name once mapped keeps its asset, through requests, races and runs of *)
(* the bootstrap, until that asset is removed, and a request was answered  *)
(* with a mapping that an import of its broker then finds                  *)
(* (assets.service.ts:246, tw-catalog-upsert.ts:58).                       *)
(***************************************************************************)
MappingsStayStep ==
  /\ \A k \in Names \X Brokers :
       aliases[k] # None /\ aliases'[k] # aliases[k] => assets'[aliases[k]] = None
  /\ \A r \in Requests :
       request'[r].phase = "mapped" /\ request'[r] # request[r] =>
         ResolveName(request[r].key[1], "cathay")' = request'[r].id

MappingsStay == [][MappingsStayStep]_catalogVars

(***************************************************************************)
(* The bootstrap is what its dry run says, whatever users have created     *)
(* before: the counts of the plan are those of the run, and a second run   *)
(* of the same catalog creates nothing (tw-catalog-upsert.ts:105, :194).   *)
(***************************************************************************)
DryRunIsTrue ==
  \A catalog \in Catalogs :
    LET records == Collect(catalog)
        fits    == created + Len(records) \in Ids
        after   == ApplyCatalog(Database, records)
        again   == ApplyCatalog(after, records) IN
    fits => /\ PlanCatalog(records).counts = after.counts
            /\ again.counts.assetsCreated = 0
            /\ again.counts.aliasesCreated = 0
            /\ again.counts.conflicts = after.counts.conflicts
=============================================================================
