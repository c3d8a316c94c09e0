--------------------------- MODULE CorpActionSync ---------------------------
(***************************************************************************)
(* The stock-split sync of CorpActionService next to the investment book.  *)
(* A sync fetches the events of one asset after the other, stores each as  *)
(* a CorporateAction, and then replays the affected scopes, one database   *)
(* transaction each.  It keeps nothing between runs, and it is no          *)
(* transaction as a whole: users edit the book and other syncs run between *)
(* any two of its steps, and an error or a crash ends it where it stands.  *)
(***************************************************************************)
EXTENDS Ledger

CONSTANTS
  Syncs,       \* syncs that may run at the same time (scheduler, admin, CLI)
  SplitNews,   \* the split events that the provider may come to report
  MaxFailures, \* bound on fetch errors and crashes
  MaxEdits     \* bound on user operations

VARIABLES
  reported,     \* what the provider answers now
  sync,         \* the progress of each sync
  applications, \* CorporateActionApplication rows: action key, account
  failures,
  edits

outsideVars == <<reported, failures, edits>>
syncVars == <<reported, sync, applications, failures, edits>>
allVars == <<vars, syncVars>>

ASSUME NewsIsTaiwanese ==
  \A e \in SplitNews : e.asset \in TwAssets \cap Assets

ASSUME NewsHasRatios == \A e \in SplitNews : HasRatio(e)

\* An asset is split or merged on a day, not both: the type follows.
ASSUME NewsIsOneADay ==
  \A e, f \in SplitNews :
    e.asset = f.asset /\ e.exDate = f.exDate => e.type = f.type

\* The unique key of a CorporateAction row.
ActionKey(e) == <<e.asset, e.exDate, e.type>>

Idle ==
  [phase |-> "idle", assets |-> {}, events |-> {}, upserted |-> {},
   scopes |-> {}]

-----------------------------------------------------------------------------
(***************************************************************************)
(* The surroundings: the provider reports an event, or another ratio for   *)
(* an event that it has reported before, and users edit the book.          *)
(***************************************************************************)
Report(e) ==
  /\ e \notin reported
  /\ reported' = {f \in reported : ActionKey(f) # ActionKey(e)} \cup {e}
  /\ UNCHANGED <<vars, sync, applications, failures, edits>>

EditBook ==
  /\ edits < MaxEdits
  /\ Next
  /\ edits' = edits + 1
  /\ UNCHANGED <<reported, sync, applications, failures>>

-----------------------------------------------------------------------------
\* resolveAssetsForMarket: assets with lots or with live trades.
AssetsToSync ==
  {x \in TwAssets \cap Assets :
     \/ \E l \in lots : l.scope[2] = x
     \/ \E a \in Accounts : LiveTrades(tx, <<a, x>>) # {}}

StartSync(y) ==
  /\ sync[y].phase = "idle"
  /\ sync' = [sync EXCEPT ![y] = [Idle EXCEPT !.phase  = "fetch",
                                              !.assets = AssetsToSync]]
  /\ UNCHANGED <<vars, outsideVars, applications>>

\* Mutant: events that are stored already are skipped.
FetchNewEvents(y, x) ==
  /\ sync[y].phase = "fetch"
  /\ sync[y].events = {}
  /\ x \in sync[y].assets
  /\ sync' = [sync EXCEPT
       ![y].assets = @ \ {x},
       ![y].events = {e \in reported \ splits : e.asset = x}]
  /\ UNCHANGED <<vars, outsideVars, applications>>

\* fetchSplitEvents returns every event of the look-back window, those that
\* are already stored included.
FetchEvents(y, x) ==
  /\ sync[y].phase = "fetch"
  /\ sync[y].events = {}
  /\ x \in sync[y].assets
  /\ sync' = [sync EXCEPT ![y].assets = @ \ {x},
                          ![y].events = {e \in reported : e.asset = x}]
  /\ UNCHANGED <<vars, outsideVars, applications>>

\* Mutant: the event replaces every stored split of its asset.
ReplaceEvents(y, e) ==
  /\ sync[y].phase = "fetch"
  /\ e \in sync[y].events
  /\ splits' = {a \in splits : a.asset # e.asset} \cup {e}
  /\ sync' = [sync EXCEPT ![y].events   = @ \ {e},
                          ![y].upserted = @ \cup {ActionKey(e)}]
  /\ UNCHANGED <<bookVars, outsideVars, applications>>

UpsertEvent(y, e) ==
  /\ sync[y].phase = "fetch"
  /\ e \in sync[y].events
  /\ splits' = {a \in splits : ActionKey(a) # ActionKey(e)} \cup {e}
  /\ sync' = [sync EXCEPT ![y].events   = @ \ {e},
                          ![y].upserted = @ \cup {ActionKey(e)}]
  /\ UNCHANGED <<bookVars, outsideVars, applications>>

\* resolveAffectedScopes: the scopes with live trades in an asset of which
\* an event was upserted.
AffectedScopes(keys) ==
  {s \in Scopes : /\ \E k \in keys : k[1] = s[2]
                  /\ LiveTrades(tx, s) # {}}

\* Mutant: the applications are recorded before the scopes are replayed.
ResolveAndMarkScopes(y) ==
  /\ sync[y].phase = "fetch"
  /\ sync[y].assets = {} /\ sync[y].events = {}
  /\ sync' = [sync EXCEPT ![y].phase  = "replay",
                          ![y].scopes = AffectedScopes(sync[y].upserted)]
  /\ applications' = applications \cup (sync[y].upserted \X Accounts)
  /\ UNCHANGED <<vars, outsideVars>>

ResolveScopes(y) ==
  /\ sync[y].phase = "fetch"
  /\ sync[y].assets = {} /\ sync[y].events = {}
  /\ sync' = [sync EXCEPT ![y].phase  = "replay",
                          ![y].scopes = AffectedScopes(sync[y].upserted)]
  /\ UNCHANGED <<vars, outsideVars, applications>>

\* Mutant: the sells of the scope keep the entries they had.
ReplayWithoutReposting(y, s) ==
  /\ sync[y].phase = "replay"
  /\ s \in sync[y].scopes
  /\ UNCHANGED <<tx, splits>>
  /\ RebuildScopes({s})
  /\ PostTransactions({}, {})
  /\ applications' = applications \cup
       {<<k, s[1]>> : k \in {u \in sync[y].upserted : u[1] = s[2]}}
  /\ sync' = [sync EXCEPT ![y].scopes = @ \ {s}]
  /\ UNCHANGED outsideVars

\* One database transaction: rebuild the scope, record the applications, and
\* post the live sells of the scope again.
ReplayScope(y, s) ==
  /\ sync[y].phase = "replay"
  /\ s \in sync[y].scopes
  /\ UNCHANGED <<tx, splits>>
  /\ RebuildScopes({s})
  /\ PostTransactions(Reposted({s}), {})
  /\ applications' = applications \cup
       {<<k, s[1]>> : k \in {u \in sync[y].upserted : u[1] = s[2]}}
  /\ sync' = [sync EXCEPT ![y].scopes = @ \ {s}]
  /\ UNCHANGED outsideVars

EndSync(y) ==
  /\ sync[y].phase = "replay"
  /\ sync[y].scopes = {}
  /\ sync' = [sync EXCEPT ![y] = Idle]
  /\ UNCHANGED <<vars, outsideVars, applications>>

\* A replay that would sell more than the open lots throws: its transaction
\* rolls back and the rest of the sync does not run.
ReplayFails(y, s) ==
  /\ sync[y].phase = "replay"
  /\ s \in sync[y].scopes
  /\ ~Replay(tx, s).ok
  /\ sync' = [sync EXCEPT ![y] = Idle]
  /\ UNCHANGED <<vars, outsideVars, applications>>

\* A fetch or database error, or a crash, ends a sync anywhere.
SyncFails(y) ==
  /\ failures < MaxFailures
  /\ sync[y].phase # "idle"
  /\ sync' = [sync EXCEPT ![y] = Idle]
  /\ failures' = failures + 1
  /\ UNCHANGED <<vars, reported, applications, edits>>

-----------------------------------------------------------------------------
SyncStep(y) ==
  \/ \E x \in Assets : FetchEvents(y, x)
  \/ \E e \in SplitNews : UpsertEvent(y, e)
  \/ ResolveScopes(y)
  \/ \E s \in Scopes : ReplayScope(y, s) \/ ReplayFails(y, s)
  \/ EndSync(y)

SyncInit ==
  /\ Init
  /\ reported = {}
  /\ sync = [y \in Syncs |-> Idle]
  /\ applications = {}
  /\ failures = 0
  /\ edits = 0

SyncOrReport ==
  \/ \E e \in SplitNews : Report(e)
  \/ \E y \in Syncs : StartSync(y) \/ SyncStep(y) \/ SyncFails(y)

SyncNext == SyncOrReport \/ EditBook

SyncSpec == SyncInit /\ [][SyncNext]_allVars

(***************************************************************************)
(* The scheduler starts a sync every weekday, and a sync that runs goes    *)
(* on.  RunsOn is the weak fairness of SyncStep: one of its disjuncts is   *)
(* enabled exactly when the sync is not idle.                              *)
(***************************************************************************)
RunsOn(y) ==
  []<>(sync[y].phase = "idle") \/ []<><<SyncStep(y)>>_allVars

Fairness == \A y \in Syncs : WF_allVars(StartSync(y)) /\ RunsOn(y)
=============================================================================
