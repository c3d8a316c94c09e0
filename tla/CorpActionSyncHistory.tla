----------------------- MODULE CorpActionSyncHistory -----------------------
(***************************************************************************)
(* CorpActionSync with a history variable that the code does not keep:     *)
(* the scopes that wait for a sync because something has come that only a  *)
(* sync's replay brings into the book.                                     *)
(***************************************************************************)
EXTENDS CorpActionSyncProperties

VARIABLE waiting

historyVars == <<allVars, waiting>>

\* A trade is entered that is dated before a recorded split of its asset.
BookedBehindSplit(s) ==
  \E t \in TxIds : \E a \in splits :
    /\ ~Exists(t) /\ Exists(t)'
    /\ s \in ScopesOf(tx'[t])
    /\ a.asset = s[2] /\ tx'[t].time < a.exDate

\* A sync stores another ratio for a recorded split.
RatioRevised(s) ==
  \E a \in splits, b \in splits' :
    a.asset = s[2] /\ ActionKey(a) = ActionKey(b) /\ a.ratio # b.ratio

\* A sync has replayed the scope.
ReplayedBySync(s) ==
  \E y \in Syncs : /\ sync[y].phase = "replay" /\ sync'[y].phase = "replay"
                   /\ s \in sync[y].scopes \ sync'[y].scopes

NoteWaiting ==
  waiting' = {s \in waiting : ~ReplayedBySync(s)}
               \cup {s \in Scopes : BookedBehindSplit(s) \/ RatioRevised(s)}

HistoryInit == SyncInit /\ waiting = {}

HistorySpec ==
  HistoryInit /\ [][SyncNext /\ NoteWaiting]_historyVars /\ Fairness

(***************************************************************************)
(* Once every recorded split of an asset is marked as applied for an       *)
(* account (schema.prisma:278), the account's lots, matches and position   *)
(* of the asset are the replayed ones, unless since the last sync of the   *)
(* scope a user has entered a trade dated before a recorded split (the     *)
(* rebuild policy looks at trades only), or a sync has stored a corrected  *)
(* ratio.  No other edit, sync or failure, in any order, makes the book    *)
(* fall out of step with an applied split.                                 *)
(* Trades at the same instant are left out: a replay orders them by        *)
(* identifier, incremental bookkeeping by arrival.                         *)
(***************************************************************************)
AppliedSplitsAreInTheBook ==
  \A s \in Scopes \ waiting :
    Applied(s) /\ DistinctTimes(s) => BookIsReplay(s)
=============================================================================
