---------------------- MODULE CorpActionSyncProperties ----------------------
(***************************************************************************)
(* What the split sync owes to the investment book.                        *)
(***************************************************************************)
EXTENDS CorpActionSync, LedgerProperties

(***************************************************************************)
(* The book of a scope is what replaying its live trades and the recorded  *)
(* splits of its asset gives: the source of truth of REFACTORING.md.       *)
(***************************************************************************)
BookIsReplay(s) ==
  /\ LotsOf(s) = ReplayedLots(tx, s)
  /\ ScopeMatches(s) = ReplayedMatches(tx, s)
  /\ {[qty |-> p.qty, cost |-> p.cost] : p \in OpenPositions(s)}
       = {[qty |-> p.qty, cost |-> p.cost] : p \in ReplayedPositions(tx, s)}

\* The replay orders trades of one instant by identifier, the incremental
\* bookkeeping by arrival; at distinct times the two orders agree.
DistinctTimes(s) ==
  \A t, u \in LiveTrades(tx, s) : t # u => tx[t].time # tx[u].time

Applied(s) ==
  \A a \in splits : a.asset = s[2] => <<ActionKey(a), s[1]>> \in applications

(***************************************************************************)
(* A split that the sync has recorded is never lost again: its row only    *)
(* ever changes to another ratio, and no application is withdrawn, also    *)
(* when the sync fails or two of them run.                                 *)
(***************************************************************************)
RecordedSplitsStayStep ==
  /\ \A a \in splits : \E b \in splits' : ActionKey(a) = ActionKey(b)
  /\ \A a, b \in splits' : ActionKey(a) = ActionKey(b) => a = b
  /\ \A p \in applications' \ applications :
       \E a \in splits : ActionKey(a) = p[1]

RecordedSplitsStay == [][RecordedSplitsStayStep]_allVars

-----------------------------------------------------------------------------
Reconciled(s) ==
  /\ {e \in reported : e.asset = s[2]} \subseteq splits
  /\ Applied(s)
  /\ DistinctTimes(s) => BookIsReplay(s)

(***************************************************************************)
(* When the provider, the users and the failures have come to rest, the    *)
(* scheduled syncs bring every scope that holds trades up to date with     *)
(* every reported split: also after a sync that stored a split or a        *)
(* corrected ratio and failed before the replay, and after trades that     *)
(* were entered behind a split.  Provided that no scope sells shares that  *)
(* the recorded splits have taken away, because a replay that fails ends   *)
(* the sync.                                                               *)
(***************************************************************************)
EveryScopeReplays == \A s \in Scopes : Replay(tx, s).ok

ProviderComesToRest == <>[][UNCHANGED reported]_allVars

EventuallyReconciled ==
  ProviderComesToRest =>
    <>[](EveryScopeReplays =>
           \A s \in Scopes : LiveTrades(tx, s) # {} => Reconciled(s))
=============================================================================
