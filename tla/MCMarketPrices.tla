--------------------------- MODULE MCMarketPrices ---------------------------
(***************************************************************************)
(* An instance of BackfillHistory for TLC: Taiwan assets 1, 2 and 3, of    *)
(* which the first has no row for the day on which it may be bought, and   *)
(* the US asset 4.  The third day is a holiday, after which every asset    *)
(* looks incomplete.                                                       *)
(***************************************************************************)
EXTENDS BackfillHistory, TLC

Calendar ==
  (1 :> {2, 4, 5}) @@ (2 :> {1, 2, 4, 5}) @@ (3 :> {1, 2, 4, 5})
    @@ (4 :> {1, 2, 4, 5})

FirstDay == [x \in Assets |-> {1}]

Untraded(x) == firstBuy[x] = None /\ prices[x] = {}

\* Bound: five days of the scheduled syncs of three Taiwan assets with one
\* fault, or three days of all syncs of two Taiwan assets and the US asset,
\* until a night counts.
Bounded ==
  \/ /\ Untraded(4)
     /\ \A j \in Jobs : job[j].mode # "refresh" /\ job[j].market # "us"
     /\ faults <= 1
  \/ /\ Untraded(3)
     /\ firstBuy[4] # None
     /\ Today <= 3
     /\ \A market \in Markets : nights[market] = {}

\* Bound: the US asset stays bought, and trades change on the first two days.
TradesSettle ==
  firstBuy' # firstBuy =>
    Today <= 2 /\ (firstBuy[4] # None => firstBuy'[4] = firstBuy[4])
=============================================================================
