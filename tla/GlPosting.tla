------------------------------ MODULE GlPosting -----------------------------
(***************************************************************************)
(* The journal lines that PostingService.postTransaction writes for one    *)
(* transaction (posting.service.ts) and the business rules a transaction   *)
(* must meet before it is stored (transaction-business-rules-validator).   *)
(*                                                                         *)
(* The lines of an entry are a function from the role of a general-ledger  *)
(* account (GlAccountPurpose, and "cash" for the account's linked cash GL  *)
(* account) to a signed amount: a debit is positive, a credit negative.    *)
(***************************************************************************)
EXTENDS Integers

TxTypes == {"buy", "sell", "deposit", "withdraw", "dividend", "fee"}

GlPurposes == {"cash", "invest", "equity", "fee", "dividend", "gain", "loss"}

NoLines == [p \in GlPurposes |-> 0]

Positive(n) == IF n > 0 THEN n ELSE 0

(***************************************************************************)
(* A row has type, asset, qty (0 when the field is undefined), amount and  *)
(* charges (fee + tax).  NoAsset stands for a missing asset.               *)
(***************************************************************************)
ValidRow(row, NoAsset) ==
  /\ row.amount > 0
  /\ row.charges >= 0
  /\ row.type \in {"buy", "sell"} => row.asset # NoAsset /\ row.qty > 0
  /\ row.type = "dividend" => row.asset # NoAsset /\ row.qty = 0
  /\ row.type = "deposit" =>
       row.asset = NoAsset /\ row.qty = 0 /\ row.charges = 0

(***************************************************************************)
(* The lines of a sell carry its historical cost, from its FIFO matches,   *)
(* and the realized gain or loss that balances them.                       *)
(***************************************************************************)
\* Mutant: the investment bucket is credited with the proceeds.
SellLinesAtProceeds(row, cost) ==
  [NoLines EXCEPT !["cash"]   = row.amount,
                  !["fee"]    = row.charges,
                  !["invest"] = -(row.amount + row.charges)]

SellLines(row, cost) ==
  LET realizedPnl == row.amount + row.charges - cost IN
  [NoLines EXCEPT !["cash"]   = row.amount,
                  !["fee"]    = row.charges,
                  !["invest"] = -cost,
                  !["gain"]   = -Positive(realizedPnl),
                  !["loss"]   = Positive(-realizedPnl)]

CashLines(amount, purpose) ==
  [NoLines EXCEPT !["cash"] = amount, ![purpose] = -amount]

PostingLines(row, cost) ==
  CASE row.type = "deposit"  -> CashLines(row.amount, "equity")
    [] row.type = "withdraw" -> CashLines(-row.amount, "equity")
    [] row.type = "buy"      -> CashLines(-row.amount, "invest")
    [] row.type = "sell"     -> SellLines(row, cost)
    [] row.type = "dividend" -> CashLines(row.amount, "dividend")
    [] row.type = "fee"      -> CashLines(-row.amount, "fee")

\* ensureBalanced: total debits equal total credits.
Balanced(lines) ==
  lines["cash"] + lines["invest"] + lines["equity"] + lines["fee"]
    + lines["dividend"] + lines["gain"] + lines["loss"] = 0
=============================================================================
