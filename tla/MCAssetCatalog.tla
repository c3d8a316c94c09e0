---------------------------- MODULE MCAssetCatalog --------------------------
(***************************************************************************)
(* An instance of AssetCatalog for TLC.  The first catalog has a stock     *)
(* that both markets list, a short name that a stock and a fund share, a   *)
(* bond fund, an ETN and a symbol of the wrong form; in the second one the *)
(* names have moved.                                                       *)
(***************************************************************************)
EXTENDS AssetCatalog, TLC

CONSTANTS s1, s2, s3, n1, n2, r1, r2

Interchangeable == Permutations(Requests)

Create(symbol, type, class) == [symbol |-> symbol, type |-> type, class |-> class,
                                hint |-> None]

ThePayloads ==
  {Create(s1, "equity", None), Create(s1, "etf", None), Create(s2, "etf", "bond")}

Row(symbol, short, full, fund, fits) ==
  [symbol |-> symbol, shortName |-> short, fullName |-> full, fund |-> fund,
   fits |-> fits]

Stock(symbol, short, full) == Row(symbol, short, full, None, TRUE)
Fund(symbol, short, fund) == Row(symbol, short, None, fund, TRUE)

TheCatalogs ==
  {[twse_listed_stock |-> <<Stock(s1, n1, n2), Row(s3, n2, None, None, FALSE)>>,
    tpex_otc_stock    |-> <<Stock(s1, n2, None)>>,
    twse_listed_etf   |-> <<Fund(s2, n1, "bond fund"), Fund(s3, n2, "etn")>>],
   [twse_listed_stock |-> <<Stock(s2, n2, None)>>,
    tpex_otc_stock    |-> <<>>,
    twse_listed_etf   |-> <<Fund(s1, n1, "stock fund")>>]}
=============================================================================
