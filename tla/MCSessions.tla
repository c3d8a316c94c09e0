----------------------------- MODULE MCSessions -----------------------------
(***************************************************************************)
(* Instances of Sessions for TLC.  Tokens, browsers and requests are       *)
(* interchangeable: nothing in the module orders or names them.            *)
(***************************************************************************)
EXTENDS SessionsProperties, TLC

Interchangeable ==
  Permutations(TokenIds) \cup Permutations(Browsers) \cup Permutations(Requests)
=============================================================================
