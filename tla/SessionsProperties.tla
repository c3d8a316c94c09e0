------------------------- MODULE SessionsProperties -------------------------
(***************************************************************************)
(* What sessions must satisfy whatever requests overlap or get lost.       *)
(***************************************************************************)
EXTENDS Sessions, FiniteSets

CookieValues ==
  [access  : [user : Users, role : Roles, expires : Nat] \cup {None},
   refresh : TokenIds \cup {None}]

RequestStates ==
  [phase : {"idle", "checked", "read", "swapped", "answer"},
   browser : Browsers \cup {None}, user : Users \cup {None},
   role : Roles \cup {None}, token : TokenIds \cup {None},
   seen : TokenRow \cup {None}, since : Nat, cookies : CookieValues]

(***************************************************************************)
(* The table, the jars and the requests are well formed, and every token   *)
(* that a browser or a request carries has its row.                        *)
(***************************************************************************)
Carried ==
  {jar[b].refresh : b \in Browsers}
    \cup {request[q].cookies.refresh : q \in Requests}
    \cup {request[q].token : q \in Requests}

SessionTypeOK ==
  /\ now \in Nat
  /\ role \in [Users -> Roles]
  /\ changed \in [Users -> Nat \cup {None}]
  /\ token \in [TokenIds -> TokenRow \cup {None}]
  /\ jar \in [Browsers -> CookieValues]
  /\ request \in [Requests -> RequestStates]
  /\ \A t \in Carried : t # None => Exists(t)
  /\ \A q \in Requests :
       /\ request[q].phase # "idle" => request[q].browser \in Browsers
       /\ request[q].phase = "checked" =>
            request[q].user \in Users /\ request[q].role \in Roles
       /\ request[q].phase \in {"read", "swapped"} =>
            request[q].token \in TokenIds /\ request[q].seen \in TokenRow

-----------------------------------------------------------------------------
(***************************************************************************)
(* A login whose tokens were each swapped at most once has at most one     *)
(* token that is not revoked, however its refreshes, logouts and lost      *)
(* answers interleave with those of other sessions: rotation leaves no old *)
(* token good (refresh-token.service.ts, "Opaque rotating refresh token"). *)
(***************************************************************************)
TokensOf(f) == {t \in TokenIds : Exists(t) /\ token[t].login = f}

Forked(f) ==
  \E t, u \in TokensOf(f) :
    /\ t # u
    /\ token[t].swappedFrom # None
    /\ token[t].swappedFrom = token[u].swappedFrom

OneTokenPerLogin ==
  \A f \in TokenIds :
    ~Forked(f) =>
      \A t, u \in TokensOf(f) : Unrevoked(t) /\ Unrevoked(u) => t = u

(***************************************************************************)
(* A session that has ended, by logout, by expiry or because a replayed    *)
(* token ended every session of the user, never comes back: once its       *)
(* tokens are all revoked and no rotation that saw one of them alive is    *)
(* still under way, no step gives it a token again.  (A rotation that is   *)
(* under way does bring it back: refresh-token.service.ts reads the row    *)
(* before the transaction that swaps it.)                                  *)
(***************************************************************************)
Ended(f) ==
  /\ TokensOf(f) # {}
  /\ \A t \in TokensOf(f) : token[t].revoked
  /\ \A q \in Requests :
       request[q].phase = "read" /\ request[q].token \in TokensOf(f)
         => request[q].seen.revoked

EndedSessionsStayEnded == [][\A f \in TokenIds : Ended(f) => Ended(f)']_vars

(***************************************************************************)
(* A changed role takes effect within the life of an access token and the  *)
(* time a request takes (auth.guard.ts:20: the guard does not look in the  *)
(* database, a changed role is in force after accessTtlSec at the latest): *)
(* no browser holds a good access token with another role after that.      *)
(***************************************************************************)
Outdated(access) ==
  access # None /\ Verifies(access) /\ access.role # role[access.user]

RoleChangeIsInForceInTime ==
  \A b \in Browsers :
    Outdated(jar[b].access) =>
      now < changed[jar[b].access.user] + AccessTtl + RequestSpan
=============================================================================
