------------------------------ MODULE Sessions ------------------------------
(***************************************************************************)
(* Cookie sessions: rotating refresh tokens (RefreshTokenService), the     *)
(* access tokens signed next to them (AuthService, AccessTokenService) and *)
(* the browsers that hold both.                                            *)
(*                                                                         *)
(* A request runs as a sequence of database statements, one action each    *)
(* (the swap of two tokens is one transaction); other requests run in      *)
(* between, of the same browser too, and an answer may be lost, with the   *)
(* process or on the way.  Time is a clock that ticks between statements.  *)
(***************************************************************************)
EXTENDS Integers

CONSTANTS
  Users,
  Browsers,     \* each with one cookie jar, shared by its tabs
  TokenIds,     \* RefreshToken.id; a raw token stands for the row of its hash
  None,
  Requests,
  AccessTtl,    \* accessTtlSec, in ticks
  RefreshTtl,   \* refreshTtlSec
  RequestSpan,  \* bound on the ticks that pass while a request is served
  MaxTime       \* bound on the clock

ASSUME TtlsArePositive == AccessTtl \in Nat \ {0} /\ RefreshTtl \in Nat \ {0}
ASSUME NoneIsNoToken == None \notin TokenIds
ASSUME SpansAreNumbers == RequestSpan \in Nat /\ MaxTime \in Nat

VARIABLES
  now,
  role,      \* User.role
  changed,   \* when the role of a user was changed, or None (history)
  token,     \* the RefreshToken table: a row or None
  jar,       \* the cookies of each browser
  request    \* the requests that are being served

vars == <<now, role, changed, token, jar, request>>

Roles == {"user", "admin"}

(***************************************************************************)
(* A row has the columns of the table, and two that the table does not     *)
(* have: the token it was swapped for and the login it goes back to        *)
(* (history; the column replacedById keeps only the last successor).       *)
(***************************************************************************)
TokenRow ==
  [user : Users, expires : Nat, revoked : BOOLEAN,
   replacedBy : TokenIds \cup {None},
   swappedFrom : TokenIds \cup {None}, login : TokenIds]

ASSUME NoneIsNoRow == None \notin TokenRow

Exists(t) == token[t] # None

Unrevoked(t) == Exists(t) /\ ~token[t].revoked

(***************************************************************************)
(* An access token is its payload and its expiry (a signed JWT: nobody     *)
(* else can make one).                                                     *)
(***************************************************************************)
AccessToken(u, r, at) == [user |-> u, role |-> r, expires |-> at + AccessTtl]

\* verify: an access token is good until it expires.
Verifies(access) == access # None /\ now < access.expires

NoCookies == [access |-> None, refresh |-> None]

Idle ==
  [phase |-> "idle", browser |-> None, user |-> None, role |-> None,
   token |-> None, seen |-> None, since |-> 0, cookies |-> NoCookies]

\* toSession: the answer to request q.
Answered(q, access, refresh) ==
  [Idle EXCEPT !.phase   = "answer", !.browser = request[q].browser,
               !.since   = request[q].since,
               !.cookies = [access |-> access, refresh |-> refresh]]

Arrives(q, b, phase) ==
  [Idle EXCEPT !.phase = phase, !.browser = b, !.since = now]

-----------------------------------------------------------------------------
(***************************************************************************)
(* POST /auth/login: the user is read, the password compared (which takes  *)
(* a while), the access token signed with the role that was read, and a    *)
(* refresh token issued.                                                   *)
(***************************************************************************)
CheckPassword(q, b, u) ==
  /\ request[q].phase = "idle"
  /\ request' = [request EXCEPT
       ![q] = [Arrives(q, b, "checked") EXCEPT !.user = u, !.role = role[u]]]
  /\ UNCHANGED <<now, role, changed, token, jar>>

\* issueForUser
Issued(u, n) ==
  [user |-> u, expires |-> now + RefreshTtl, revoked |-> FALSE,
   replacedBy |-> None, swappedFrom |-> None, login |-> n]

OpenSession(q, n) ==
  /\ request[q].phase = "checked"
  /\ ~Exists(n)
  /\ token' = [token EXCEPT ![n] = Issued(request[q].user, n)]
  /\ request' = [request EXCEPT
       ![q] = Answered(q, AccessToken(request[q].user, request[q].role, now), n)]
  /\ UNCHANGED <<now, role, changed, jar>>

-----------------------------------------------------------------------------
(***************************************************************************)
(* POST /auth/refresh: rotate reads the row of the token, and decides on   *)
(* what it has read.                                                       *)
(***************************************************************************)
ReadToken(q, b) ==
  /\ request[q].phase = "idle"
  /\ jar[b].refresh # None
  /\ request' = [request EXCEPT
       ![q] = [Arrives(q, b, "read") EXCEPT !.token = jar[b].refresh,
                                            !.seen  = token[jar[b].refresh]]]
  /\ UNCHANGED <<now, role, changed, token, jar>>

Revoked(row) == [row EXCEPT !.revoked = TRUE]

RevokeAllForUser(u) ==
  token' = [n \in TokenIds |->
              IF Exists(n) /\ token[n].user = u
                THEN Revoked(token[n]) ELSE token[n]]

RejectReused(q) ==
  /\ request[q].phase = "read"
  /\ request[q].seen.revoked
  /\ RevokeAllForUser(request[q].seen.user)
  /\ request' = [request EXCEPT ![q] = Idle]
  /\ UNCHANGED <<now, role, changed, jar>>

HasExpired(row) == row.expires <= now

RejectExpired(q) ==
  /\ request[q].phase = "read"
  /\ ~request[q].seen.revoked
  /\ HasExpired(request[q].seen)
  /\ token' = [token EXCEPT ![request[q].token].revoked = TRUE]
  /\ request' = [request EXCEPT ![q] = Idle]
  /\ UNCHANGED <<now, role, changed, jar>>

\* The successor of token t.
Successor(t, n) ==
  [Issued(token[t].user, n) EXCEPT !.swappedFrom = t,
                                   !.login       = token[t].login]

\* Mutant: the old token stays good.
SwapInKeeping(t, n) ==
  token' = [token EXCEPT ![n] = Successor(t, n), ![t].replacedBy = n]

\* One transaction; its update has no condition on the row.
SwapIn(t, n) ==
  token' = [token EXCEPT ![n] = Successor(t, n),
                         ![t].revoked = TRUE, ![t].replacedBy = n]

\* Mutant: the token is swapped whether or not it was revoked.
MaySwapAny(row) == ~HasExpired(row)

MaySwap(row) == ~row.revoked /\ ~HasExpired(row)

Swap(q, n) ==
  /\ request[q].phase = "read"
  /\ MaySwap(request[q].seen)
  /\ ~Exists(n)
  /\ SwapIn(request[q].token, n)
  /\ request' = [request EXCEPT ![q].phase = "swapped",
                                ![q].cookies.refresh = n]
  /\ UNCHANGED <<now, role, changed, jar>>

\* Mutant: the access token keeps the role that the browser's had.
SignAccessAgain(q) ==
  LET u   == request[q].seen.user
      old == jar[request[q].browser].access IN
  /\ request[q].phase = "swapped"
  /\ request' = [request EXCEPT
       ![q] = Answered(q, AccessToken(u, IF old = None THEN role[u]
                                         ELSE old.role, now),
                       request[q].cookies.refresh)]
  /\ UNCHANGED <<now, role, changed, token, jar>>

\* refreshSession reads the user again and signs with the role it has now.
SignAccess(q) ==
  LET u == request[q].seen.user IN
  /\ request[q].phase = "swapped"
  /\ request' = [request EXCEPT
       ![q] = Answered(q, AccessToken(u, role[u], now),
                       request[q].cookies.refresh)]
  /\ UNCHANGED <<now, role, changed, token, jar>>

-----------------------------------------------------------------------------
(***************************************************************************)
(* POST /auth/logout revokes the token of the jar, if there is one, and    *)
(* the answer empties the jar.                                             *)
(***************************************************************************)
\* Mutant: the row is deleted.
LogoutDeleting(q, b) ==
  LET t == jar[b].refresh IN
  /\ request[q].phase = "idle"
  /\ token' = IF t = None THEN token ELSE [token EXCEPT ![t] = None]
  /\ request' = [request EXCEPT ![q] = Arrives(q, b, "answer")]
  /\ UNCHANGED <<now, role, changed, jar>>

Logout(q, b) ==
  LET t == jar[b].refresh IN
  /\ request[q].phase = "idle"
  /\ token' = IF t = None THEN token
              ELSE [token EXCEPT ![t].revoked = TRUE]
  /\ request' = [request EXCEPT ![q] = Arrives(q, b, "answer")]
  /\ UNCHANGED <<now, role, changed, jar>>

\* The answer arrives: setSessionCookies or clearSessionCookies.
Answer(q) ==
  /\ request[q].phase = "answer"
  /\ jar' = [jar EXCEPT ![request[q].browser] = request[q].cookies]
  /\ request' = [request EXCEPT ![q] = Idle]
  /\ UNCHANGED <<now, role, changed, token>>

\* A statement fails, the process ends, or the answer does not arrive.
Lose(q) ==
  /\ request[q].phase # "idle"
  /\ request' = [request EXCEPT ![q] = Idle]
  /\ UNCHANGED <<now, role, changed, token, jar>>

\* Roles are changed in the database.
ChangeRole(u) ==
  /\ changed[u] = None
  /\ \E r \in Roles \ {role[u]} : role' = [role EXCEPT ![u] = r]
  /\ changed' = [changed EXCEPT ![u] = now]
  /\ UNCHANGED <<now, token, jar, request>>

Tick ==
  /\ now < MaxTime
  /\ \A q \in Requests :
       request[q].phase # "idle" => now - request[q].since < RequestSpan
  /\ now' = now + 1
  /\ UNCHANGED <<role, changed, token, jar, request>>

-----------------------------------------------------------------------------
Init ==
  /\ now = 0
  /\ role \in [Users -> {"user"}]
  /\ changed = [u \in Users |-> None]
  /\ token = [t \in TokenIds |-> None]
  /\ jar = [b \in Browsers |-> NoCookies]
  /\ request = [q \in Requests |-> Idle]

Login(q) ==
  \/ \E b \in Browsers, u \in Users : CheckPassword(q, b, u)
  \/ \E n \in TokenIds : OpenSession(q, n)

Refresh(q) ==
  \/ \E b \in Browsers : ReadToken(q, b)
  \/ RejectReused(q)
  \/ RejectExpired(q)
  \/ \E n \in TokenIds : Swap(q, n)
  \/ SignAccess(q)

Next ==
  \/ \E q \in Requests :
       \/ Login(q)
       \/ Refresh(q)
       \/ \E b \in Browsers : Logout(q, b)
       \/ Answer(q)
       \/ Lose(q)
  \/ \E u \in Users : ChangeRole(u)
  \/ Tick

Spec == Init /\ [][Next]_vars
=============================================================================
