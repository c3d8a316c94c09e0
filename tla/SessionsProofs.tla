--------------------------- MODULE SessionsProofs ---------------------------
(***************************************************************************)
(* Sessions of any number of users, browsers, tokens and requests: types,  *)
(* one good token for each login, sessions that stay ended, and changed    *)
(* roles that take effect in time.                                         *)
(***************************************************************************)
EXTENDS SessionsProperties, TLAPS

(***************************************************************************)
(* A row of the token table, a token that is only ever revoked, and the    *)
(* swap of one token for another, with their types.                        *)
(***************************************************************************)
LEMMA RowTypes ==
  ASSUME now \in Nat, token \in [TokenIds -> TokenRow \cup {None}],
         NEW t \in TokenIds, Exists(t), NEW n \in TokenIds
  PROVE  /\ Revoked(token[t]) \in TokenRow
         /\ [token[t] EXCEPT !.revoked = TRUE, !.replacedBy = n] \in TokenRow
         /\ Successor(t, n) \in TokenRow
         /\ \A u \in Users : Issued(u, n) \in TokenRow
<1>1. token[t] \in TokenRow
  BY DEF Exists
<1>2. now + RefreshTtl \in Nat
  BY TtlsArePositive
<1>3. QED BY <1>1, <1>2 DEF TokenRow, Revoked, Successor, Issued

-----------------------------------------------------------------------------
(***************************************************************************)
(* Type correctness.  What a request or a jar carries has a row, and rows  *)
(* are never removed.                                                      *)
(***************************************************************************)
RowsStay == \A t \in TokenIds : Exists(t) => Exists(t)'

CarriedRows == \A t \in Carried : t # None => Exists(t)

RequestTypes(q) ==
  /\ request[q].phase # "idle" => request[q].browser \in Browsers
  /\ request[q].phase = "checked" =>
       request[q].user \in Users /\ request[q].role \in Roles
  /\ request[q].phase \in {"read", "swapped"} =>
       request[q].token \in TokenIds /\ request[q].seen \in TokenRow

(***************************************************************************)
(* A step that moves one request, and leaves every row and jar, keeps the  *)
(* types when the request has them afterwards.                             *)
(***************************************************************************)
LEMMA OneRequestMoves ==
  ASSUME SessionTypeOK, NEW q \in Requests, NEW r \in RequestStates,
         request' = [request EXCEPT ![q] = r],
         token' \in [TokenIds -> TokenRow \cup {None}], RowsStay,
         RequestTypes(q)',
         r.token = None \/ (r.token \in TokenIds /\ Exists(r.token)'),
         r.cookies.refresh = None
           \/ (r.cookies.refresh \in TokenIds /\ Exists(r.cookies.refresh)'),
         UNCHANGED <<now, role, changed, jar>>
  PROVE  SessionTypeOK'
<1>1. request' \in [Requests -> RequestStates]
  BY DEF SessionTypeOK
<1>2. request'[q] = r /\ \A p \in Requests \ {q} : request'[p] = request[p]
  BY DEF SessionTypeOK
<1>3. \A p \in Requests : RequestTypes(p)'
  BY <1>2 DEF SessionTypeOK, RequestTypes
<1>4. CarriedRows'
  <2> SUFFICES ASSUME NEW t \in Carried', t # None PROVE Exists(t)'
    BY DEF CarriedRows
  <2>1. CASE \E b \in Browsers : t = jar'[b].refresh
    <3>1. PICK b \in Browsers : t = jar[b].refresh
      BY <2>1
    <3>2. t \in TokenIds /\ Exists(t)
      BY <3>1 DEF SessionTypeOK, Carried, CookieValues
    <3>3. QED BY <3>2 DEF RowsStay
  <2>2. CASE \E p \in Requests : t = request'[p].cookies.refresh
    <3>1. PICK p \in Requests : t = request'[p].cookies.refresh
      BY <2>2
    <3>2. CASE p = q
      BY <1>2, <3>1, <3>2
    <3>3. CASE p # q
      <4>1. t = request[p].cookies.refresh
        BY <1>2, <3>1, <3>3
      <4>2. t \in TokenIds /\ Exists(t)
        BY <4>1 DEF SessionTypeOK, Carried, CookieValues, RequestStates
      <4>3. QED BY <4>2 DEF RowsStay
    <3>4. QED BY <3>2, <3>3
  <2>3. CASE \E p \in Requests : t = request'[p].token
    <3>1. PICK p \in Requests : t = request'[p].token
      BY <2>3
    <3>2. CASE p = q
      BY <1>2, <3>1, <3>2
    <3>3. CASE p # q
      <4>1. t = request[p].token
        BY <1>2, <3>1, <3>3
      <4>2. t \in TokenIds /\ Exists(t)
        BY <4>1 DEF SessionTypeOK, Carried, RequestStates
      <4>3. QED BY <4>2 DEF RowsStay
    <3>4. QED BY <3>2, <3>3
  <2>4. QED BY <2>1, <2>2, <2>3 DEF Carried
<1>5. QED BY <1>1, <1>3, <1>4 DEF SessionTypeOK, CarriedRows, RequestTypes

\* A request that is not under way.
LEMMA IdleTypes == Idle \in RequestStates
  BY DEF Idle, NoCookies, RequestStates, CookieValues

\* Every step keeps the types.
THEOREM SessionTypeCorrect == Spec => []SessionTypeOK
<1>1. Init => SessionTypeOK
  BY DEF Init, SessionTypeOK, Idle, NoCookies, RequestStates, CookieValues, Roles,
         Carried
<1>2. ASSUME SessionTypeOK, [Next]_vars PROVE SessionTypeOK'
  <2> USE <1>2
  <2>0. /\ now \in Nat /\ role \in [Users -> Roles]
        /\ token \in [TokenIds -> TokenRow \cup {None}]
        /\ jar \in [Browsers -> CookieValues]
        /\ request \in [Requests -> RequestStates]
    BY DEF SessionTypeOK
  <2>1. ASSUME NEW q \in Requests, NEW b \in Browsers, NEW u \in Users,
               CheckPassword(q, b, u)
        PROVE  SessionTypeOK'
    <3> DEFINE r == [Arrives(q, b, "checked") EXCEPT !.user = u, !.role = role[u]]
    <3>1. r \in RequestStates /\ r.token = None /\ r.cookies.refresh = None
      BY <2>0, IdleTypes DEF Arrives, Idle, NoCookies, RequestStates
    <3>2. request' = [request EXCEPT ![q] = r] /\ UNCHANGED <<now, role, changed, token, jar>>
      BY <2>1 DEF CheckPassword
    <3>3. RequestTypes(q)'
      <4>1. request'[q].browser = b /\ request'[q].user = u /\ request'[q].role = role[u]
            /\ request'[q].phase = "checked"
        BY <2>0, <3>2 DEF Arrives, Idle
      <4>2. QED BY <2>0, <4>1 DEF RequestTypes
    <3>4. RowsStay
      BY <3>2 DEF RowsStay, Exists
    <3> HIDE DEF r
    <3>5. QED BY <2>0, <3>1, <3>2, <3>3, <3>4, OneRequestMoves
  <2>2. ASSUME NEW q \in Requests, NEW n \in TokenIds, OpenSession(q, n)
        PROVE  SessionTypeOK'
    <3> DEFINE r == Answered(q, AccessToken(request[q].user, request[q].role, now), n)
    <3>1. request[q].phase = "checked" /\ ~Exists(n)
      BY <2>2 DEF OpenSession
    <3>2. /\ request[q].user \in Users /\ request[q].role \in Roles
          /\ request[q].browser \in Browsers /\ request[q].since \in Nat
      BY <2>0, <3>1 DEF SessionTypeOK, RequestStates
    <3>3. r \in RequestStates /\ r.token = None /\ r.cookies.refresh = n
          /\ r.phase = "answer" /\ r.browser = request[q].browser
      <4>1. now + AccessTtl \in Nat
        BY <2>0, TtlsArePositive
      <4>2. QED BY <3>2, <4>1, IdleTypes
        DEF Answered, AccessToken, Idle, RequestStates, CookieValues
    <3>4. Issued(request[q].user, n) \in TokenRow
      <4>1. now + RefreshTtl \in Nat
        BY <2>0, TtlsArePositive
      <4>2. QED BY <3>2, <4>1 DEF Issued, TokenRow
    <3>5. /\ token' = [token EXCEPT ![n] = Issued(request[q].user, n)]
          /\ request' = [request EXCEPT ![q] = r]
          /\ UNCHANGED <<now, role, changed, jar>>
      BY <2>2 DEF OpenSession
    <3>6. token' \in [TokenIds -> TokenRow \cup {None}]
      BY <2>0, <3>4, <3>5
    <3>7. Issued(request[q].user, n) # None
      BY NoneIsNoRow, <3>4
    <3>8. RowsStay /\ Exists(n)'
      BY <2>0, <3>5, <3>7 DEF RowsStay, Exists
    <3>9. RequestTypes(q)'
      <4>1. request'[q] = r
        BY <2>0, <3>5
      <4>2. QED BY <3>2, <3>3, <4>1 DEF RequestTypes
    <3> HIDE DEF r
    <3>10. QED BY <3>3, <3>5, <3>6, <3>8, <3>9, OneRequestMoves
  <2>3. ASSUME NEW q \in Requests, NEW b \in Browsers, ReadToken(q, b)
        PROVE  SessionTypeOK'
    <3>0. PICK t : t = jar[b].refresh
      OBVIOUS
    <3> DEFINE r == [Arrives(q, b, "read") EXCEPT !.token = t, !.seen = token[t]]
    <3>1. t # None /\ request' = [request EXCEPT ![q] = r]
          /\ UNCHANGED <<now, role, changed, token, jar>>
      BY <2>3, <3>0 DEF ReadToken
    <3>2. t \in TokenIds /\ Exists(t)
      BY <2>0, <3>0, <3>1 DEF SessionTypeOK, Carried, CookieValues
    <3>3. token[t] \in TokenRow
      BY <2>0, <3>2 DEF Exists
    <3>4. r \in RequestStates /\ r.token = t /\ r.cookies.refresh = None
          /\ r.phase = "read" /\ r.browser = b /\ r.seen = token[t]
      BY <2>0, <3>2, <3>3, IdleTypes DEF Arrives, Idle, NoCookies, RequestStates
    <3>5. RequestTypes(q)'
      <4>1. request'[q] = r
        BY <2>0, <3>1
      <4>2. QED BY <3>2, <3>3, <3>4, <4>1 DEF RequestTypes
    <3>6. RowsStay /\ Exists(t)'
      BY <3>1, <3>2 DEF RowsStay, Exists
    <3> HIDE DEF r
    <3>7. QED BY <2>0, <3>1, <3>2, <3>4, <3>5, <3>6, OneRequestMoves
  <2>4. ASSUME NEW q \in Requests, RejectReused(q) PROVE SessionTypeOK'
    <3>1. /\ token' = [n \in TokenIds |->
                         IF Exists(n) /\ token[n].user = request[q].seen.user
                           THEN Revoked(token[n]) ELSE token[n]]
          /\ request' = [request EXCEPT ![q] = Idle]
          /\ UNCHANGED <<now, role, changed, jar>>
      BY <2>4 DEF RejectReused, RevokeAllForUser
    <3>2. \A n \in TokenIds : Exists(n) => Revoked(token[n]) \in TokenRow
      BY <2>0, RowTypes
    <3>3. token' \in [TokenIds -> TokenRow \cup {None}] /\ RowsStay
      BY <2>0, <3>1, <3>2, NoneIsNoRow DEF RowsStay, Exists
    <3>4. RequestTypes(q)' /\ Idle.token = None /\ Idle.cookies.refresh = None
      BY <2>0, <3>1 DEF RequestTypes, Idle, NoCookies
    <3>5. QED BY <3>1, <3>3, <3>4, IdleTypes, OneRequestMoves
  <2>5. ASSUME NEW q \in Requests, RejectExpired(q) PROVE SessionTypeOK'
    <3> DEFINE t == request[q].token
    <3>1. /\ token' = [token EXCEPT ![t].revoked = TRUE]
          /\ request' = [request EXCEPT ![q] = Idle]
          /\ UNCHANGED <<now, role, changed, jar>>
          /\ request[q].phase = "read"
      BY <2>5 DEF RejectExpired
    <3>2. t \in TokenIds /\ Exists(t)
      BY <3>1, NoneIsNoToken DEF SessionTypeOK, Carried
    <3>3. Revoked(token[t]) \in TokenRow
      BY <2>0, <3>2, RowTypes
    <3>4. token' = [token EXCEPT ![t] = Revoked(token[t])]
      BY <3>1 DEF Revoked
    <3>5. token' \in [TokenIds -> TokenRow \cup {None}] /\ RowsStay
      BY <2>0, <3>2, <3>3, <3>4, NoneIsNoRow DEF RowsStay, Exists
    <3>6. RequestTypes(q)' /\ Idle.token = None /\ Idle.cookies.refresh = None
      BY <2>0, <3>1 DEF RequestTypes, Idle, NoCookies
    <3>7. QED BY <3>1, <3>5, <3>6, IdleTypes, OneRequestMoves
  <2>6. ASSUME NEW q \in Requests, NEW n \in TokenIds, Swap(q, n)
        PROVE  SessionTypeOK'
    <3>0. PICK t : t = request[q].token
      OBVIOUS
    <3> DEFINE old == [token[t] EXCEPT !.revoked = TRUE, !.replacedBy = n]
               r == [request[q] EXCEPT !.phase = "swapped", !.cookies.refresh = n]
    <3>1. /\ ~Exists(n) /\ request[q].phase = "read"
          /\ token' = [token EXCEPT ![n] = Successor(t, n),
                                    ![t].revoked = TRUE, ![t].replacedBy = n]
          /\ request' = [request EXCEPT ![q].phase = "swapped",
                                        ![q].cookies.refresh = n]
          /\ UNCHANGED <<now, role, changed, jar>>
      BY <2>6, <3>0 DEF Swap, SwapIn
    <3>2. t \in TokenIds /\ Exists(t) /\ t # n
          /\ request[q].seen \in TokenRow /\ request[q].browser \in Browsers
      BY <3>0, <3>1, NoneIsNoToken DEF SessionTypeOK, Carried
    <3>3. old \in TokenRow /\ Successor(t, n) \in TokenRow
      BY <2>0, <3>2, RowTypes
    <3>4. token' = [token EXCEPT ![n] = Successor(t, n), ![t] = old]
      BY <2>0, <3>1, <3>2
    <3>5. token' \in [TokenIds -> TokenRow \cup {None}] /\ RowsStay /\ Exists(n)'
          /\ Exists(t)'
      BY <2>0, <3>2, <3>3, <3>4, NoneIsNoRow DEF RowsStay, Exists
    <3>6. request' = [request EXCEPT ![q] = r]
      BY <2>0, <3>1
    <3>7. r \in RequestStates /\ r.token = t /\ r.cookies.refresh = n
          /\ r.phase = "swapped" /\ r.seen = request[q].seen
          /\ r.browser = request[q].browser
      BY ZenonT(60), <2>0, <3>0 DEF RequestStates, CookieValues
    <3>8. RequestTypes(q)'
      <4>1. request'[q] = r
        BY <2>0, <3>6
      <4>2. QED BY <3>2, <3>7, <4>1 DEF RequestTypes
    <3> HIDE DEF r, old
    <3>9. QED BY <3>1, <3>2, <3>5, <3>6, <3>7, <3>8, OneRequestMoves
  <2>7. ASSUME NEW q \in Requests, SignAccess(q) PROVE SessionTypeOK'
    <3>0. PICK n : n = request[q].cookies.refresh
      OBVIOUS
    <3> DEFINE u == request[q].seen.user
               r == Answered(q, AccessToken(u, role[u], now), n)
    <3>1. /\ request[q].phase = "swapped"
          /\ request' = [request EXCEPT ![q] = r]
          /\ UNCHANGED <<now, role, changed, token, jar>>
      BY <2>7, <3>0 DEF SignAccess
    <3>2. u \in Users /\ request[q].browser \in Browsers /\ request[q].since \in Nat
          /\ n \in TokenIds \cup {None} /\ role[u] \in Roles
          /\ (n # None => Exists(n))
      BY <2>0, <3>0, <3>1
      DEF SessionTypeOK, RequestStates, TokenRow, CookieValues, Carried
    <3>3. r \in RequestStates /\ r.token = None /\ r.cookies.refresh = n
          /\ r.phase = "answer" /\ r.browser = request[q].browser
      <4>1. now + AccessTtl \in Nat
        BY <2>0, TtlsArePositive
      <4>2. QED BY ZenonT(60), <3>2, <4>1, IdleTypes
        DEF Answered, AccessToken, Idle, RequestStates, CookieValues
    <3>4. RowsStay /\ (n # None => Exists(n)')
      BY <3>1, <3>2 DEF RowsStay, Exists
    <3>5. RequestTypes(q)'
      <4>1. request'[q] = r
        BY <2>0, <3>1
      <4>2. QED BY <3>2, <3>3, <4>1 DEF RequestTypes
    <3> HIDE DEF r, u
    <3>6. QED BY <2>0, <3>1, <3>2, <3>3, <3>4, <3>5, OneRequestMoves
  <2>8. ASSUME NEW q \in Requests, NEW b \in Browsers, Logout(q, b)
        PROVE  SessionTypeOK'
    <3> DEFINE t == jar[b].refresh
               r == Arrives(q, b, "answer")
    <3>1. /\ token' = IF t = None THEN token ELSE [token EXCEPT ![t].revoked = TRUE]
          /\ request' = [request EXCEPT ![q] = r]
          /\ UNCHANGED <<now, role, changed, jar>>
      BY <2>8 DEF Logout
    <3>2. token' \in [TokenIds -> TokenRow \cup {None}] /\ RowsStay
      <4>1. CASE t = None
        BY <2>0, <3>1, <4>1 DEF RowsStay, Exists
      <4>2. CASE t # None
        <5>1. t \in TokenIds /\ Exists(t)
          BY <2>0, <4>2 DEF SessionTypeOK, Carried, CookieValues
        <5>2. Revoked(token[t]) \in TokenRow
          BY <2>0, <5>1, RowTypes
        <5>3. token' = [token EXCEPT ![t] = Revoked(token[t])]
          BY <3>1, <4>2 DEF Revoked
        <5>4. QED BY <2>0, <5>1, <5>2, <5>3, NoneIsNoRow DEF RowsStay, Exists
      <4>3. QED BY <4>1, <4>2
    <3>3. r \in RequestStates /\ r.token = None /\ r.cookies.refresh = None
          /\ r.phase = "answer" /\ r.browser = b
      BY <2>0, IdleTypes DEF Arrives, Idle, NoCookies, RequestStates
    <3>4. RequestTypes(q)'
      <4>1. request'[q] = r
        BY <2>0, <3>1
      <4>2. QED BY <3>3, <4>1 DEF RequestTypes
    <3> HIDE DEF r
    <3>5. QED BY <3>1, <3>2, <3>3, <3>4, OneRequestMoves
  <2>9. ASSUME NEW q \in Requests, Lose(q) PROVE SessionTypeOK'
    <3>1. /\ request' = [request EXCEPT ![q] = Idle]
          /\ UNCHANGED <<now, role, changed, token, jar>>
      BY <2>9 DEF Lose
    <3>2. RequestTypes(q)' /\ Idle.token = None /\ Idle.cookies.refresh = None
          /\ RowsStay
      BY <2>0, <3>1 DEF RequestTypes, Idle, NoCookies, RowsStay, Exists
    <3>3. QED BY <2>0, <3>1, <3>2, IdleTypes, OneRequestMoves
  <2>10. ASSUME NEW q \in Requests, Answer(q) PROVE SessionTypeOK'
    <3>1. /\ jar' = [jar EXCEPT ![request[q].browser] = request[q].cookies]
          /\ request' = [request EXCEPT ![q] = Idle]
          /\ UNCHANGED <<now, role, changed, token>>
      BY <2>10 DEF Answer
    <3>2. jar' \in [Browsers -> CookieValues]
          /\ request' \in [Requests -> RequestStates]
      BY <2>0, <3>1, IdleTypes DEF RequestStates
    <3>3. \A p \in Requests : RequestTypes(p)'
      BY <2>0, <3>1 DEF SessionTypeOK, RequestTypes, Idle
    <3>4. Carried' \subseteq Carried \cup {None}
      BY <2>0, <3>1 DEF Carried, Idle, NoCookies
    <3>5. QED BY <3>1, <3>2, <3>3, <3>4 DEF SessionTypeOK, RequestTypes, Exists
  <2>11. ASSUME NEW u \in Users, ChangeRole(u) PROVE SessionTypeOK'
    BY <2>11 DEF ChangeRole, SessionTypeOK, Carried, Exists
  <2>12. CASE Tick
    BY <2>12 DEF Tick, SessionTypeOK, Carried, Exists
  <2>13. CASE UNCHANGED vars
    BY <2>13 DEF vars, SessionTypeOK, Carried, Exists
  <2>14. QED BY <2>1, <2>2, <2>3, <2>4, <2>5, <2>6, <2>7, <2>8, <2>9, <2>10, <2>11,
               <2>12, <2>13 DEF Next, Login, Refresh
<1>3. QED BY <1>1, <1>2, PTL DEF Spec

-----------------------------------------------------------------------------
(***************************************************************************)
(* The tokens of a login.  Each but the first was swapped for another one  *)
(* of the login, which is revoked since; and where no token was swapped    *)
(* twice, only one of them has no successor.  That one is the only one     *)
(* that may be good.                                                       *)
(***************************************************************************)
HasSuccessor(t) == \E u \in TokenIds : Exists(u) /\ token[u].swappedFrom = t

LoginsGoBack ==
  \A t \in {u \in TokenIds : Exists(u)} :
    /\ Exists(token[t].login)
    /\ token[t].swappedFrom # None =>
         /\ Exists(token[t].swappedFrom)
         /\ token[token[t].swappedFrom].revoked
         /\ token[token[t].swappedFrom].login = token[t].login

OneNewestToken ==
  \A f \in TokenIds :
    ~Forked(f) =>
      \A t, u \in TokensOf(f) : ~HasSuccessor(t) /\ ~HasSuccessor(u) => t = u

TokenInv == LoginsGoBack /\ OneNewestToken

(***************************************************************************)
(* Roles.  A request that has read the role of its user before a change    *)
(* began before it, a token that is out is not longer good than one signed *)
(* now, and one with an old role was signed by a request that began before *)
(* the change.                                                             *)
(***************************************************************************)
HeldAccess ==
  {jar[b].access : b \in Browsers} \cup {request[q].cookies.access : q \in Requests}

RequestIsShort(q) ==
  request[q].phase # "idle" =>
    /\ request[q].since <= now
    /\ now <= request[q].since + RequestSpan
    /\ (request[q].phase = "checked" /\ request[q].role # role[request[q].user]) =>
         /\ changed[request[q].user] \in Nat
         /\ request[q].since <= changed[request[q].user]

ExpiresInTime(access) ==
  /\ access.expires <= now + AccessTtl
  /\ access.role # role[access.user] =>
       /\ changed[access.user] \in Nat
       /\ access.expires <= changed[access.user] + AccessTtl + RequestSpan

RoleInv ==
  /\ \A q \in Requests : RequestIsShort(q)
  /\ \A access \in HeldAccess \ {None} : ExpiresInTime(access)

-----------------------------------------------------------------------------
\* The rows of a set of tokens stay, but may be revoked.
OnlyRevoked(S) ==
  \A t \in S :
    /\ Exists(t) <=> (token'[t] # None)
    /\ Exists(t) =>
         /\ token'[t].login = token[t].login
         /\ token'[t].swappedFrom = token[t].swappedFrom
         /\ (token'[t].revoked = TRUE \/ token'[t].revoked = token[t].revoked)

(***************************************************************************)
(* What a step does to the table: it revokes tokens, opens a session, or   *)
(* swaps a token.                                                          *)
(***************************************************************************)
LEMMA StepsOnTokens ==
  ASSUME SessionTypeOK, [Next]_vars
  PROVE  \/ OnlyRevoked(TokenIds)
         \/ \E q \in Requests, n \in TokenIds : OpenSession(q, n) \/ Swap(q, n)
<1>1. token \in [TokenIds -> TokenRow \cup {None}]
  BY DEF SessionTypeOK
<1>2. ASSUME UNCHANGED token PROVE OnlyRevoked(TokenIds)
  BY <1>2 DEF OnlyRevoked, Exists
<1>3. ASSUME NEW t \in TokenIds, Exists(t), token' = [token EXCEPT ![t].revoked = TRUE]
      PROVE  OnlyRevoked(TokenIds)
  <2>1. token[t] \in TokenRow
    BY <1>1, <1>3 DEF Exists
  <2>2. /\ token'[t] = [token[t] EXCEPT !.revoked = TRUE]
        /\ \A n \in TokenIds \ {t} : token'[n] = token[n]
    BY <1>1, <1>3
  <2>3. token'[t] \in TokenRow
    BY <2>1, <2>2 DEF TokenRow
  <2>4. /\ token'[t].login = token[t].login
        /\ token'[t].swappedFrom = token[t].swappedFrom
        /\ token'[t].revoked = TRUE
    BY <2>1, <2>2 DEF TokenRow
  <2>5. OnlyRevoked({t})
    BY <1>3, <2>3, <2>4, NoneIsNoRow DEF OnlyRevoked, Exists
  <2>6. QED BY <2>2, <2>5 DEF OnlyRevoked, Exists
<1>4. ASSUME NEW q \in Requests, RejectReused(q) PROVE OnlyRevoked(TokenIds)
  <2> SUFFICES ASSUME NEW t \in TokenIds
               PROVE  OnlyRevoked({t})
    BY DEF OnlyRevoked
  <2>1. token'[t] = token[t] \/ (Exists(t) /\ token'[t] = Revoked(token[t]))
    BY <1>1, <1>4 DEF RejectReused, RevokeAllForUser
  <2>2. Exists(t) => Revoked(token[t]) \in TokenRow /\ token[t] \in TokenRow
    BY <1>1, RowTypes DEF SessionTypeOK, Exists
  <2>3. QED BY <2>1, <2>2, NoneIsNoRow DEF OnlyRevoked, Exists, Revoked, TokenRow
<1>5. ASSUME NEW q \in Requests, RejectExpired(q) PROVE OnlyRevoked(TokenIds)
  <2>1. request[q].token \in TokenIds /\ Exists(request[q].token)
    BY <1>5, NoneIsNoToken DEF RejectExpired, SessionTypeOK, Carried
  <2>2. token' = [token EXCEPT ![request[q].token].revoked = TRUE]
    BY <1>5 DEF RejectExpired
  <2>3. QED BY <1>3, <2>1, <2>2
<1>6. ASSUME NEW q \in Requests, NEW b \in Browsers, Logout(q, b)
      PROVE  OnlyRevoked(TokenIds)
  <2>1. CASE jar[b].refresh = None
    BY <1>2, <1>6, <2>1 DEF Logout
  <2>2. CASE jar[b].refresh # None
    <3>1. jar[b].refresh \in TokenIds /\ Exists(jar[b].refresh)
      BY <2>2 DEF SessionTypeOK, Carried, CookieValues
    <3>2. token' = [token EXCEPT ![jar[b].refresh].revoked = TRUE]
      BY <1>6, <2>2 DEF Logout
    <3>3. QED BY <1>3, <3>1, <3>2
  <2>3. QED BY <2>1, <2>2
<1>7. QED BY <1>2, <1>4, <1>5, <1>6
  DEF Next, Login, Refresh, vars, CheckPassword, ReadToken, SignAccess, Answer, Lose,
      ChangeRole, Tick

(***************************************************************************)
(* Where a token is added, no older one gains a successor but the one it   *)
(* was swapped for.                                                        *)
(***************************************************************************)
LEMMA RevokingKeepsTokens ==
  ASSUME SessionTypeOK, TokenInv, OnlyRevoked(TokenIds)
  PROVE  TokenInv'
<1>1. \A t \in TokenIds : Exists(t) => token[t] \in TokenRow
  BY DEF SessionTypeOK, Exists
<1>2. \A t \in TokenIds :
        /\ token'[t] # None <=> token[t] # None
        /\ token[t] # None => token'[t].login = token[t].login
        /\ token[t] # None => token'[t].swappedFrom = token[t].swappedFrom
  BY DEF OnlyRevoked, Exists
<1>0. ASSUME NEW t \in TokenIds, token[t] # None, token[t].revoked
      PROVE  token'[t].revoked
  BY <1>0 DEF OnlyRevoked, Exists
<1>3. LoginsGoBack'
  <2> SUFFICES ASSUME NEW t \in TokenIds, Exists(t)'
               PROVE  LoginsGoBack!(t)'
    BY DEF LoginsGoBack
  <2>1. Exists(t) /\ token[t].login \in TokenIds
    BY <1>1, <1>2 DEF TokenRow, Exists
  <2>2. Exists(token[t].login)'
    BY <1>2, <2>1 DEF TokenInv, LoginsGoBack, Exists
  <2>3. CASE token[t].swappedFrom # None
    <3>1. token[t].swappedFrom \in TokenIds
      BY <1>1, <2>1, <2>3 DEF TokenRow
    <3>2. QED BY <1>0, <1>2, <2>1, <2>2, <2>3, <3>1 DEF TokenInv, LoginsGoBack, Exists
  <2>4. QED BY <1>2, <2>1, <2>2, <2>3 DEF Exists
<1>4. ASSUME NEW f \in TokenIds
      PROVE  TokensOf(f)' = TokensOf(f) /\ (Forked(f)' <=> Forked(f))
  <2>1. TokensOf(f)' = TokensOf(f)
    BY <1>2 DEF TokensOf, Exists
  <2>2. \A t \in TokensOf(f) : token'[t].swappedFrom = token[t].swappedFrom
    BY <1>2 DEF TokensOf, Exists
  <2>3. QED BY <2>1, <2>2 DEF Forked
<1>5. \A t \in TokenIds : HasSuccessor(t)' <=> HasSuccessor(t)
  BY <1>2 DEF HasSuccessor, Exists
<1>6. OneNewestToken'
  <2>1. \A f \in TokenIds : TokensOf(f) \subseteq TokenIds
    BY DEF TokensOf
  <2>2. QED BY <1>4, <1>5, <2>1 DEF TokenInv, OneNewestToken
<1>7. QED BY <1>3, <1>6 DEF TokenInv

\* A login begins a family of its own.
LEMMA OpeningKeepsTokens ==
  ASSUME SessionTypeOK, TokenInv, NEW q \in Requests, NEW n \in TokenIds,
         OpenSession(q, n)
  PROVE  TokenInv'
<1>1. /\ ~Exists(n)
      /\ token'[n] = Issued(request[q].user, n)
      /\ \A t \in TokenIds \ {n} : token'[t] = token[t]
  BY DEF OpenSession, SessionTypeOK
<1>2. Exists(n)' /\ token'[n].login = n /\ token'[n].swappedFrom = None
  <2>1. request[q].user \in Users /\ now + RefreshTtl \in Nat
    BY TtlsArePositive DEF OpenSession, SessionTypeOK
  <2>2. token'[n] \in TokenRow
    BY <1>1, <2>1 DEF Issued, TokenRow
  <2>3. token'[n] # None
    BY <2>2, NoneIsNoRow
  <2>4. QED BY <1>1, <2>3 DEF Issued, Exists
<1>3. \A t \in TokenIds : Exists(t) => token[t] \in TokenRow
  BY DEF SessionTypeOK, Exists
<1>4. \A t \in TokenIds \ {n} : Exists(t)' = Exists(t)
  BY <1>1 DEF Exists
<1>5. LoginsGoBack'
  BY <1>1, <1>2, <1>3, <1>4 DEF TokenInv, LoginsGoBack, TokenRow
<1>6. TokensOf(n)' = {n}
  BY <1>1, <1>2, <1>3, <1>4 DEF TokensOf, TokenInv, LoginsGoBack, TokenRow
<1>7. ASSUME NEW f \in TokenIds \ {n}
      PROVE  TokensOf(f)' = TokensOf(f) /\ Forked(f)' = Forked(f)
  <2>1. TokensOf(f)' = TokensOf(f)
    BY <1>1, <1>2, <1>4 DEF TokensOf
  <2>2. n \notin TokensOf(f)
    BY <1>1 DEF TokensOf
  <2>3. \A t \in TokensOf(f) : token'[t] = token[t]
    BY <1>1, <2>2 DEF TokensOf
  <2>4. QED BY <2>1, <2>3 DEF Forked
<1>8. \A t \in TokenIds : HasSuccessor(t)' = HasSuccessor(t)
  BY <1>1, <1>2, <1>4, NoneIsNoToken DEF HasSuccessor
<1>9. OneNewestToken'
  BY <1>6, <1>7, <1>8 DEF TokenInv, OneNewestToken, TokensOf
<1>10. QED BY <1>5, <1>9 DEF TokenInv

\* A refresh swaps the good token of its family for the next one.
LEMMA SwappingKeepsTokens ==
  ASSUME SessionTypeOK, TokenInv, NEW q \in Requests, NEW n \in TokenIds, Swap(q, n)
  PROVE  TokenInv'
<1>0. PICK t : t = request[q].token
  OBVIOUS
<1>1. t \in TokenIds /\ Exists(t) /\ ~Exists(n) /\ t # n
  BY <1>0, NoneIsNoToken DEF Swap, SessionTypeOK, Carried
<1>2. \A u \in TokenIds : Exists(u) => token[u] \in TokenRow
  BY DEF SessionTypeOK, Exists
<1>3. /\ token'[n] = Successor(t, n)
      /\ token'[t] = [token[t] EXCEPT !.revoked = TRUE, !.replacedBy = n]
      /\ \A u \in TokenIds \ {n, t} : token'[u] = token[u]
  BY <1>0, <1>1 DEF Swap, SwapIn, SessionTypeOK
<1>4. token'[n] \in TokenRow /\ token'[t] \in TokenRow
  <2>1. Successor(t, n) \in TokenRow
        /\ [token[t] EXCEPT !.revoked = TRUE, !.replacedBy = n] \in TokenRow
    BY <1>1, RowTypes DEF SessionTypeOK
  <2>2. QED BY <1>3, <2>1
<1>5. Exists(n)' /\ Exists(t)'
      /\ \A u \in TokenIds \ {n} : Exists(u)' = Exists(u)
  BY <1>1, <1>3, <1>4, NoneIsNoRow DEF Exists
<1>6. /\ token'[n].login = token[t].login /\ token'[n].swappedFrom = t
      /\ token'[t].revoked
      /\ \A u \in TokenIds \ {n} :
           Exists(u) => /\ token'[u].login = token[u].login
                        /\ token'[u].swappedFrom = token[u].swappedFrom
                        /\ token[u].revoked => token'[u].revoked
  <2>1. token'[n].login = token[t].login /\ token'[n].swappedFrom = t
    BY <1>3 DEF Successor, Issued
  <2>2. token[t] \in TokenRow
    BY <1>1, <1>2
  <2>3. /\ token'[t].revoked /\ token'[t].login = token[t].login
        /\ token'[t].swappedFrom = token[t].swappedFrom
    BY <1>3, <2>2 DEF TokenRow
  <2>4. QED BY <1>3, <2>1, <2>3
<1>7. LoginsGoBack'
  BY <1>1, <1>2, <1>5, <1>6, NoneIsNoToken DEF TokenInv, LoginsGoBack, TokenRow
<1>8. ASSUME NEW f \in TokenIds, ~Forked(f)',
             NEW u \in TokensOf(f)', NEW v \in TokensOf(f)',
             ~HasSuccessor(u)', ~HasSuccessor(v)'
      PROVE  u = v
  <2>1. TokensOf(f) \subseteq TokensOf(f)' /\ TokensOf(f)' \subseteq TokensOf(f) \cup {n}
    BY <1>1, <1>5, <1>6 DEF TokensOf
  <2>2. \A w \in TokensOf(f) : w # n /\ token'[w].swappedFrom = token[w].swappedFrom
    BY <1>1, <1>6 DEF TokensOf
  <2>3. ~Forked(f)
    BY <1>8, <2>1, <2>2 DEF Forked
  <2>4. \A w \in TokensOf(f) : ~HasSuccessor(w)' => ~HasSuccessor(w)
    BY <1>1, <1>5, <1>6 DEF HasSuccessor, TokensOf
  <2>5. HasSuccessor(t)'
    BY <1>5, <1>6 DEF HasSuccessor
  <2>6. CASE n \notin TokensOf(f)'
    BY <1>8, <2>1, <2>3, <2>4, <2>6 DEF TokenInv, OneNewestToken
  <2>7. CASE n \in TokensOf(f)'
    <3>1. t \in TokensOf(f)
      BY <1>1, <1>6, <2>7 DEF TokensOf
    <3>2. ~HasSuccessor(t)
      <4> SUFFICES ASSUME HasSuccessor(t) PROVE FALSE
        OBVIOUS
      <4>1. PICK c \in TokenIds : Exists(c) /\ token[c].swappedFrom = t
        BY DEF HasSuccessor
      <4>2. c \in TokensOf(f)
        BY <1>1, <3>1, <4>1, NoneIsNoToken DEF TokensOf, TokenInv, LoginsGoBack
      <4>3. c # n /\ token'[c].swappedFrom = t
        BY <1>1, <1>6, <4>1
      <4>4. QED BY <1>1, <1>6, <1>8, <2>1, <2>7, <4>2, <4>3, NoneIsNoToken DEF Forked
    <3>3. \A w \in TokensOf(f) : ~HasSuccessor(w)' => w = t
      BY <2>3, <2>4, <3>1, <3>2 DEF TokenInv, OneNewestToken
    <3>4. QED BY <1>8, <2>1, <2>5, <3>3
  <2>8. QED BY <2>6, <2>7
<1>9. OneNewestToken'
  BY <1>8 DEF OneNewestToken
<1>10. QED BY <1>7, <1>9 DEF TokenInv

\* Every step keeps the tokens in families.
THEOREM TokensFollowLogins == Spec => []TokenInv
<1>1. Init => TokenInv
  BY DEF Init, TokenInv, LoginsGoBack, OneNewestToken, TokensOf, Exists
<1>2. SessionTypeOK /\ TokenInv /\ [Next]_vars => TokenInv'
  BY StepsOnTokens, RevokingKeepsTokens, OpeningKeepsTokens, SwappingKeepsTokens
<1>3. QED BY <1>1, <1>2, SessionTypeCorrect, PTL DEF Spec

(***************************************************************************)
(* A login whose tokens were each swapped at most once has one good token  *)
(* at most, however its requests overlap (refresh-token.service.ts).       *)
(***************************************************************************)
THEOREM LoginsHaveOneToken == Spec => []OneTokenPerLogin
<1>1. SessionTypeOK /\ TokenInv => OneTokenPerLogin
  <2> SUFFICES ASSUME SessionTypeOK, TokenInv,
                      NEW f \in TokenIds, ~Forked(f),
                      NEW t \in TokensOf(f), NEW u \in TokensOf(f),
                      Unrevoked(t), Unrevoked(u)
               PROVE  t = u
    BY DEF OneTokenPerLogin
  <2>1. \A w \in TokensOf(f) : Unrevoked(w) => ~HasSuccessor(w)
    BY NoneIsNoToken DEF TokensOf, Unrevoked, HasSuccessor, TokenInv, LoginsGoBack
  <2>2. QED BY <2>1 DEF TokenInv, OneNewestToken
<1>2. QED BY <1>1, SessionTypeCorrect, TokensFollowLogins, PTL

-----------------------------------------------------------------------------
(***************************************************************************)
(* What a step does to a request: it leaves it, brings it to a phase in    *)
(* which no row has been read for a rotation, or reads a row.              *)
(***************************************************************************)
LEMMA StepsOnReads ==
  ASSUME SessionTypeOK, [Next]_vars, NEW p \in Requests, request'[p] # request[p],
         request'[p].phase = "read"
  PROVE  /\ request'[p].token \in TokenIds
         /\ request'[p].seen = token[request'[p].token]
         /\ UNCHANGED token
<1>1. request \in [Requests -> RequestStates] /\ jar \in [Browsers -> CookieValues]
  BY DEF SessionTypeOK
<1>2. ASSUME NEW q \in Requests, NEW r, request' = [request EXCEPT ![q] = r],
             r.phase # "read"
      PROVE  FALSE
  BY <1>1, <1>2
<1>3. ASSUME NEW q \in Requests, NEW b \in Browsers, NEW u \in Users,
             CheckPassword(q, b, u)
      PROVE  FALSE
  <2>1. [Arrives(q, b, "checked") EXCEPT !.user = u, !.role = role[u]].phase = "checked"
    BY DEF Arrives, Idle
  <2>2. QED BY <1>2, <1>3, <2>1 DEF CheckPassword
<1>4. ASSUME NEW q \in Requests, NEW access, NEW refresh,
             request' = [request EXCEPT ![q] = Answered(q, access, refresh)]
      PROVE  FALSE
  <2>1. Answered(q, access, refresh).phase = "answer"
    BY DEF Answered, Idle
  <2>2. QED BY <1>2, <1>4, <2>1
<1>5. ASSUME NEW q \in Requests, NEW n \in TokenIds, OpenSession(q, n) PROVE FALSE
  BY <1>4, <1>5 DEF OpenSession
<1>6. ASSUME NEW q \in Requests, SignAccess(q) PROVE FALSE
  BY <1>4, <1>6 DEF SignAccess
<1>7. ASSUME NEW q \in Requests, NEW n \in TokenIds, Swap(q, n) PROVE FALSE
  BY <1>1, <1>7 DEF Swap, RequestStates
<1>8. ASSUME NEW q \in Requests, NEW b \in Browsers, Logout(q, b) PROVE FALSE
  <2>1. Arrives(q, b, "answer").phase = "answer"
    BY DEF Arrives, Idle
  <2>2. QED BY <1>2, <1>8, <2>1 DEF Logout
<1>9. ASSUME NEW q \in Requests, request' = [request EXCEPT ![q] = Idle] PROVE FALSE
  <2>1. Idle.phase = "idle"
    BY DEF Idle
  <2>2. QED BY <1>2, <1>9, <2>1
<1>10. ASSUME NEW q \in Requests, NEW b \in Browsers, ReadToken(q, b)
       PROVE  /\ request'[p].token \in TokenIds
              /\ request'[p].seen = token[request'[p].token]
              /\ UNCHANGED token
  <2>0. PICK t : t = jar[b].refresh
    OBVIOUS
  <2> DEFINE r == [Arrives(q, b, "read") EXCEPT !.token = t, !.seen = token[t]]
  <2>1. t \in TokenIds /\ request' = [request EXCEPT ![q] = r] /\ UNCHANGED token
    BY <1>1, <1>10, <2>0 DEF ReadToken, CookieValues
  <2>2. r.token = t /\ r.seen = token[t]
    BY DEF Arrives, Idle
  <2> HIDE DEF r
  <2>3. QED BY <1>1, <2>1, <2>2
<1>11. ASSUME UNCHANGED request PROVE FALSE
  BY <1>11
<1>12. QED BY <1>3, <1>5, <1>6, <1>7, <1>8, <1>9, <1>10, <1>11
  DEF Next, Login, Refresh, vars, RejectReused, RejectExpired, Answer, Lose,
      ChangeRole, Tick

(***************************************************************************)
(* What a step does to the tokens of a login that has ended.               *)
(***************************************************************************)
LEMMA StepsOnEnded ==
  ASSUME SessionTypeOK, TokenInv, [Next]_vars, NEW f \in TokenIds, Ended(f)
  PROVE  /\ TokensOf(f)' = TokensOf(f)
         /\ \A t \in TokensOf(f) : token'[t].revoked
<1>1. CASE OnlyRevoked(TokenIds)
  <2>1. TokensOf(f)' = TokensOf(f)
    BY <1>1 DEF TokensOf, OnlyRevoked, Exists
  <2>2. ASSUME NEW t \in TokensOf(f) PROVE token'[t].revoked
    <3>1. t \in TokenIds /\ Exists(t) /\ token[t].revoked
      BY <2>2 DEF TokensOf, Ended
    <3>2. QED BY <1>1, <3>1 DEF OnlyRevoked
  <2>3. QED BY <2>1, <2>2
<1>2. ASSUME NEW n \in TokenIds, ~Exists(n),
             token'[n] # None => token'[n].login # f,
             \A t \in TokensOf(f) : token'[t] = token[t],
             \A t \in TokenIds \ {n} : /\ token'[t] # None <=> token[t] # None
                                       /\ token[t] # None => token'[t].login = token[t].login
      PROVE  /\ TokensOf(f)' = TokensOf(f)
             /\ \A t \in TokensOf(f) : token'[t].revoked
  BY <1>2 DEF TokensOf, Exists, Ended
<1>3. ASSUME NEW q \in Requests, NEW n \in TokenIds, OpenSession(q, n)
      PROVE  /\ TokensOf(f)' = TokensOf(f)
             /\ \A t \in TokensOf(f) : token'[t].revoked
  <2>1. /\ ~Exists(n)
        /\ token'[n] = Issued(request[q].user, n)
        /\ \A t \in TokenIds \ {n} : token'[t] = token[t]
    BY <1>3 DEF OpenSession, SessionTypeOK
  <2>2. token'[n].login = n
    BY <2>1 DEF Issued
  <2>3. n # f
    BY <2>1 DEF Ended, TokensOf, TokenInv, LoginsGoBack
  <2>4. n \notin TokensOf(f)
    BY <2>1 DEF TokensOf
  <2>5. QED BY <1>2, <2>1, <2>2, <2>3, <2>4 DEF TokensOf
<1>4. ASSUME NEW q \in Requests, NEW n \in TokenIds, Swap(q, n)
      PROVE  /\ TokensOf(f)' = TokensOf(f)
             /\ \A t \in TokensOf(f) : token'[t].revoked
  <2>0. PICK s : s = request[q].token
    OBVIOUS
  <2>1. s \in TokenIds /\ Exists(s) /\ ~Exists(n) /\ s # n
    BY <1>4, <2>0, NoneIsNoToken DEF Swap, SessionTypeOK, Carried
  <2>2. token[s] \in TokenRow
    BY <2>1 DEF SessionTypeOK, Exists
  <2>3. /\ token'[n] = Successor(s, n)
        /\ token'[s] = [token[s] EXCEPT !.revoked = TRUE, !.replacedBy = n]
        /\ \A t \in TokenIds \ {n, s} : token'[t] = token[t]
    BY <1>4, <2>0, <2>1 DEF Swap, SwapIn, SessionTypeOK
  <2>4. s \notin TokensOf(f)
    BY <1>4, <2>0 DEF Swap, MaySwap, Ended
  <2>5. token[s].login # f
    BY <2>1, <2>4 DEF TokensOf
  <2>6. token'[n].login = token[s].login
    BY <2>3 DEF Successor, Issued
  <2>7. token'[s].login = token[s].login
    BY <2>2, <2>3 DEF TokenRow
  <2>8. token'[s] # None
    <3>1. [token[s] EXCEPT !.revoked = TRUE, !.replacedBy = n] \in TokenRow
      BY <2>1, RowTypes DEF SessionTypeOK
    <3>2. QED BY <2>3, <3>1, NoneIsNoRow
  <2>9. n \notin TokensOf(f)
    BY <2>1 DEF TokensOf
  <2>10. QED BY <1>2, <2>1, <2>3, <2>4, <2>5, <2>6, <2>7, <2>8, <2>9 DEF TokensOf, Exists
<1>5. QED BY <1>1, <1>3, <1>4, StepsOnTokens

(***************************************************************************)
(* A session that has ended stays ended, whatever requests are under way,  *)
(* but a rotation that read one of its tokens before (rotate decides on    *)
(* the row it read, refresh-token.service.ts).                             *)
(***************************************************************************)
THEOREM EndedSessionsNeverReturn == Spec => EndedSessionsStayEnded
<1>1. SessionTypeOK /\ TokenInv /\ [Next]_vars
        => [\A f \in TokenIds : Ended(f) => Ended(f)']_vars
  <2> SUFFICES ASSUME SessionTypeOK, TokenInv, [Next]_vars, NEW f \in TokenIds, Ended(f)
               PROVE  Ended(f)'
    OBVIOUS
  <2>1. TokensOf(f)' = TokensOf(f) /\ \A t \in TokensOf(f) : token'[t].revoked
    BY StepsOnEnded
  <2>2. ASSUME NEW q \in Requests,
               request'[q].phase = "read", request'[q].token \in TokensOf(f)
        PROVE  request'[q].seen.revoked
    <3>1. CASE request'[q] = request[q]
      BY <2>2, <3>1 DEF Ended
    <3>2. CASE request'[q] # request[q]
      <4>1. request'[q].seen = token[request'[q].token]
        BY <2>2, <3>2, StepsOnReads
      <4>2. QED BY <2>2, <4>1 DEF Ended
    <3>3. QED BY <3>1, <3>2
  <2>3. QED BY <2>1, <2>2 DEF Ended
<1>2. QED BY <1>1, SessionTypeCorrect, TokensFollowLogins, PTL
  DEF Spec, EndedSessionsStayEnded

-----------------------------------------------------------------------------
AccessTokens == [user : Users, role : Roles, expires : Nat]

\* The access tokens that browsers hold or will be given.
LEMMA HeldAccessTypes ==
  ASSUME SessionTypeOK
  PROVE  HeldAccess \subseteq AccessTokens \cup {None}
BY DEF SessionTypeOK, HeldAccess, AccessTokens, CookieValues, RequestStates

(***************************************************************************)
(* A step that changes no role and no time keeps the invariant when the    *)
(* request it moves is short and the access token it adds expires in time. *)
(***************************************************************************)
LEMMA OneRequestIsShort ==
  ASSUME SessionTypeOK, RoleInv, NEW q \in Requests, NEW r,
         request' = [request EXCEPT ![q] = r],
         RequestIsShort(q)',
         r.cookies.access \in HeldAccess \cup {None} \/ ExpiresInTime(r.cookies.access),
         UNCHANGED <<now, role, changed, jar>>
  PROVE  RoleInv'
<1>1. request'[q] = r /\ \A p \in Requests \ {q} : request'[p] = request[p]
  BY DEF SessionTypeOK
<1>2. \A p \in Requests : RequestIsShort(p)'
  BY <1>1 DEF RoleInv, RequestIsShort
<1>3. HeldAccess' \subseteq HeldAccess \cup {r.cookies.access}
  BY <1>1 DEF HeldAccess
<1>4. \A access \in HeldAccess' \ {None} : ExpiresInTime(access)
  BY <1>3 DEF RoleInv
<1>5. \A access \in HeldAccess' \ {None} : ExpiresInTime(access)'
  BY <1>4 DEF ExpiresInTime
<1>6. QED BY <1>2, <1>5 DEF RoleInv

\* A token that is signed now for a user and a role read a short while ago
\* expires in time.
LEMMA SigningNow ==
  ASSUME SessionTypeOK, NEW u \in Users, NEW r \in Roles, NEW since \in Nat,
         since <= now, now <= since + RequestSpan,
         r # role[u] => changed[u] \in Nat /\ since <= changed[u]
  PROVE  ExpiresInTime(AccessToken(u, r, now))
<1>1. now \in Nat /\ AccessTtl \in Nat /\ RequestSpan \in Nat
  BY TtlsArePositive, SpansAreNumbers DEF SessionTypeOK
<1>2. QED BY <1>1 DEF ExpiresInTime, AccessToken

(***************************************************************************)
(* A role changes in force in time: the guard reads no row, so a token     *)
(* signed with the old role by a request that was under way is what stays  *)
(* (auth.guard.ts, access-token.service.ts).                               *)
(***************************************************************************)
THEOREM RolesChangeInTime == Spec => []RoleChangeIsInForceInTime
<1>1. Init => RoleInv
  BY DEF Init, RoleInv, RequestIsShort, HeldAccess, Idle, NoCookies
<1>2. SessionTypeOK /\ SessionTypeOK' /\ RoleInv /\ [Next]_vars => RoleInv'
  <2> SUFFICES ASSUME SessionTypeOK, SessionTypeOK', RoleInv, [Next]_vars PROVE RoleInv'
    OBVIOUS
  <2>0. /\ now \in Nat /\ AccessTtl \in Nat /\ RequestSpan \in Nat
        /\ role \in [Users -> Roles] /\ changed \in [Users -> Nat \cup {None}]
        /\ request \in [Requests -> RequestStates]
        /\ \A q \in Requests : request[q].since \in Nat
    BY TtlsArePositive, SpansAreNumbers DEF SessionTypeOK, RequestStates
  <2>1. ASSUME NEW q \in Requests, NEW r, request' = [request EXCEPT ![q] = r],
               r.phase # "idle" => r.since <= now /\ now <= r.since + RequestSpan,
               r.phase # "checked",
               r.cookies.access \in HeldAccess \cup {None}
                 \/ ExpiresInTime(r.cookies.access),
               UNCHANGED <<now, role, changed, jar>>
        PROVE  RoleInv'
    <3>1. request'[q] = r
      BY <2>0, <2>1
    <3>2. RequestIsShort(q)'
      BY <2>1, <3>1 DEF RequestIsShort
    <3>3. QED BY <2>1, <3>2, OneRequestIsShort
  <2>2. ASSUME NEW q \in Requests, NEW b \in Browsers, NEW phase, phase # "checked"
        PROVE  /\ Arrives(q, b, phase).phase # "checked"
               /\ Arrives(q, b, phase).since = now
               /\ Arrives(q, b, phase).cookies.access = None
    BY <2>2 DEF Arrives, Idle, NoCookies
  <2>3. ASSUME NEW q \in Requests, NEW b \in Browsers, NEW u \in Users,
               CheckPassword(q, b, u)
        PROVE  RoleInv'
    <3> DEFINE r == [Arrives(q, b, "checked") EXCEPT !.user = u, !.role = role[u]]
    <3>1. /\ r.since = now /\ r.phase = "checked" /\ r.user = u /\ r.role = role[u]
          /\ r.cookies.access = None
      BY DEF Arrives, Idle, NoCookies
    <3>2. request' = [request EXCEPT ![q] = r] /\ UNCHANGED <<now, role, changed, jar>>
      BY <2>3 DEF CheckPassword
    <3> HIDE DEF r
    <3>3. request'[q] = r
      BY <2>0, <3>2
    <3>4. RequestIsShort(q)'
      BY <2>0, <3>1, <3>2, <3>3 DEF RequestIsShort
    <3>5. QED BY <3>1, <3>2, <3>4, OneRequestIsShort
  <2>4. ASSUME NEW q \in Requests, NEW n \in TokenIds, OpenSession(q, n) PROVE RoleInv'
    <3>0. PICK u, o : u = request[q].user /\ o = request[q].role
      OBVIOUS
    <3> DEFINE r == Answered(q, AccessToken(u, o, now), n)
    <3>1. request' = [request EXCEPT ![q] = r] /\ UNCHANGED <<now, role, changed, jar>>
      BY <2>4, <3>0 DEF OpenSession
    <3>2. u \in Users /\ o \in Roles /\ request[q].phase = "checked"
      BY <2>4, <3>0 DEF OpenSession, SessionTypeOK
    <3>3. r.phase = "answer" /\ r.since = request[q].since
          /\ r.cookies.access = AccessToken(u, o, now)
      BY DEF Answered, Idle
    <3>4. RequestIsShort(q)
      BY DEF RoleInv
    <3>5. ExpiresInTime(AccessToken(u, o, now))
      BY <2>0, <3>0, <3>2, <3>4, SigningNow DEF RequestIsShort
    <3> HIDE DEF r
    <3>6. QED BY <2>1, <3>1, <3>2, <3>3, <3>4, <3>5 DEF RequestIsShort
  <2>5. ASSUME NEW q \in Requests, NEW b \in Browsers, ReadToken(q, b) PROVE RoleInv'
    <3>0. PICK t : t = jar[b].refresh
      OBVIOUS
    <3> DEFINE r == [Arrives(q, b, "read") EXCEPT !.token = t, !.seen = token[t]]
    <3>1. request' = [request EXCEPT ![q] = r] /\ UNCHANGED <<now, role, changed, jar>>
      BY <2>5, <3>0 DEF ReadToken
    <3>2. r.since = now /\ r.phase = "read" /\ r.cookies.access = None
      BY DEF Arrives, Idle, NoCookies
    <3>3. r.since <= now /\ now <= r.since + RequestSpan
      BY <2>0, <3>2
    <3> HIDE DEF r
    <3>4. QED BY <2>1, <3>1, <3>2, <3>3
  <2>6. ASSUME NEW q \in Requests, request' = [request EXCEPT ![q] = Idle],
               UNCHANGED <<now, role, changed, jar>>
        PROVE  RoleInv'
    <3>1. Idle.phase = "idle" /\ Idle.cookies.access = None
      BY DEF Idle, NoCookies
    <3>2. QED BY <2>1, <2>6, <3>1
  <2>7. ASSUME NEW q \in Requests, NEW n \in TokenIds, Swap(q, n) PROVE RoleInv'
    <3> DEFINE r == [request[q] EXCEPT !.phase = "swapped", !.cookies.refresh = n]
    <3>1. /\ request' = [request EXCEPT ![q] = r] /\ UNCHANGED <<now, role, changed, jar>>
          /\ request[q].phase = "read"
      BY <2>7 DEF Swap
    <3>2. r.since = request[q].since /\ r.phase = "swapped"
          /\ r.cookies.access = request[q].cookies.access
      BY <2>0 DEF RequestStates, CookieValues
    <3>3. RequestIsShort(q) /\ request[q].cookies.access \in HeldAccess
      BY DEF RoleInv, HeldAccess
    <3> HIDE DEF r
    <3>4. QED BY <2>1, <3>1, <3>2, <3>3 DEF RequestIsShort
  <2>8. ASSUME NEW q \in Requests, SignAccess(q) PROVE RoleInv'
    <3>0. PICK u, n : u = request[q].seen.user /\ n = request[q].cookies.refresh
      OBVIOUS
    <3> DEFINE r == Answered(q, AccessToken(u, role[u], now), n)
    <3>1. request' = [request EXCEPT ![q] = r] /\ UNCHANGED <<now, role, changed, jar>>
          /\ request[q].phase = "swapped"
      BY SMTT(60), <2>8, <3>0 DEF SignAccess
    <3>2. u \in Users /\ role[u] \in Roles
      BY <2>0, <3>0, <3>1 DEF SessionTypeOK, TokenRow
    <3>3. r.phase = "answer" /\ r.since = request[q].since
          /\ r.cookies.access = AccessToken(u, role[u], now)
      BY DEF Answered, Idle
    <3>4. RequestIsShort(q)
      BY DEF RoleInv
    <3>5. ExpiresInTime(AccessToken(u, role[u], now))
      BY <2>0, <3>1, <3>2, <3>4, SigningNow DEF RequestIsShort
    <3> HIDE DEF r
    <3>6. QED BY <2>1, <3>1, <3>3, <3>4, <3>5 DEF RequestIsShort
  <2>9. ASSUME NEW q \in Requests, NEW b \in Browsers, Logout(q, b) PROVE RoleInv'
    <3>1. request' = [request EXCEPT ![q] = Arrives(q, b, "answer")]
          /\ UNCHANGED <<now, role, changed, jar>>
      BY <2>9 DEF Logout
    <3>2. PICK r : r = Arrives(q, b, "answer")
      OBVIOUS
    <3>3. r.since <= now /\ now <= r.since + RequestSpan
          /\ r.phase # "checked" /\ r.cookies.access = None
      BY <2>0, <2>2, <3>2
    <3>4. QED BY <2>1, <3>1, <3>2, <3>3
  <2>10. ASSUME NEW q \in Requests, Answer(q) PROVE RoleInv'
    <3>0. PICK b : b = request[q].browser
      OBVIOUS
    <3>1. /\ jar' = [jar EXCEPT ![b] = request[q].cookies]
          /\ request' = [request EXCEPT ![q] = Idle]
          /\ UNCHANGED <<now, role, changed>>
          /\ b \in Browsers /\ jar \in [Browsers -> CookieValues]
      BY <2>10, <3>0 DEF Answer, SessionTypeOK
    <3>2. HeldAccess' \subseteq HeldAccess \cup {None}
      <4>1. \A a \in Browsers : jar'[a] = jar[a] \/ jar'[a] = request[q].cookies
        BY <3>1
      <4>2. \A p \in Requests : request'[p] = request[p] \/ request'[p].cookies.access = None
        BY <2>0, <3>1 DEF Idle, NoCookies
      <4>3. QED BY <4>1, <4>2 DEF HeldAccess
    <3>3. \A access \in HeldAccess' \ {None} : ExpiresInTime(access)'
      BY <3>1, <3>2 DEF RoleInv, ExpiresInTime
    <3>4. \A p \in Requests : RequestIsShort(p)'
      BY <2>0, <3>1 DEF RoleInv, RequestIsShort, Idle
    <3>5. QED BY <3>3, <3>4 DEF RoleInv
  <2>11. ASSUME NEW u \in Users, ChangeRole(u) PROVE RoleInv'
    <3>1. /\ UNCHANGED <<now, jar, request>> /\ changed[u] = None
          /\ changed'[u] = now /\ role'[u] # role[u]
          /\ \A v \in Users \ {u} : changed'[v] = changed[v] /\ role'[v] = role[v]
      BY <2>0, <2>11 DEF ChangeRole
    <3>2. HeldAccess' = HeldAccess
      BY <3>1 DEF HeldAccess
    <3>3. ASSUME NEW access \in HeldAccess \ {None} PROVE ExpiresInTime(access)'
      <4>1. access \in AccessTokens /\ ExpiresInTime(access)
        BY <3>3, HeldAccessTypes DEF RoleInv
      <4>2. CASE access.user = u
        BY <2>0, <3>1, <4>1, <4>2 DEF ExpiresInTime, AccessTokens
      <4>3. CASE access.user # u
        BY <2>0, <3>1, <4>1, <4>3 DEF ExpiresInTime, AccessTokens
      <4>4. QED BY <4>2, <4>3
    <3>4. ASSUME NEW q \in Requests PROVE RequestIsShort(q)'
      <4>1. RequestIsShort(q)
        BY DEF RoleInv
      <4>2. CASE request[q].phase = "checked"
        <5>1. request[q].user \in Users
          BY <4>2 DEF SessionTypeOK
        <5>2. QED BY <2>0, <3>1, <4>1, <5>1 DEF RequestIsShort
      <4>3. CASE request[q].phase # "checked"
        BY <3>1, <4>1, <4>3 DEF RequestIsShort
      <4>4. QED BY <4>2, <4>3
    <3>5. QED BY <3>2, <3>3, <3>4 DEF RoleInv
  <2>12. CASE Tick
    <3>1. /\ UNCHANGED <<role, changed, jar, request>> /\ now' = now + 1
          /\ \A q \in Requests :
               request[q].phase # "idle" => now - request[q].since < RequestSpan
      BY <2>12 DEF Tick
    <3>2. HeldAccess' = HeldAccess
      BY <3>1 DEF HeldAccess
    <3>3. ASSUME NEW access \in HeldAccess \ {None} PROVE ExpiresInTime(access)'
      <4>1. access \in AccessTokens /\ ExpiresInTime(access)
        BY <3>3, HeldAccessTypes DEF RoleInv
      <4>2. QED BY <2>0, <3>1, <4>1 DEF ExpiresInTime, AccessTokens
    <3>4. ASSUME NEW q \in Requests PROVE RequestIsShort(q)'
      BY <2>0, <3>1 DEF RoleInv, RequestIsShort
    <3>5. QED BY <3>2, <3>3, <3>4 DEF RoleInv
  <2>13. CASE UNCHANGED vars
    BY <2>13 DEF vars, RoleInv, RequestIsShort, HeldAccess, ExpiresInTime
  <2>14. QED BY <2>3, <2>4, <2>5, <2>6, <2>7, <2>8, <2>9, <2>10, <2>11, <2>12, <2>13
    DEF Next, Login, Refresh, RejectReused, RejectExpired, Lose
<1>3. SessionTypeOK /\ RoleInv => RoleChangeIsInForceInTime
  <2> SUFFICES ASSUME SessionTypeOK, RoleInv, NEW b \in Browsers,
                      Outdated(jar[b].access)
               PROVE  now < changed[jar[b].access.user] + AccessTtl + RequestSpan
    BY DEF RoleChangeIsInForceInTime
  <2>1. PICK access : access = jar[b].access
    OBVIOUS
  <2>2. access \in HeldAccess /\ access # None
    BY <2>1 DEF HeldAccess, Outdated
  <2>3. access \in AccessTokens /\ ExpiresInTime(access)
    BY <2>2, HeldAccessTypes DEF RoleInv
  <2>4. now \in Nat /\ AccessTtl \in Nat /\ RequestSpan \in Nat
    BY TtlsArePositive, SpansAreNumbers DEF SessionTypeOK
  <2>5. QED BY <2>1, <2>3, <2>4 DEF Outdated, Verifies, ExpiresInTime, AccessTokens
<1>4. QED BY <1>1, <1>2, <1>3, SessionTypeCorrect, PTL DEF Spec
=============================================================================
